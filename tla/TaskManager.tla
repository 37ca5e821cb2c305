----------------------------- MODULE TaskManager -----------------------------
(***************************************************************************)
(* The TaskManager<usize> of task_manager/src/lib.rs: client threads that  *)
(* share it call spawn_task and cancel, its owner drops it, a manager      *)
(* thread receives Tasks from an unbounded channel and spawns them on a    *)
(* tokio runtime, and each task's future passes a semaphore, moves its     *)
(* task from `waiting` to `ongoing`, and races the task's run against its  *)
(* CancellationToken.                                                      *)
(*                                                                         *)
(* Every critical section of the RwLock `waiting` is one step.  The lock   *)
(* `ongoing` is held over several steps by a future that moves a task and  *)
(* by drop, so it is a variable; its other sections are one step each,     *)
(* taken when it is free.                                                  *)
(***************************************************************************)
EXTENDS Naturals, Sequences, FiniteSets

CONSTANTS
  Keys,         \* what KEY.fetch_add(1) hands out; bounds the spawn_task calls
  Clients,      \* the threads that hold a &TaskManager
  ParallelNum,  \* the permits of Tasks::semaphore
  JoinLimit,    \* the length above which the JoinSet is relieved (1024)
  Owner,        \* the thread that drops the TaskManager, as a lock holder
  None          \* nobody holds the lock; no key

ASSUME KeysAssumption == IsFiniteSet(Keys)
ASSUME ParallelAssumption == ParallelNum \in Nat \ {0}
ASSUME JoinAssumption == JoinLimit \in Nat
ASSUME LockAssumption == Owner \notin Keys /\ None \notin Keys /\ Owner # None

VARIABLES
  issued,       \* keys taken from the static counter KEY
  waiting,      \* Tasks::waiting: keys of tasks not started
  ongoing,      \* Tasks::ongoing: keys of the contexts of started tasks
  lock,         \* who holds ongoing.write() beyond one step
  token,        \* token[k]: context.cancel of task k is cancelled
  permits,      \* permits left in Tasks::semaphore
  chan,         \* the Tasks sent and not yet received
  tx,           \* TaskManager::tx is Some
  manager,      \* where the manager thread stands
  joinset,      \* the JoinSet js: tasks spawned and not yet joined
  stage,        \* stage[k]: where the future of task k stands
  client,       \* client[c]: where c stands in its call
  arg,          \* arg[c]: the key c's call is about
  owner,        \* where drop stands
  accepted,     \* history: keys that spawn_task returned as Ok
  cancelled     \* history: keys for which cancel has returned

shared == <<issued, waiting, ongoing, lock, token, permits>>
managing == <<chan, tx, manager, joinset>>
calling == <<client, arg, accepted, cancelled>>
vars == <<shared, managing, stage, calling, owner>>

(***************************************************************************)
(* The stages of a task's future.                                          *)
(***************************************************************************)
\* It holds its semaphore permit.
PermitStages == {"permit", "locked", "taken", "ready", "armed", "running",
                 "on_err", "on_cancel", "finishing", "leaving"}
\* Its task has been taken out of `waiting` and is not over.
LiveStages == {"taken", "ready", "armed", "running", "on_err", "on_cancel", "finishing"}
\* The user's code runs.
UserStages == {"running", "on_err", "on_cancel"}
OverStages == {"done", "panicked"}
Stages == {"unsent", "spawned"} \cup PermitStages \cup OverStages

Goto(k, s) == stage' = [stage EXCEPT ![k] = s]
At(k, s) == stage[k] = s

Finished(k) == stage[k] \in OverStages

TypeOK ==
  /\ issued \in SUBSET Keys
  /\ waiting \in SUBSET Keys
  /\ ongoing \in SUBSET Keys
  /\ lock \in Keys \cup {Owner, None}
  /\ token \in [Keys -> BOOLEAN]
  /\ permits \in 0 .. ParallelNum
  /\ chan \in Seq(Keys)
  /\ tx \in BOOLEAN
  /\ manager \in {"building", "recv", "join_next", "join_all", "exited", "failed"}
  /\ joinset \in SUBSET Keys
  /\ stage \in [Keys -> Stages]
  /\ client \in [Clients -> {"idle", "send", "cancel_ongoing"}]
  /\ arg \in [Clients -> Keys \cup {None}]
  /\ owner \in {"using", "drained", "cancelling", "cancelled", "joining",
                "dropped", "panicked"}
  /\ accepted \in SUBSET Keys
  /\ cancelled \in SUBSET Keys

Init ==
  /\ issued = {}
  /\ waiting = {}
  /\ ongoing = {}
  /\ lock = None
  /\ token = [k \in Keys |-> FALSE]
  /\ permits = ParallelNum
  /\ chan = <<>>
  /\ tx = TRUE
  /\ manager = "building"
  /\ joinset = {}
  /\ stage = [k \in Keys |-> "unsent"]
  /\ client = [c \in Clients |-> "idle"]
  /\ arg = [c \in Clients |-> None]
  /\ owner = "using"
  /\ accepted = {}
  /\ cancelled = {}

(***************************************************************************)
(* The client threads: spawn_task and cancel.                              *)
(***************************************************************************)
Call(c, pc, k) ==
  /\ client' = [client EXCEPT ![c] = pc]
  /\ arg' = [arg EXCEPT ![c] = k]

\* spawn_task: a fresh key, and the task goes to `waiting`.  Nobody can tell
\* the two apart, as the key is known to c alone until it is in the map.
SpawnInsert(c, k) ==
  /\ owner = "using"
  /\ client[c] = "idle"
  /\ k \notin issued
  /\ issued' = issued \cup {k}
  /\ waiting' = waiting \cup {k}
  /\ Call(c, "send", k)
  /\ UNCHANGED <<ongoing, lock, token, permits, managing, stage, accepted, cancelled, owner>>

\* tx.send fails once the manager thread has dropped the receiver; the task
\* then stays in `waiting`, under a key that the caller never learns.
SpawnSend(c) ==
  /\ client[c] = "send"
  /\ IF manager = "failed"
       THEN UNCHANGED <<chan, accepted>>
       ELSE /\ chan' = Append(chan, arg[c])
            /\ accepted' = accepted \cup {arg[c]}
  /\ Call(c, "idle", None)
  /\ UNCHANGED <<shared, tx, manager, joinset, stage, cancelled, owner>>

\* cancel, on a key that spawn_task has returned: a task still waiting is
\* removed and cancel returns; else it goes on to look in `ongoing`.
CancelWaiting(c, k) ==
  /\ owner = "using"
  /\ client[c] = "idle"
  /\ k \in accepted
  /\ IF k \in waiting
       THEN /\ waiting' = waiting \ {k}
            /\ cancelled' = cancelled \cup {k}
            /\ UNCHANGED <<client, arg>>
       ELSE /\ Call(c, "cancel_ongoing", k)
            /\ UNCHANGED <<waiting, cancelled>>
  /\ UNCHANGED <<issued, ongoing, lock, token, permits, managing, stage, accepted, owner>>

CancelOngoingTry(c) ==   \* mutant: try_read in the place of read
  /\ client[c] = "cancel_ongoing"
  /\ token' = IF lock = None /\ arg[c] \in ongoing THEN [token EXCEPT ![arg[c]] = TRUE] ELSE token
  /\ cancelled' = cancelled \cup {arg[c]}
  /\ Call(c, "idle", None)
  /\ UNCHANGED <<issued, waiting, ongoing, lock, permits, managing, stage, accepted, owner>>

CancelOngoing(c) ==
  /\ client[c] = "cancel_ongoing"
  /\ lock = None
  /\ token' = IF arg[c] \in ongoing THEN [token EXCEPT ![arg[c]] = TRUE] ELSE token
  /\ cancelled' = cancelled \cup {arg[c]}
  /\ Call(c, "idle", None)
  /\ UNCHANGED <<issued, waiting, ongoing, lock, permits, managing, stage, accepted, owner>>

(***************************************************************************)
(* The manager thread.                                                     *)
(***************************************************************************)
BuildRuntime ==
  /\ manager = "building"
  /\ manager' = "recv"
  /\ UNCHANGED <<shared, chan, tx, joinset, stage, calling, owner>>

\* build().unwrap() panics: the receiver goes, with all that was sent.
BuildFails ==
  /\ manager = "building"
  /\ manager' = "failed"
  /\ chan' = <<>>
  /\ UNCHANGED <<shared, tx, joinset, stage, calling, owner>>

RecvOrJoin ==   \* mutant: a full JoinSet is relieved in the place of the spawn
  /\ manager = "recv"
  /\ chan # <<>>
  /\ chan' = Tail(chan)
  /\ IF Cardinality(joinset) >= JoinLimit
       THEN manager' = "join_next" /\ UNCHANGED <<joinset, stage>>
       ELSE /\ joinset' = joinset \cup {Head(chan)}
            /\ Goto(Head(chan), "spawned")
            /\ UNCHANGED manager
  /\ UNCHANGED <<shared, tx, calling, owner>>

Recv ==
  /\ manager = "recv"
  /\ chan # <<>>
  /\ chan' = Tail(chan)
  /\ joinset' = joinset \cup {Head(chan)}
  /\ Goto(Head(chan), "spawned")
  /\ manager' = IF Cardinality(joinset') > JoinLimit THEN "join_next" ELSE "recv"
  /\ UNCHANGED <<shared, tx, calling, owner>>

\* recv returns None: every sender is gone and the channel is empty.
RecvNone ==
  /\ manager = "recv"
  /\ chan = <<>>
  /\ ~tx
  /\ manager' = "join_all"
  /\ UNCHANGED <<shared, chan, tx, joinset, stage, calling, owner>>

JoinNext ==
  /\ manager = "join_next"
  /\ \E k \in joinset : Finished(k) /\ joinset' = joinset \ {k}
  /\ manager' = "recv"
  /\ UNCHANGED <<shared, chan, tx, stage, calling, owner>>

JoinNone ==   \* mutant: block_on returns without join_all
  /\ manager = "join_all"
  /\ joinset' = {}
  /\ manager' = "exited"
  /\ UNCHANGED <<shared, chan, tx, stage, calling, owner>>

JoinAll ==
  /\ manager = "join_all"
  /\ \A k \in joinset : Finished(k)
  /\ joinset' = {}
  /\ manager' = "exited"
  /\ UNCHANGED <<shared, chan, tx, stage, calling, owner>>

(***************************************************************************)
(* The future of one Task.                                                 *)
(***************************************************************************)
AcquireDropped(k) ==   \* mutant: `let _ =`, which drops the permit at once
  /\ At(k, "spawned")
  /\ permits > 0
  /\ Goto(k, "permit")
  /\ UNCHANGED <<shared, managing, calling, owner>>

\* semaphore.acquire().await, in whatever order the waiters are served.
Acquire(k) ==
  /\ At(k, "spawned")
  /\ permits > 0
  /\ permits' = permits - 1
  /\ Goto(k, "permit")
  /\ UNCHANGED <<issued, waiting, ongoing, lock, token, managing, calling, owner>>

LockOngoingLate(k) ==   \* mutant: ongoing is locked for the insertion alone
  /\ At(k, "permit")
  /\ lock = None
  /\ Goto(k, "locked")
  /\ UNCHANGED <<shared, managing, calling, owner>>

\* let mut ongoing = self.tasks.ongoing.write()
LockOngoing(k) ==
  /\ At(k, "permit")
  /\ lock = None
  /\ lock' = k
  /\ Goto(k, "locked")
  /\ UNCHANGED <<issued, waiting, ongoing, token, permits, managing, calling, owner>>

TakeWaitingTwice(k) ==   \* mutant: the early return drops the permit by hand as well
  /\ At(k, "locked")
  /\ IF k \in waiting
       THEN /\ waiting' = waiting \ {k}
            /\ Goto(k, "taken")
            /\ UNCHANGED <<lock, permits>>
       ELSE /\ lock' = None
            /\ permits' = permits + 1
            /\ Goto(k, "leaving")
            /\ UNCHANGED waiting
  /\ UNCHANGED <<issued, ongoing, token, managing, calling, owner>>

\* waiting.write().remove(&self.key); a task that is not there was cancelled
\* or drained, and its future returns.
TakeWaiting(k) ==
  /\ At(k, "locked")
  /\ IF k \in waiting
       THEN /\ waiting' = waiting \ {k}
            /\ Goto(k, "taken")
            /\ UNCHANGED lock
       ELSE /\ lock' = None
            /\ Goto(k, "leaving")
            /\ UNCHANGED waiting
  /\ UNCHANGED <<issued, ongoing, token, permits, managing, calling, owner>>

\* ongoing.insert(context.clone()), and the guard goes out of scope.
InsertOngoing(k) ==
  /\ At(k, "taken")
  /\ ongoing' = ongoing \cup {k}
  /\ lock' = None
  /\ Goto(k, "ready")
  /\ UNCHANGED <<issued, waiting, token, permits, managing, calling, owner>>

SelectAlways(k) ==   \* mutant: select! without the `if` of its run branch
  /\ At(k, "ready")
  /\ Goto(k, "armed")
  /\ UNCHANGED <<shared, managing, calling, owner>>

\* select! evaluates the precondition of its run branch once, before it polls
\* any branch; without that branch the cancelled token is the only outcome.
Select(k) ==
  /\ At(k, "ready")
  /\ Goto(k, IF token[k] THEN "on_cancel" ELSE "armed")
  /\ UNCHANGED <<shared, managing, calling, owner>>

\* The branches are polled in random order: the run may get its first poll.
RunFirstPoll(k) ==
  /\ At(k, "armed")
  /\ Goto(k, "running")
  /\ UNCHANGED <<shared, managing, calling, owner>>

RunOk(k) ==
  /\ At(k, "running")
  /\ Goto(k, "finishing")
  /\ UNCHANGED <<shared, managing, calling, owner>>

RunErr(k) ==
  /\ At(k, "running")
  /\ Goto(k, "on_err")
  /\ UNCHANGED <<shared, managing, calling, owner>>

SeeCancelledNever(k) ==   \* mutant: the run is awaited, not raced
  FALSE /\ UNCHANGED vars

\* The cancelled() branch is ready: select! drops the run where it awaits.
SeeCancelled(k) ==
  /\ stage[k] \in {"armed", "running"}
  /\ token[k]
  /\ Goto(k, "on_cancel")
  /\ UNCHANGED <<shared, managing, calling, owner>>

\* on_err or on_cancel returns.
HandlerEnds(k) ==
  /\ stage[k] \in {"on_err", "on_cancel"}
  /\ Goto(k, "finishing")
  /\ UNCHANGED <<shared, managing, calling, owner>>

\* The user's code panics: the future is dropped, and its permit with it.  The
\* context stays in `ongoing`, as nothing but the normal path removes it.
Panic(k) ==
  /\ stage[k] \in UserStages
  /\ permits' = permits + 1
  /\ Goto(k, "panicked")
  /\ UNCHANGED <<issued, waiting, ongoing, lock, token, managing, calling, owner>>

\* ongoing.write().remove(&context.key)
RemoveOngoing(k) ==
  /\ At(k, "finishing")
  /\ lock = None
  /\ ongoing' = ongoing \ {k}
  /\ Goto(k, "leaving")
  /\ UNCHANGED <<issued, waiting, lock, token, permits, managing, calling, owner>>

LeaveForgets(k) ==   \* mutant: the permit is forgotten, not dropped
  /\ At(k, "leaving")
  /\ Goto(k, "done")
  /\ UNCHANGED <<shared, managing, calling, owner>>

\* The future returns Ok(()) and drops _permit.
Leave(k) ==
  /\ At(k, "leaving")
  /\ permits' = permits + 1
  /\ Goto(k, "done")
  /\ UNCHANGED <<issued, waiting, ongoing, lock, token, managing, calling, owner>>

(***************************************************************************)
(* The owner: Drop for TaskManager.  It needs the only reference, so no    *)
(* client is in a call, or ever makes one again.                           *)
(***************************************************************************)
DrainNothing ==   \* mutant: drop leaves `waiting` to the futures
  /\ owner = "using"
  /\ \A c \in Clients : client[c] = "idle"
  /\ owner' = "drained"
  /\ UNCHANGED <<shared, managing, stage, calling>>

Drain ==
  /\ owner = "using"
  /\ \A c \in Clients : client[c] = "idle"
  /\ waiting' = {}
  /\ owner' = "drained"
  /\ UNCHANGED <<issued, ongoing, lock, token, permits, managing, stage, calling>>

OwnerLock ==
  /\ owner = "drained"
  /\ lock = None
  /\ lock' = Owner
  /\ owner' = "cancelling"
  /\ UNCHANGED <<issued, waiting, ongoing, token, permits, managing, stage, calling>>

\* One turn of for_each(|context| context.cancel.cancel()), the lock held.
OwnerCancel(k) ==
  /\ owner = "cancelling"
  /\ k \in ongoing
  /\ ~token[k]
  /\ token' = [token EXCEPT ![k] = TRUE]
  /\ UNCHANGED <<issued, waiting, ongoing, lock, permits, managing, stage, calling, owner>>

OwnerUnlockEarly ==   \* mutant: drop cancels no more than it likes
  /\ owner = "cancelling"
  /\ lock' = None
  /\ owner' = "cancelled"
  /\ UNCHANGED <<issued, waiting, ongoing, token, permits, managing, stage, calling>>

OwnerUnlock ==
  /\ owner = "cancelling"
  /\ \A k \in ongoing : token[k]
  /\ lock' = None
  /\ owner' = "cancelled"
  /\ UNCHANGED <<issued, waiting, ongoing, token, permits, managing, stage, calling>>

\* self.tx.take()
CloseChannel ==
  /\ owner = "cancelled"
  /\ tx' = FALSE
  /\ owner' = "joining"
  /\ UNCHANGED <<shared, chan, manager, joinset, stage, calling>>

\* self.jh.take().unwrap().join().unwrap()
JoinManager ==
  /\ owner = "joining"
  /\ \/ manager = "exited" /\ owner' = "dropped"
     \/ manager = "failed" /\ owner' = "panicked"
  /\ UNCHANGED <<shared, managing, stage, calling>>

\* Nothing is left to do once drop has ended.
Ended ==
  /\ owner \in {"dropped", "panicked"}
  /\ UNCHANGED vars

(***************************************************************************)
(* The specification.                                                      *)
(***************************************************************************)
ClientStep(c) ==
  \/ \E k \in Keys : SpawnInsert(c, k) \/ CancelWaiting(c, k)
  \/ SpawnSend(c)
  \/ CancelOngoing(c)

ManagerStep ==
  \/ BuildRuntime \/ BuildFails
  \/ Recv \/ RecvNone
  \/ JoinNext \/ JoinAll

\* The steps of a future that the runtime takes it through by itself.
FutureStep(k) ==
  \/ Acquire(k)
  \/ LockOngoing(k) \/ TakeWaiting(k) \/ InsertOngoing(k)
  \/ Select(k) \/ SeeCancelled(k)
  \/ HandlerEnds(k)
  \/ RemoveOngoing(k) \/ Leave(k)

\* The steps of the user's run, which need never end.
RunStep(k) == RunFirstPoll(k) \/ RunOk(k) \/ RunErr(k)

OwnerStep ==
  \/ OwnerLock
  \/ \E k \in Keys : OwnerCancel(k)
  \/ OwnerUnlock \/ CloseChannel \/ JoinManager

Next ==
  \/ \E c \in Clients : ClientStep(c)
  \/ ManagerStep
  \/ \E k \in Keys : FutureStep(k) \/ RunStep(k) \/ Panic(k)
  \/ Drain \/ OwnerStep
  \/ Ended

Spec == Init /\ [][Next]_vars

\* Threads and runtime workers are scheduled: a call that was begun goes on,
\* and a future that can step does.  No user has to call spawn_task, cancel or
\* drop, no run has to end, and nothing has to fail.
Fairness ==
  /\ \A c \in Clients : WF_vars(SpawnSend(c) \/ CancelOngoing(c))
  /\ WF_vars(ManagerStep)
  /\ \A k \in Keys : WF_vars(FutureStep(k))
  /\ WF_vars(OwnerStep)

FairSpec == Spec /\ Fairness

\* What holds of users whose runs all end.
RunsEnd == \A k \in Keys : WF_vars(RunStep(k))

(***************************************************************************)
(* The inductive invariant, one conjunct per relation between the parts.   *)
(***************************************************************************)
\* What the context of a task is inserted for, plus the panicked tasks.
OngoingStages == {"ready", "armed", "running", "on_err", "on_cancel", "finishing", "panicked"}

\* The lock of `ongoing` is held exactly where the code holds its guard.
LockInv ==
  /\ \A k \in Keys : lock = k <=> stage[k] \in {"locked", "taken"}
  /\ lock = Owner <=> owner = "cancelling"

\* No permit of the semaphore is lost or made up.
Holders == {k \in Keys : stage[k] \in PermitStages}
PermitInv == permits + Cardinality(Holders) = ParallelNum

\* Where a key is found, by the stage of its future.
QueueInv ==
  /\ accepted \subseteq issued
  /\ \A k \in Keys :
       /\ k \in ongoing <=> stage[k] \in OngoingStages
       /\ k \in waiting => /\ k \in issued
                           /\ stage[k] \in {"unsent", "spawned", "permit", "locked"}
       /\ stage[k] # "unsent" => k \in accepted
       /\ token[k] => stage[k] \in OngoingStages \cup {"leaving", "done"}

\* A key is sent once, after its task is in `waiting`.
ChanInv ==
  /\ \A i \in 1 .. Len(chan) : chan[i] \in accepted /\ stage[chan[i]] = "unsent"
  /\ \A i, j \in 1 .. Len(chan) : chan[i] = chan[j] => i = j
  /\ \A k \in accepted : stage[k] = "unsent" /\ manager # "failed" =>
       \E i \in 1 .. Len(chan) : chan[i] = k
  /\ \A c \in Clients :
       /\ client[c] = "send" => arg[c] \in issued \ accepted
       /\ client[c] = "cancel_ongoing" => arg[c] \in accepted \ waiting
  /\ \A c, d \in Clients :
       client[c] = "send" /\ client[d] = "send" /\ arg[c] = arg[d] => c = d

\* What the manager thread knows of the tasks.
ManagerInv ==
  /\ \A k \in Keys : stage[k] \in Stages \ ({"unsent"} \cup OverStages) => k \in joinset
  /\ \A k \in joinset : stage[k] # "unsent"
  /\ manager \in {"building", "failed"} => joinset = {} /\ \A k \in Keys : stage[k] = "unsent"
  /\ manager = "join_next" => joinset # {}
  /\ manager \in {"join_all", "exited"} => ~tx /\ chan = <<>>
  /\ manager = "exited" => joinset = {}

\* A cancelled task is in no place where it could begin unnoticed.
CancelInv ==
  \A k \in cancelled :
    /\ k \in accepted
    /\ k \notin waiting
    /\ stage[k] # "taken"
    /\ k \in ongoing => token[k]

\* How far drop has got, and what that says of the tasks.
OwnerInv ==
  /\ tx <=> owner \notin {"joining", "dropped", "panicked"}
  /\ owner # "using" => waiting = {} /\ \A c \in Clients : client[c] = "idle"
  /\ owner \in {"cancelling", "cancelled", "joining", "dropped", "panicked"} =>
       \A k \in Keys : stage[k] # "taken"
  /\ owner \in {"cancelled", "joining", "dropped", "panicked"} =>
       \A k \in ongoing : token[k]
  /\ owner = "dropped" => manager = "exited"
  /\ owner = "panicked" => manager = "failed"

IInv ==
  /\ TypeOK
  /\ LockInv
  /\ PermitInv
  /\ QueueInv
  /\ ChanInv
  /\ ManagerInv
  /\ CancelInv
  /\ OwnerInv

(***************************************************************************)
(* The properties.                                                         *)
(***************************************************************************)
\* Every step of the three lists, the locks, the semaphore and the channel is
\* accounted for: the conjunction above holds, apart from the type invariant.
\* (lib.rs keeps these facts in five places under three synchronisers.)
Consistent == IInv

\* At most ParallelNum tasks are between their removal from `waiting` and the
\* end of their handler, whatever ends them: the normal return, the early
\* return of a cancelled task, or a panic (the semaphore of lines 133-134).
ParallelLimit ==
  Cardinality({k \in Keys : stage[k] \in LiveStages}) <= ParallelNum

\* Once cancel has returned, its task never slips away: it is not waiting any
\* more, and if it has been taken for execution its token is cancelled.  This
\* is the "unexpected behavior" that the comment of lines 136-139 is about.
CancelEffective ==
  \A k \in cancelled :
    k \notin waiting /\ (stage[k] \in LiveStages => token[k])

\* Once drop has walked `ongoing`, every task that still lives was told to
\* stop, those that were on the way from `waiting` to `ongoing` included
\* (lines 354-361).
DropStopsAll ==
  owner \in {"cancelled", "joining", "dropped", "panicked"} =>
    \A k \in Keys : stage[k] \in LiveStages => token[k]

\* When drop returns ("wait until all tasks cancelled", line 364) nothing of
\* the task manager is left: no future is under way, no task is queued or in
\* the channel, the lock is free and all the permits are back; only contexts
\* of tasks that panicked are still in `ongoing`.
QuiescentAfterDrop ==
  owner = "dropped" =>
    /\ \A k \in Keys : stage[k] \in {"unsent"} \cup OverStages
    /\ waiting = {} /\ chan = <<>> /\ lock = None
    /\ permits = ParallelNum
    /\ \A k \in ongoing : stage[k] = "panicked"

\* A task whose cancel returned before select! looked at the token never gets
\* its run polled (the `if !context.cancel.is_cancelled()` of line 154): no
\* step brings a cancelled task to where run may be polled.
CancelledNotArmed ==
  [][\A k \in cancelled : At(k, "armed")' => At(k, "armed")]_vars

\* "Only be called when canceling a started task" (line 108), of on_cancel,
\* with `started` as test2's expected output has it: run has begun.
OnCancelOnlyAfterRun ==
  [][\A k \in Keys : At(k, "on_cancel")' /\ ~At(k, "on_cancel") => At(k, "running")]_vars

(***************************************************************************)
(* The task manager implements the ledger: each task changes status in one *)
(* step, although no single lock covers `waiting` and `ongoing`.           *)
(***************************************************************************)
Status(k) ==
  CASE k \notin issued           -> "absent"
    [] k \in waiting             -> "queued"
    [] stage[k] \in LiveStages   -> IF token[k] THEN "stopping" ELSE "active"
    [] OTHER                     -> "settled"

Phase ==
  CASE owner = "using"                   -> "open"
    [] owner \in {"dropped", "panicked"} -> "closed"
    [] OTHER                             -> "closing"

Ledger == INSTANCE TaskLedger WITH
  status <- [k \in Keys |-> Status(k)],
  phase <- Phase

\* Every step of clients, manager thread, futures and drop is one step of the
\* ledger or leaves it unchanged; in particular cancel and drop look atomic.
ImplementsLedger == Ledger!LedgerSpec

(***************************************************************************)
(* Liveness.                                                               *)
(***************************************************************************)
\* A task that was told to stop is over at some time, though its run may never
\* end by itself: select! drops it at its next await (lines 153-162).
CancelStops ==
  \A k \in Keys : k \in cancelled /\ stage[k] \in LiveStages ~> Finished(k)

\* Drop, once begun, returns or panics (lines 352-367), whatever the runs do:
\* neither the locks nor the full JoinSet make owner, manager thread and
\* futures wait for each other.
DropReturns == owner # "using" ~> owner \in {"dropped", "panicked"}

\* When runs end, every task that spawn_task accepted is settled, unless the
\* runtime could not be built: none is forgotten in `waiting` or in the
\* channel, also when the JoinSet is over its limit (lines 301-308).
AcceptedSettles ==
  RunsEnd => \A k \in Keys : k \in accepted ~> Status(k) = "settled" \/ manager = "failed"
=============================================================================
