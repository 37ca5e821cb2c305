-------------------------- MODULE BackgroundThread --------------------------
(***************************************************************************)
(* Foo of find_zombie_thread_with_loom/src/lib.rs: a value that owns a     *)
(* background thread, which sleeps on a condition variable.  To drop the   *)
(* Foo must end its thread, so that the handle taken before can be joined. *)
(* With the feature "error" the thread looks at the strong count of what   *)
(* it shares with the Foo; without it, at a flag under the mutex.          *)
(***************************************************************************)
EXTENDS Naturals

CONSTANTS
  Foos,      \* the Foos, each with its thread and its owner
  Counting   \* those built with the cargo feature "error"

ASSUME CountingAssumption == Counting \subseteq Foos

VARIABLES
  worker,   \* worker[f]: where the background thread of f stands
  owner,    \* owner[f]: where the thread that drops f, and joins, stands
  mutex,    \* mutex[f]: who holds Shared::state
  stop,     \* stop[f]: the flag in Shared::state (without the feature)
  count     \* count[f]: the strong count of the Arc<Shared>

vars == <<worker, owner, mutex, stop, count>>

WorkerStages == {"loop", "counted", "held", "wait", "asleep", "woken", "ended"}
OwnerStages == {"using", "locked", "set", "notified", "dropped", "joining", "joined"}

TypeOK ==
  /\ worker \in [Foos -> WorkerStages]
  /\ owner \in [Foos -> OwnerStages]
  /\ mutex \in [Foos -> {"free", "worker", "owner"}]
  /\ stop \in [Foos -> BOOLEAN]
  /\ count \in [Foos -> 0 .. 2]

Init ==
  /\ worker = [f \in Foos |-> "loop"]
  /\ owner = [f \in Foos |-> "using"]
  /\ mutex = [f \in Foos |-> "free"]
  /\ stop = [f \in Foos |-> FALSE]
  /\ count = [f \in Foos |-> 2]

WorkerGoes(f, from, to) == worker[f] = from /\ worker' = [worker EXCEPT ![f] = to]
OwnerGoes(f, from, to) == owner[f] = from /\ owner' = [owner EXCEPT ![f] = to]
Acquire(f, who) == mutex[f] = "free" /\ mutex' = [mutex EXCEPT ![f] = who]
Release(f) == mutex' = [mutex EXCEPT ![f] = "free"]
DropArc(f) == count' = [count EXCEPT ![f] = @ - 1]

(***************************************************************************)
(* The background thread.                                                  *)
(***************************************************************************)
CountRefsOff(f) ==   \* mutant: strong_count >= 1, which includes its own
  /\ f \in Counting
  /\ WorkerGoes(f, "loop", "counted")
  /\ UNCHANGED <<owner, mutex, stop, count>>

\* while Arc::strong_count(&shared) > 1
CountRefs(f) ==
  /\ f \in Counting
  /\ \/ count[f] > 1 /\ WorkerGoes(f, "loop", "counted") /\ UNCHANGED count
     \/ count[f] <= 1 /\ WorkerGoes(f, "loop", "ended") /\ DropArc(f)
  /\ UNCHANGED <<owner, mutex, stop>>

\* state.lock(): with the feature, the thread waits next; without it, the
\* guard is the flag, which it tests first.
Lock(f) ==
  /\ \/ f \in Counting /\ WorkerGoes(f, "counted", "wait")
     \/ f \notin Counting /\ WorkerGoes(f, "loop", "held")
  /\ Acquire(f, "worker")
  /\ UNCHANGED <<owner, stop, count>>

\* while !*stop
TestStop(f) ==
  /\ \/ ~stop[f] /\ WorkerGoes(f, "held", "wait") /\ UNCHANGED <<mutex, count>>
     \/ stop[f] /\ WorkerGoes(f, "held", "ended") /\ Release(f) /\ DropArc(f)
  /\ UNCHANGED <<owner, stop>>

\* cvar.wait: the mutex is released and the thread sleeps, at once.
Sleep(f) ==
  /\ WorkerGoes(f, "wait", "asleep")
  /\ Release(f)
  /\ UNCHANGED <<owner, stop, count>>

\* The standard library lets wait return for no reason.
WakeSpuriously(f) ==
  /\ WorkerGoes(f, "asleep", "woken")
  /\ UNCHANGED <<owner, mutex, stop, count>>

\* wait returns with the mutex; with the feature the guard is dropped at the
\* end of the loop's body, without it the flag is tested under it.
Relock(f) ==
  /\ mutex[f] = "free"
  /\ \/ f \in Counting /\ WorkerGoes(f, "woken", "loop") /\ UNCHANGED mutex
     \/ f \notin Counting /\ WorkerGoes(f, "woken", "held") /\ Acquire(f, "worker")
  /\ UNCHANGED <<owner, stop, count>>

(***************************************************************************)
(* The owner: take_jh(), drop(foo) and jh.join().                          *)
(***************************************************************************)
OwnerLockBarges(f) ==   \* mutant: the flag is atomic, and set without the mutex
  /\ f \notin Counting
  /\ OwnerGoes(f, "using", "locked")
  /\ UNCHANGED <<worker, mutex, stop, count>>

OwnerLock(f) ==
  /\ f \notin Counting
  /\ OwnerGoes(f, "using", "locked")
  /\ Acquire(f, "owner")
  /\ UNCHANGED <<worker, stop, count>>

SetStop(f) ==
  /\ OwnerGoes(f, "locked", "set")
  /\ stop' = [stop EXCEPT ![f] = TRUE]
  /\ UNCHANGED <<worker, mutex, count>>

NotifyNobody(f) ==   \* mutant: drop without notify_one
  /\ \/ f \in Counting /\ OwnerGoes(f, "using", "dropped")
     \/ f \notin Counting /\ OwnerGoes(f, "set", "notified")
  /\ UNCHANGED <<worker, mutex, stop, count>>

\* cvar.notify_one(): a thread that does not sleep yet misses it.
NotifyOne(f) ==
  /\ \/ f \in Counting /\ OwnerGoes(f, "using", "dropped")
     \/ f \notin Counting /\ OwnerGoes(f, "set", "notified")
  /\ worker' = IF worker[f] = "asleep" THEN [worker EXCEPT ![f] = "woken"] ELSE worker
  /\ UNCHANGED <<mutex, stop, count>>

OwnerUnlockDrops(f) ==   \* mutant: the Arc is read out of self, and dropped twice
  /\ OwnerGoes(f, "notified", "dropped")
  /\ Release(f)
  /\ DropArc(f)
  /\ UNCHANGED <<worker, stop>>

OwnerUnlock(f) ==
  /\ OwnerGoes(f, "notified", "dropped")
  /\ Release(f)
  /\ UNCHANGED <<worker, stop, count>>

\* The fields of the Foo are dropped after the body of Drop::drop.
DropShared(f) ==
  /\ OwnerGoes(f, "dropped", "joining")
  /\ DropArc(f)
  /\ UNCHANGED <<worker, mutex, stop>>

Join(f) ==
  /\ worker[f] = "ended"
  /\ OwnerGoes(f, "joining", "joined")
  /\ UNCHANGED <<worker, mutex, stop, count>>

AllJoined ==
  /\ \A f \in Foos : owner[f] = "joined"
  /\ UNCHANGED vars

WorkerStep(f) == CountRefs(f) \/ Lock(f) \/ TestStop(f) \/ Sleep(f) \/ Relock(f)

OwnerStep(f) ==
  OwnerLock(f) \/ SetStop(f) \/ NotifyOne(f) \/ OwnerUnlock(f) \/ DropShared(f) \/ Join(f)

Next ==
  \/ \E f \in Foos : WorkerStep(f) \/ WakeSpuriously(f) \/ OwnerStep(f)
  \/ AllJoined

Spec == Init /\ [][Next]_vars

\* Both threads are scheduled; nobody may count on a spurious wakeup.
Fairness == \A f \in Foos : WF_vars(WorkerStep(f)) /\ WF_vars(OwnerStep(f))

FairSpec == Spec /\ Fairness

(***************************************************************************)
(* The inductive invariant of the variant with the flag.                   *)
(***************************************************************************)
\* Each reference is held by a side that is not over.
CountInv ==
  \A f \in Foos :
    count[f] = (IF worker[f] = "ended" THEN 0 ELSE 1)
                 + (IF owner[f] \in {"joining", "joined"} THEN 0 ELSE 1)

FlagInv ==
  \A f \in Foos \ Counting :
    /\ mutex[f] = "owner" <=> owner[f] \in {"locked", "set", "notified"}
    /\ mutex[f] = "worker" <=> worker[f] \in {"held", "wait"}
    /\ stop[f] <=> owner[f] \notin {"using", "locked"}
    /\ owner[f] = "notified" => worker[f] # "asleep"
    /\ worker[f] # "counted"

\* With the strong count the thread holds the mutex where it is about to wait;
\* the owner never does.
CountingInv ==
  \A f \in Counting :
    /\ worker[f] # "held" /\ mutex[f] # "owner"
    /\ owner[f] \notin {"locked", "set", "notified"}
    /\ mutex[f] = "worker" <=> worker[f] = "wait"

(***************************************************************************)
(* The properties.                                                         *)
(***************************************************************************)
\* The flag and the mutex leave no gap for the wakeup (lines 56-63, 85-90):
\* once drop has let go of the mutex, the thread neither sleeps nor is about
\* to, at whatever point of its loop the flag met it.
NoSleepAfterStop ==
  \A f \in Foos \ Counting :
    owner[f] \in {"dropped", "joining", "joined"} => worker[f] \notin {"wait", "asleep"}

\* With the flag, a Foo that is dropped has its thread joined (lines 97-102).
FlagIsJoined == \A f \in Foos \ Counting : owner[f] = "dropped" ~> owner[f] = "joined"

\* The strong count is no more than half an answer (lines 37-40): the thread
\* ends if it has yet to look at the count when the last other reference goes.
AwakeIsJoined ==
  \A f \in Counting :
    owner[f] = "joining" /\ worker[f] \in {"woken", "loop"} ~> owner[f] = "joined"

\* What test() asks of both variants (lines 97-102 and 123-128): a Foo that is
\* dropped has its thread joined.
DroppedIsJoined == \A f \in Foos : owner[f] = "dropped" ~> owner[f] = "joined"
=============================================================================
