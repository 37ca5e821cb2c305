----------------------- MODULE BackgroundThreadProofs -----------------------
(***************************************************************************)
(* For any number of Foos: no wakeup is lost when the flag is used, and    *)
(* when the strong count is used it is lost for good or heard in time.     *)
(***************************************************************************)
EXTENDS BackgroundThread, TLAPS

IInv == TypeOK /\ CountInv /\ FlagInv /\ CountingInv /\ NoSleepAfterStop

LEMMA InitEstablishes == Init => IInv
<1> SUFFICES ASSUME Init PROVE IInv
  OBVIOUS
<1>1. TypeOK /\ CountInv
  BY DEF Init, TypeOK, CountInv, WorkerStages, OwnerStages
<1>2. FlagInv /\ CountingInv /\ NoSleepAfterStop
  BY CountingAssumption DEF Init, FlagInv, CountingInv, NoSleepAfterStop
<1> QED
  BY <1>1, <1>2 DEF IInv

LEMMA StepKeeps == IInv /\ [Next]_vars => IInv'
<1> SUFFICES ASSUME IInv, [Next]_vars PROVE IInv'
  OBVIOUS
<1> USE CountingAssumption
    DEF IInv, TypeOK, CountInv, FlagInv, CountingInv, NoSleepAfterStop, WorkerStages, OwnerStages,
        WorkerGoes, OwnerGoes, Acquire, Release, DropArc
<1>1. ASSUME NEW f \in Foos, WorkerStep(f) \/ WakeSpuriously(f) PROVE IInv'
  <2>1. CASE CountRefs(f)
    BY <2>1 DEF CountRefs
  <2>2. CASE Lock(f)
    BY <2>2 DEF Lock
  <2>3. CASE TestStop(f)
    <3>1. CASE ~stop[f] /\ WorkerGoes(f, "held", "wait") /\ UNCHANGED <<mutex, count>>
      BY <2>3, <3>1 DEF TestStop
    <3>2. CASE stop[f] /\ WorkerGoes(f, "held", "ended") /\ Release(f) /\ DropArc(f)
      BY <2>3, <3>2 DEF TestStop
    <3> QED
      BY <2>3, <3>1, <3>2 DEF TestStop
  <2>4. CASE Sleep(f)
    BY <2>4 DEF Sleep
  <2>5. CASE Relock(f)
    BY <2>5 DEF Relock
  <2>6. CASE WakeSpuriously(f)
    BY <2>6 DEF WakeSpuriously
  <2> QED
    BY <1>1, <2>1, <2>2, <2>3, <2>4, <2>5, <2>6 DEF WorkerStep
<1>2. ASSUME NEW f \in Foos, OwnerStep(f) PROVE IInv'
  <2>1. CASE OwnerLock(f)
    BY <2>1 DEF OwnerLock
  <2>2. CASE SetStop(f)
    BY <2>2 DEF SetStop
  <2>3. CASE NotifyOne(f)
    BY <2>3 DEF NotifyOne
  <2>4. CASE OwnerUnlock(f)
    BY <2>4 DEF OwnerUnlock
  <2>5. CASE DropShared(f)
    BY <2>5 DEF DropShared
  <2>6. CASE Join(f)
    BY <2>6 DEF Join
  <2> QED
    BY <1>2, <2>1, <2>2, <2>3, <2>4, <2>5, <2>6 DEF OwnerStep
<1>3. CASE AllJoined \/ UNCHANGED vars
  BY <1>3 DEF AllJoined, vars
<1> QED
  BY <1>1, <1>2, <1>3 DEF Next

(* Of both variants: the strong count is what the two sides hold, so it      *)
(* stays between 0 and 2 (lib.rs:33-48, 53-68).                              *)
THEOREM TypeCorrect == Spec => []TypeOK
<1>1. IInv => TypeOK
  BY DEF IInv
<1> QED
  BY <1>1, InitEstablishes, StepKeeps, PTL DEF Spec

(* With the flag, drop ends with the thread awake or on its way out          *)
(* (lib.rs:56-63, 85-90).                                                    *)
THEOREM NoWakeupLost == Spec => []NoSleepAfterStop
<1>1. IInv => NoSleepAfterStop
  BY DEF IInv
<1> QED
  BY <1>1, InitEstablishes, StepKeeps, PTL DEF Spec

\* What each side waits for is there.
WorkerCanStep(f) ==
  \/ worker[f] = "loop" /\ (f \in Counting \/ mutex[f] = "free")
  \/ worker[f] \in {"counted", "woken"} /\ mutex[f] = "free"
  \/ worker[f] \in {"held", "wait"}
OwnerCanStep(f) ==
  \/ owner[f] = "using" /\ (f \in Counting \/ mutex[f] = "free")
  \/ owner[f] \in {"locked", "set", "notified", "dropped"}
  \/ owner[f] = "joining" /\ worker[f] = "ended"

\* The Foo is dropped and its thread awake, or where it looks once more; with
\* the strong count, the thread may also have looked for the last time.
StopIsHeard(f) ==
  IF f \in Counting
    THEN owner[f] = "joining" /\ worker[f] \in {"loop", "woken", "ended"}
    ELSE owner[f] \in {"dropped", "joining"} /\ worker[f] \in {"loop", "held", "woken", "ended"}
StopIsMissed(f) ==
  f \in Counting /\ owner[f] = "joining" /\ worker[f] \in {"counted", "wait", "asleep"}

\* With the flag drop never hangs, from its first line to join; with the strong
\* count join hangs if the thread has looked, and only then (lib.rs:36-48, 56-63,
\* 73-102).
DropNeverHangs ==
  \A f \in Foos :
    /\ f \notin Counting /\ owner[f] # "joined" => WorkerCanStep(f) \/ OwnerCanStep(f)
    /\ StopIsHeard(f) => WorkerCanStep(f) \/ OwnerCanStep(f)
    /\ owner[f] = "joining" => StopIsHeard(f) \/ StopIsMissed(f)

\* How many steps the two sides have left until the thread is joined.
ToGo(f) ==
  (CASE worker[f] = "woken" -> 2
     [] worker[f] = "loop" -> IF f \in Counting THEN 1 ELSE 2
     [] worker[f] = "held" -> 1
     [] OTHER -> 0)
  + (CASE owner[f] = "dropped" -> 2 [] owner[f] = "joining" -> 1 [] OTHER -> 0)

\* A thread that hears of the stop is joined in four steps at most: it does not
\* go back to sleep (lib.rs:36-48, 56-63).
JoinComesNearer ==
  [][\A f \in Foos :
       StopIsHeard(f) /\ <<worker[f], owner[f]>> # <<worker[f], owner[f]>>' =>
         /\ StopIsHeard(f)' \/ owner'[f] = "joined"
         /\ ToGo(f) > ToGo(f)']_vars

\* One that has missed it goes on to sleep, and no step of either side wakes it:
\* the owner is in join() for good (lib.rs:37-42, 123-128).
MissedIsZombie ==
  [][\A f \in Foos : StopIsMissed(f) => StopIsMissed(f)' \/ WakeSpuriously(f)]_vars

(* With the flag drop never hangs; with the strong count join hangs only if  *)
(* the thread had looked before the last other reference went                *)
(* (lib.rs:36-48, 56-63, 73-102).                                            *)
THEOREM DropsGoOn == Spec => []DropNeverHangs
<1>1. ASSUME IInv, NEW f \in Foos
      PROVE  /\ f \notin Counting /\ owner[f] # "joined" => WorkerCanStep(f) \/ OwnerCanStep(f)
             /\ StopIsHeard(f) => WorkerCanStep(f) \/ OwnerCanStep(f)
             /\ owner[f] = "joining" => StopIsHeard(f) \/ StopIsMissed(f)
  <2> USE <1>1 DEF StopIsHeard, StopIsMissed, WorkerCanStep, OwnerCanStep
  <2>1. /\ worker[f] \in WorkerStages /\ owner[f] \in OwnerStages
        /\ mutex[f] \in {"free", "worker", "owner"}
    BY DEF IInv, TypeOK
  <2>2. CASE f \in Counting
    BY <2>1, <2>2 DEF IInv, CountingInv, WorkerStages, OwnerStages
  <2>3. CASE f \notin Counting
    <3>1. /\ mutex[f] = "owner" <=> owner[f] \in {"locked", "set", "notified"}
          /\ mutex[f] = "worker" <=> worker[f] \in {"held", "wait"}
          /\ owner[f] \in {"dropped", "joining", "joined"} => worker[f] \notin {"wait", "asleep"}
          /\ worker[f] # "counted"
      BY <2>3 DEF IInv, FlagInv, NoSleepAfterStop
    <3> QED
      BY <2>1, <2>3, <3>1 DEF WorkerStages, OwnerStages
  <2> QED
    BY <2>2, <2>3
<1>2. IInv => DropNeverHangs
  BY <1>1 DEF DropNeverHangs
<1> QED
  BY <1>2, InitEstablishes, StepKeeps, PTL DEF Spec

(* A step of a thread that hears of the stop, or of its owner.               *)
LEMMA HeardStep ==
  ASSUME IInv, [Next]_vars, NEW f \in Foos, StopIsHeard(f),
         <<worker[f], owner[f]>> # <<worker[f], owner[f]>>'
  PROVE  /\ StopIsHeard(f)' \/ owner'[f] = "joined"
         /\ ToGo(f) > ToGo(f)'
<1> DEFINE Nearer == /\ StopIsHeard(f)' \/ owner'[f] = "joined"
                     /\ ToGo(f) > ToGo(f)'
<1> USE CountingAssumption
    DEF IInv, TypeOK, CountInv, FlagInv, CountingInv, WorkerStages, OwnerStages,
        WorkerGoes, OwnerGoes, StopIsHeard, ToGo
<1>1. ASSUME NEW g \in Foos, CountRefs(g) PROVE Nearer
  BY <1>1 DEF CountRefs
<1>2. ASSUME NEW g \in Foos, Lock(g) \/ Relock(g) PROVE Nearer
  BY <1>2 DEF Lock, Relock
<1>3. ASSUME NEW g \in Foos, TestStop(g) PROVE Nearer
  BY <1>3 DEF TestStop
<1>4. ASSUME NEW g \in Foos, Sleep(g) \/ WakeSpuriously(g) PROVE Nearer
  BY <1>4 DEF Sleep, WakeSpuriously
<1>5. ASSUME NEW g \in Foos, OwnerLock(g) \/ SetStop(g) \/ NotifyOne(g) PROVE Nearer
  BY <1>5 DEF OwnerLock, SetStop, NotifyOne
<1>6. ASSUME NEW g \in Foos, OwnerUnlock(g) \/ DropShared(g) \/ Join(g) PROVE Nearer
  BY <1>6 DEF OwnerUnlock, DropShared, Join
<1> QED
  BY <1>1, <1>2, <1>3, <1>4, <1>5, <1>6 DEF Next, WorkerStep, OwnerStep, AllJoined, vars

(* A thread that hears of the stop is joined within four steps of the two    *)
(* (lib.rs:36-48, 56-63).                                                    *)
THEOREM JoinsComeNearer == Spec => JoinComesNearer
<1>1. IInv /\ [Next]_vars =>
        [\A f \in Foos :
           StopIsHeard(f) /\ <<worker[f], owner[f]>> # <<worker[f], owner[f]>>' =>
             /\ StopIsHeard(f)' \/ owner'[f] = "joined"
             /\ ToGo(f) > ToGo(f)']_vars
  BY HeardStep
<1> QED
  BY <1>1, InitEstablishes, StepKeeps, PTL DEF Spec, JoinComesNearer

(* A thread that has missed the stop is never joined, unless wait returns    *)
(* for no reason (lib.rs:37-42, 123-128).                                    *)
THEOREM ZombiesStay == Spec => MissedIsZombie
<1>1. ASSUME IInv, [Next]_vars, NEW f \in Foos, StopIsMissed(f)
      PROVE  StopIsMissed(f)' \/ WakeSpuriously(f)
  <2> USE <1>1, CountingAssumption
      DEF IInv, TypeOK, CountInv, CountingInv, WorkerGoes, OwnerGoes, StopIsMissed
  <2>1. ASSUME NEW g \in Foos, CountRefs(g) \/ Lock(g) \/ TestStop(g) PROVE StopIsMissed(f)'
    BY <2>1 DEF CountRefs, Lock, TestStop
  <2>2. ASSUME NEW g \in Foos, Sleep(g) \/ Relock(g) PROVE StopIsMissed(f)'
    BY <2>2 DEF Sleep, Relock
  <2>3. ASSUME NEW g \in Foos, WakeSpuriously(g), g # f PROVE StopIsMissed(f)'
    BY <2>3 DEF WakeSpuriously
  <2>4. ASSUME NEW g \in Foos, OwnerStep(g) PROVE StopIsMissed(f)'
    BY <2>4 DEF OwnerStep, OwnerLock, SetStop, NotifyOne, OwnerUnlock, DropShared, Join
  <2> QED
    BY <2>1, <2>2, <2>3, <2>4 DEF Next, WorkerStep, AllJoined, vars
<1>2. IInv /\ [Next]_vars =>
        [\A f \in Foos : StopIsMissed(f) => StopIsMissed(f)' \/ WakeSpuriously(f)]_vars
  BY <1>1
<1> QED
  BY <1>2, InitEstablishes, StepKeeps, PTL DEF Spec, MissedIsZombie
=============================================================================
