-------------------------- MODULE TaskManagerProofs --------------------------
(***************************************************************************)
(* For any keys, clients, number of permits and JoinSet limit: the         *)
(* inductive invariant of TaskManager, one lemma per conjunct, what        *)
(* follows from it, that the task manager implements TaskLedger, and what  *)
(* of its liveness is safety: nobody waits for ever, and drop has a        *)
(* bounded number of steps before it.                                      *)
(***************************************************************************)
EXTENDS TaskManager, FiniteSetTheorems, TLAPS

(* The holders of a permit can be counted, and a holder leaves one less.     *)
LEMMA HolderCount ==
  ASSUME TypeOK, PermitInv
  PROVE  /\ IsFiniteSet(Holders)
         /\ Cardinality(Holders) \in Nat
         /\ permits = ParallelNum - Cardinality(Holders)
         /\ \A k \in Keys : stage[k] \in PermitStages => permits < ParallelNum
<1>1. IsFiniteSet(Holders)
  BY KeysAssumption, FS_Subset DEF Holders
<1>2. Cardinality(Holders) \in Nat
  BY <1>1, FS_CardinalityType
<1>3. permits = ParallelNum - Cardinality(Holders)
  BY <1>2, ParallelAssumption DEF PermitInv, TypeOK
<1>4. ASSUME NEW k \in Keys, stage[k] \in PermitStages PROVE permits < ParallelNum
  <2>1. k \in Holders
    BY <1>4 DEF Holders
  <2>2. Cardinality(Holders) # 0
    BY <1>1, <2>1, FS_EmptySet
  <2> QED
    BY <1>2, <1>3, <2>2, ParallelAssumption
<1> QED
  BY <1>1, <1>2, <1>3, <1>4

(* Every step keeps the variables in their types. *)
LEMMA TypeStep == IInv /\ [Next]_vars => TypeOK'
<1> SUFFICES ASSUME IInv, [Next]_vars PROVE TypeOK'
  OBVIOUS
<1> USE LockAssumption
    DEF TypeOK, Stages, PermitStages, OverStages, shared, managing, calling, Goto, At, Call
<1>1. TypeOK /\ permits \in Nat
  BY ParallelAssumption DEF IInv
<1>2. ASSUME NEW c \in Clients, ClientStep(c) PROVE TypeOK'
  <2>1. ASSUME NEW k \in Keys, SpawnInsert(c, k) PROVE TypeOK'
    BY <1>1, <2>1 DEF SpawnInsert
  <2>2. CASE SpawnSend(c)
    <3>1. arg[c] \in Keys
      BY <1>1, <2>2 DEF SpawnSend, IInv, ChanInv
    <3>2. chan' \in Seq(Keys) /\ accepted' \in SUBSET Keys
      BY <1>1, <2>2, <3>1 DEF SpawnSend
    <3>3. /\ client' \in [Clients -> {"idle", "send", "cancel_ongoing"}]
          /\ arg' \in [Clients -> Keys \cup {None}]
      BY <1>1, <2>2 DEF SpawnSend
    <3>4. UNCHANGED <<shared, tx, manager, joinset, stage, cancelled, owner>>
      BY <2>2 DEF SpawnSend
    <3> QED
      BY <1>1, <3>2, <3>3, <3>4
  <2>3. ASSUME NEW k \in Keys, CancelWaiting(c, k) PROVE TypeOK'
    BY <1>1, <2>3 DEF CancelWaiting
  <2>4. CASE CancelOngoing(c)
    <3>1. arg[c] \in Keys
      BY <1>1, <2>4 DEF CancelOngoing, IInv, ChanInv
    <3>2. token' \in [Keys -> BOOLEAN]
      BY <1>1, <2>4, <3>1 DEF CancelOngoing
    <3> QED
      BY <1>1, <2>4, <3>1, <3>2 DEF CancelOngoing
  <2> QED
    BY <1>2, <2>1, <2>2, <2>3, <2>4 DEF ClientStep
<1>3. CASE ManagerStep
  <2>1. CASE BuildRuntime \/ BuildFails
    <3>1. <<>> \in Seq(Keys)
      OBVIOUS
    <3> QED
      BY <1>1, <2>1, <3>1 DEF BuildRuntime, BuildFails
  <2>2. CASE Recv
    <3>1. Head(chan) \in Keys /\ Tail(chan) \in Seq(Keys)
      BY <1>1, <2>2 DEF Recv
    <3> QED
      BY <1>1, <2>2, <3>1 DEF Recv
  <2>3. CASE RecvNone \/ JoinNext \/ JoinAll
    BY <1>1, <2>3 DEF RecvNone, JoinNext, JoinAll
  <2> QED
    BY <1>3, <2>1, <2>2, <2>3 DEF ManagerStep
<1>4. ASSUME NEW k \in Keys, FutureStep(k) PROVE TypeOK'
  <2>1. CASE Acquire(k)
    BY <1>1, <2>1, ParallelAssumption DEF Acquire
  <2>2. CASE LockOngoing(k) \/ TakeWaiting(k) \/ InsertOngoing(k)
    BY <1>1, <2>2 DEF LockOngoing, TakeWaiting, InsertOngoing
  <2>3. CASE Select(k) \/ SeeCancelled(k) \/ HandlerEnds(k) \/ RemoveOngoing(k)
    BY <1>1, <2>3 DEF Select, SeeCancelled, HandlerEnds, RemoveOngoing
  <2>4. CASE Leave(k)
    <3>1. permits < ParallelNum
      BY <2>4, HolderCount DEF Leave, IInv
    <3> QED
      BY <1>1, <2>4, <3>1, ParallelAssumption DEF Leave
  <2> QED
    BY <1>4, <2>1, <2>2, <2>3, <2>4 DEF FutureStep
<1>5. ASSUME NEW k \in Keys, RunStep(k) PROVE TypeOK'
  BY <1>1, <1>5 DEF RunStep, RunFirstPoll, RunOk, RunErr
<1>6. ASSUME NEW k \in Keys, Panic(k) PROVE TypeOK'
  <2>1. permits < ParallelNum
    BY <1>6, HolderCount DEF Panic, UserStages, IInv
  <2> QED
    BY <1>1, <1>6, <2>1, ParallelAssumption DEF Panic
<1>7. CASE Drain \/ OwnerLock \/ OwnerUnlock \/ CloseChannel \/ JoinManager
  BY <1>1, <1>7 DEF Drain, OwnerLock, OwnerUnlock, CloseChannel, JoinManager
<1>8. ASSUME NEW k \in Keys, OwnerCancel(k) PROVE TypeOK'
  BY <1>1, <1>8 DEF OwnerCancel
<1>9. CASE Ended \/ UNCHANGED vars
  BY <1>1, <1>9 DEF Ended, vars
<1> QED
  BY <1>2, <1>3, <1>4, <1>5, <1>6, <1>7, <1>8, <1>9 DEF Next, OwnerStep

(* The semaphore: a step that takes a permit adds its task to the holders, a *)
(* step that gives one back removes it, and the others leave both alone.     *)
LEMMA PermitStep == IInv /\ [Next]_vars => PermitInv'
<1> SUFFICES ASSUME IInv, [Next]_vars PROVE PermitInv'
  OBVIOUS
<1>1. /\ IsFiniteSet(Holders)
      /\ Cardinality(Holders) \in Nat
      /\ permits \in Nat
      /\ permits + Cardinality(Holders) = ParallelNum
      /\ stage \in [Keys -> Stages]
      /\ ParallelNum \in Nat
  BY HolderCount, ParallelAssumption DEF IInv, PermitInv, TypeOK
<1>2. ASSUME Holders' = Holders, permits' = permits PROVE PermitInv'
  BY <1>1, <1>2 DEF PermitInv
<1>3. ASSUME NEW k \in Keys, Acquire(k) PROVE PermitInv'
  <2>1. k \notin Holders /\ Holders' = Holders \cup {k}
    BY <1>1, <1>3 DEF Acquire, Holders, PermitStages, At, Goto
  <2>2. Cardinality(Holders') = Cardinality(Holders) + 1
    BY <1>1, <2>1, FS_AddElement
  <2>3. permits' = permits - 1
    BY <1>3 DEF Acquire
  <2> QED
    BY <1>1, <2>2, <2>3 DEF PermitInv
<1>4. ASSUME NEW k \in Keys, Leave(k) \/ Panic(k) PROVE PermitInv'
  <2>1. k \in Holders /\ Holders' = Holders \ {k}
    BY <1>1, <1>4 DEF Leave, Panic, Holders, PermitStages, UserStages, At, Goto
  <2>2. Cardinality(Holders') = Cardinality(Holders) - 1
    BY <1>1, <2>1, FS_RemoveElement
  <2>3. permits' = permits + 1
    BY <1>4 DEF Leave, Panic
  <2> QED
    BY <1>1, <2>2, <2>3 DEF PermitInv
<1>5. ASSUME NEW c \in Clients, ClientStep(c) PROVE PermitInv'
  BY <1>2, <1>5 DEF ClientStep, SpawnInsert, SpawnSend, CancelWaiting, CancelOngoing, Holders,
     shared
<1>6. CASE ManagerStep
  <2>1. CASE Recv
    <3>1. Head(chan) \in Keys /\ stage[Head(chan)] = "unsent"
      BY <2>1 DEF Recv, IInv, TypeOK, ChanInv
    <3>2. Holders' = Holders /\ permits' = permits
      BY <1>1, <2>1, <3>1 DEF Recv, Holders, PermitStages, Goto, shared
    <3> QED
      BY <1>2, <3>2
  <2>2. CASE BuildRuntime \/ BuildFails \/ RecvNone \/ JoinNext \/ JoinAll
    BY <1>2, <2>2 DEF BuildRuntime, BuildFails, RecvNone, JoinNext, JoinAll, Holders, shared
  <2> QED
    BY <1>6, <2>1, <2>2 DEF ManagerStep
<1>7. ASSUME NEW k \in Keys, FutureStep(k), ~Acquire(k), ~Leave(k) PROVE PermitInv'
  <2>1. Holders' = Holders /\ permits' = permits
    BY <1>1, <1>7 DEF FutureStep, LockOngoing, TakeWaiting, InsertOngoing, Select, SeeCancelled,
       HandlerEnds, RemoveOngoing, Holders, PermitStages, At, Goto, shared
  <2> QED
    BY <1>2, <2>1
<1>8. ASSUME NEW k \in Keys, RunStep(k) PROVE PermitInv'
  <2>1. Holders' = Holders /\ permits' = permits
    BY <1>1, <1>8 DEF RunStep, RunFirstPoll, RunOk, RunErr, Holders, PermitStages, At, Goto, shared
  <2> QED
    BY <1>2, <2>1
<1>9. CASE Drain \/ OwnerStep \/ Ended \/ UNCHANGED vars
  BY <1>2, <1>9 DEF Drain, OwnerStep, OwnerLock, OwnerCancel, OwnerUnlock, CloseChannel,
     JoinManager, Ended, Holders, vars, shared
<1> QED
  BY <1>3, <1>4, <1>5, <1>6, <1>7, <1>8, <1>9 DEF Next, FutureStep

(* The channel: what is sent is fresh, and the two ends of the channel keep  *)
(* it so; nothing else touches it.                                           *)
LEMMA ChanStep == IInv /\ [Next]_vars => ChanInv'
<1> SUFFICES ASSUME IInv, [Next]_vars PROVE ChanInv'
  OBVIOUS
<1> USE DEF IInv, TypeOK, ChanInv, QueueInv, shared, managing, calling, Goto, At, Call
<1>1. ASSUME NEW c \in Clients, SpawnSend(c) PROVE ChanInv'
  <2>1. /\ client' = [client EXCEPT ![c] = "idle"]
        /\ arg' = [arg EXCEPT ![c] = None]
        /\ UNCHANGED <<issued, waiting, stage>>
        /\ arg[c] \in issued \ accepted /\ arg[c] \in Keys /\ stage[arg[c]] = "unsent"
    BY <1>1 DEF SpawnSend
  <2>2. CASE manager = "failed"
    BY <1>1, <2>1, <2>2 DEF SpawnSend
  <2>3. CASE manager # "failed"
    <3>1. chan' = Append(chan, arg[c]) /\ accepted' = accepted \cup {arg[c]}
      BY <1>1, <2>3 DEF SpawnSend
    <3>2. /\ Len(chan') = Len(chan) + 1
          /\ \A i \in 1 .. Len(chan) : chan'[i] = chan[i]
          /\ chan'[Len(chan) + 1] = arg[c]
          /\ Len(chan) \in Nat
      BY <2>1, <3>1
    <3>3. \A i \in 1 .. Len(chan') : chan'[i] \in accepted' /\ stage'[chan'[i]] = "unsent"
      BY <2>1, <3>1, <3>2
    <3>4. \A i, j \in 1 .. Len(chan') : chan'[i] = chan'[j] => i = j
      BY <2>1, <3>2
    <3>5. \A d \in Clients :
            /\ client'[d] = "send" => arg'[d] \in issued' \ accepted'
            /\ client'[d] = "cancel_ongoing" => arg'[d] \in accepted' \ waiting'
      BY <1>1, <2>1, <3>1 DEF SpawnSend
    <3>6. \A d, e \in Clients :
            client'[d] = "send" /\ client'[e] = "send" /\ arg'[d] = arg'[e] => d = e
      BY <2>1
    <3>7. ASSUME NEW k \in accepted', stage'[k] = "unsent"
          PROVE  \E i \in 1 .. Len(chan') : chan'[i] = k
      <4>1. CASE k = arg[c]
        BY <3>2, <4>1
      <4>2. CASE k \in accepted
        <5>1. PICK i \in 1 .. Len(chan) : chan[i] = k
          BY <2>1, <2>3, <3>7, <4>2
        <5> QED
          BY <3>2, <5>1
      <4> QED
        BY <3>1, <4>1, <4>2
    <3> QED
      BY <3>3, <3>4, <3>5, <3>6, <3>7
  <2> QED
    BY <2>2, <2>3
<1>2. ASSUME NEW c \in Clients, NEW k \in Keys, SpawnInsert(c, k) PROVE ChanInv'
  BY <1>2, SMTT(20) DEF SpawnInsert
<1>3. ASSUME NEW c \in Clients, NEW k \in Keys, CancelWaiting(c, k) PROVE ChanInv'
  BY <1>3, SMTT(20) DEF CancelWaiting
<1>4. ASSUME NEW c \in Clients, CancelOngoing(c) PROVE ChanInv'
  BY <1>4, SMTT(20) DEF CancelOngoing
<1>5. CASE Recv
  <2>1. /\ Len(chan) \in Nat \ {0}
        /\ Len(chan') = Len(chan) - 1
        /\ \A i \in 1 .. Len(chan') : chan'[i] = chan[i + 1]
        /\ Head(chan) = chan[1]
    BY <1>5 DEF Recv
  <2>2. \A i \in 1 .. Len(chan') :
          chan'[i] \in accepted /\ chan'[i] # Head(chan) /\ stage[chan'[i]] = "unsent"
    BY <2>1
  <2>3. \A i \in 1 .. Len(chan') : chan'[i] \in accepted' /\ stage'[chan'[i]] = "unsent"
    BY <1>5, <2>2 DEF Recv
  <2>4. \A i, j \in 1 .. Len(chan') : chan'[i] = chan'[j] => i = j
    BY <2>1
  <2>5. ASSUME NEW k \in accepted, stage'[k] = "unsent"
        PROVE  \E i \in 1 .. Len(chan') : chan'[i] = k
    <3>1. stage[k] = "unsent" /\ k # Head(chan)
      BY <1>5, <2>1, <2>5 DEF Recv
    <3>2. PICK i \in 1 .. Len(chan) : chan[i] = k
      BY <1>5, <3>1 DEF Recv
    <3>3. i - 1 \in 1 .. Len(chan') /\ chan'[i - 1] = k
      BY <2>1, <3>1, <3>2
    <3> QED
      BY <3>3
  <2> QED
    BY <1>5, <2>3, <2>4, <2>5 DEF Recv
<1>6. CASE BuildFails
  <2>1. Len(<<>>) = 0
    OBVIOUS
  <2> QED
    BY <1>6, <2>1 DEF BuildFails
<1>7. CASE BuildRuntime \/ RecvNone \/ JoinNext \/ JoinAll
  BY <1>7, SMTT(20) DEF BuildRuntime, RecvNone, JoinNext, JoinAll
<1>8. ASSUME NEW k \in Keys, FutureStep(k) PROVE ChanInv'
  BY <1>8, SMTT(20) DEF FutureStep, Acquire, LockOngoing, TakeWaiting, InsertOngoing, Select,
     SeeCancelled, HandlerEnds, RemoveOngoing, Leave
<1>9. ASSUME NEW k \in Keys, RunStep(k) \/ Panic(k) PROVE ChanInv'
  BY <1>9, SMTT(20) DEF RunStep, RunFirstPoll, RunOk, RunErr, Panic, UserStages
<1>10. CASE Drain \/ OwnerStep \/ Ended \/ UNCHANGED vars
  BY <1>10, SMTT(20) DEF Drain, OwnerStep, OwnerLock, OwnerCancel, OwnerUnlock, CloseChannel,
     JoinManager, Ended, vars
<1> QED
  BY <1>1, <1>2, <1>3, <1>4, <1>5, <1>6, <1>7, <1>8, <1>9, <1>10 DEF Next, ClientStep, ManagerStep

(* The guard of `ongoing` changes hands as the futures and drop take and leave it. *)
LEMMA LockStep == IInv /\ [Next]_vars => LockInv'
<1> SUFFICES ASSUME IInv, [Next]_vars PROVE LockInv'
  OBVIOUS
<1> USE LockAssumption, SMTT(20)
    DEF IInv, TypeOK, LockInv, OwnerInv, ChanInv,
        Stages, PermitStages, OverStages, OngoingStages, UserStages,
        shared, managing, calling, Goto, At, Call, Finished
<1>1. ASSUME NEW c \in Clients, ClientStep(c) PROVE LockInv'
  BY <1>1 DEF ClientStep, SpawnInsert, SpawnSend, CancelWaiting, CancelOngoing
<1>2. CASE ManagerStep
  BY <1>2 DEF ManagerStep, BuildRuntime, BuildFails, Recv, RecvNone, JoinNext, JoinAll
<1>3. ASSUME NEW k \in Keys, FutureStep(k) PROVE LockInv'
  BY <1>3 DEF FutureStep, Acquire, LockOngoing, TakeWaiting, InsertOngoing, Select, SeeCancelled,
     HandlerEnds, RemoveOngoing, Leave
<1>4. ASSUME NEW k \in Keys, RunStep(k) \/ Panic(k) PROVE LockInv'
  BY <1>4 DEF RunStep, RunFirstPoll, RunOk, RunErr, Panic
<1>5. CASE Drain \/ OwnerStep \/ Ended \/ UNCHANGED vars
  BY <1>5 DEF Drain, OwnerStep, OwnerLock, OwnerCancel, OwnerUnlock, CloseChannel, JoinManager,
     Ended, vars
<1> QED
  BY <1>1, <1>2, <1>3, <1>4, <1>5 DEF Next

(* A future moves its key from list to list in step with its own stage. *)
LEMMA QueueStep == IInv /\ [Next]_vars => QueueInv'
<1> SUFFICES ASSUME IInv, [Next]_vars PROVE QueueInv'
  OBVIOUS
<1> USE LockAssumption, SMTT(20)
    DEF IInv, TypeOK, LockInv, QueueInv, ChanInv, OwnerInv,
        Stages, PermitStages, OverStages, OngoingStages, UserStages,
        shared, managing, calling, Goto, At, Call, Finished
<1>1. ASSUME NEW c \in Clients, ClientStep(c) PROVE QueueInv'
  BY <1>1 DEF ClientStep, SpawnInsert, SpawnSend, CancelWaiting, CancelOngoing
<1>2. CASE ManagerStep
  BY <1>2 DEF ManagerStep, BuildRuntime, BuildFails, Recv, RecvNone, JoinNext, JoinAll
<1>3. ASSUME NEW k \in Keys, FutureStep(k) PROVE QueueInv'
  BY <1>3 DEF FutureStep, Acquire, LockOngoing, TakeWaiting, InsertOngoing, Select, SeeCancelled,
     HandlerEnds, RemoveOngoing, Leave
<1>4. ASSUME NEW k \in Keys, RunStep(k) \/ Panic(k) PROVE QueueInv'
  BY <1>4 DEF RunStep, RunFirstPoll, RunOk, RunErr, Panic
<1>5. CASE Drain \/ OwnerStep \/ Ended \/ UNCHANGED vars
  BY <1>5 DEF Drain, OwnerStep, OwnerLock, OwnerCancel, OwnerUnlock, CloseChannel, JoinManager,
     Ended, vars
<1> QED
  BY <1>1, <1>2, <1>3, <1>4, <1>5 DEF Next

(* The JoinSet holds every future under way. *)
LEMMA ManagerInvStep == IInv /\ [Next]_vars => ManagerInv'
<1> SUFFICES ASSUME IInv, [Next]_vars PROVE ManagerInv'
  OBVIOUS
<1> USE LockAssumption, SMTT(20)
    DEF IInv, TypeOK, ManagerInv, ChanInv, OwnerInv, QueueInv,
        Stages, PermitStages, OverStages, OngoingStages, UserStages,
        shared, managing, calling, Goto, At, Call, Finished
<1>1. ASSUME NEW c \in Clients, ClientStep(c) PROVE ManagerInv'
  BY <1>1 DEF ClientStep, SpawnInsert, SpawnSend, CancelWaiting, CancelOngoing
<1>2. CASE ManagerStep
  BY <1>2 DEF ManagerStep, BuildRuntime, BuildFails, Recv, RecvNone, JoinNext, JoinAll
<1>3. ASSUME NEW k \in Keys, FutureStep(k) PROVE ManagerInv'
  BY <1>3 DEF FutureStep, Acquire, LockOngoing, TakeWaiting, InsertOngoing, Select, SeeCancelled,
     HandlerEnds, RemoveOngoing, Leave
<1>4. ASSUME NEW k \in Keys, RunStep(k) \/ Panic(k) PROVE ManagerInv'
  BY <1>4 DEF RunStep, RunFirstPoll, RunOk, RunErr, Panic
<1>5. CASE Drain \/ OwnerStep \/ Ended \/ UNCHANGED vars
  BY <1>5 DEF Drain, OwnerStep, OwnerLock, OwnerCancel, OwnerUnlock, CloseChannel, JoinManager,
     Ended, vars
<1> QED
  BY <1>1, <1>2, <1>3, <1>4, <1>5 DEF Next

(* No step brings a cancelled task back, nor a fresh context to it. *)
LEMMA CancelStep == IInv /\ [Next]_vars => CancelInv'
<1> SUFFICES ASSUME IInv, [Next]_vars PROVE CancelInv'
  OBVIOUS
<1> USE LockAssumption, SMTT(20)
    DEF IInv, TypeOK, CancelInv, LockInv, QueueInv, ChanInv,
        Stages, PermitStages, OverStages, OngoingStages, UserStages,
        shared, managing, calling, Goto, At, Call, Finished
<1>1. ASSUME NEW c \in Clients, ClientStep(c) PROVE CancelInv'
  <2>1. ASSUME NEW k \in Keys, SpawnInsert(c, k) PROVE CancelInv'
    BY <2>1 DEF SpawnInsert
  <2>2. CASE SpawnSend(c)
    BY <2>2 DEF SpawnSend
  <2>3. ASSUME NEW k \in Keys, CancelWaiting(c, k) PROVE CancelInv'
    BY <2>3 DEF CancelWaiting
  <2>4. CASE CancelOngoing(c)
    <3>1. arg[c] \in accepted /\ arg[c] \notin waiting /\ stage[arg[c]] # "taken"
      BY <2>4 DEF CancelOngoing
    <3>2. \A k \in Keys : token[k] => token'[k]
      BY <2>4, <3>1 DEF CancelOngoing
    <3>3. arg[c] \in ongoing => token'[arg[c]]
      BY <2>4, <3>1 DEF CancelOngoing
    <3>4. cancelled' = cancelled \cup {arg[c]} /\ UNCHANGED <<waiting, accepted, stage, ongoing>>
      BY <2>4 DEF CancelOngoing
    <3> QED
      BY <3>1, <3>2, <3>3, <3>4
  <2> QED
    BY <1>1, <2>1, <2>2, <2>3, <2>4 DEF ClientStep
<1>2. CASE ManagerStep
  BY <1>2 DEF ManagerStep, BuildRuntime, BuildFails, Recv, RecvNone, JoinNext, JoinAll
<1>3. ASSUME NEW k \in Keys, FutureStep(k) PROVE CancelInv'
  BY <1>3 DEF FutureStep, Acquire, LockOngoing, TakeWaiting, InsertOngoing, Select, SeeCancelled,
     HandlerEnds, RemoveOngoing, Leave
<1>4. ASSUME NEW k \in Keys, RunStep(k) \/ Panic(k) PROVE CancelInv'
  BY <1>4 DEF RunStep, RunFirstPoll, RunOk, RunErr, Panic
<1>5. CASE Drain \/ OwnerStep \/ Ended \/ UNCHANGED vars
  BY <1>5 DEF Drain, OwnerStep, OwnerLock, OwnerCancel, OwnerUnlock, CloseChannel, JoinManager,
     Ended, vars
<1> QED
  BY <1>1, <1>2, <1>3, <1>4, <1>5 DEF Next

(* Drop proceeds, and nobody adds to what it has cleared. *)
LEMMA OwnerInvStep == IInv /\ [Next]_vars => OwnerInv'
<1> SUFFICES ASSUME IInv, [Next]_vars PROVE OwnerInv'
  OBVIOUS
<1> USE LockAssumption, SMTT(20)
    DEF IInv, TypeOK, OwnerInv, LockInv, QueueInv, ManagerInv, ChanInv,
        Stages, PermitStages, OverStages, OngoingStages, UserStages,
        shared, managing, calling, Goto, At, Call, Finished
<1>1. ASSUME NEW c \in Clients, ClientStep(c) PROVE OwnerInv'
  BY <1>1 DEF ClientStep, SpawnInsert, SpawnSend, CancelWaiting, CancelOngoing
<1>2. CASE ManagerStep
  BY <1>2 DEF ManagerStep, BuildRuntime, BuildFails, Recv, RecvNone, JoinNext, JoinAll
<1>3. ASSUME NEW k \in Keys, FutureStep(k) PROVE OwnerInv'
  BY <1>3 DEF FutureStep, Acquire, LockOngoing, TakeWaiting, InsertOngoing, Select, SeeCancelled,
     HandlerEnds, RemoveOngoing, Leave
<1>4. ASSUME NEW k \in Keys, RunStep(k) \/ Panic(k) PROVE OwnerInv'
  BY <1>4 DEF RunStep, RunFirstPoll, RunOk, RunErr, Panic
<1>5. CASE Drain \/ OwnerStep \/ Ended \/ UNCHANGED vars
  BY <1>5 DEF Drain, OwnerStep, OwnerLock, OwnerCancel, OwnerUnlock, CloseChannel, JoinManager,
     Ended, vars
<1> QED
  BY <1>1, <1>2, <1>3, <1>4, <1>5 DEF Next

(***************************************************************************)
(* The theorems.                                                           *)
(***************************************************************************)
LEMMA InitEstablishes == Init => IInv
<1> SUFFICES ASSUME Init PROVE IInv
  OBVIOUS
<1>1. Holders = {} /\ Cardinality({}) = 0
  BY FS_EmptySet DEF Init, Holders, PermitStages
<1>2. TypeOK /\ PermitInv
  BY <1>1, ParallelAssumption DEF Init, TypeOK, PermitInv, Stages
<1>3. LockInv /\ QueueInv /\ ChanInv
  BY LockAssumption DEF Init, LockInv, QueueInv, ChanInv, OngoingStages
<1>4. ManagerInv /\ CancelInv /\ OwnerInv
  BY DEF Init, ManagerInv, CancelInv, OwnerInv, Stages, PermitStages, OverStages
<1> QED
  BY <1>2, <1>3, <1>4 DEF IInv

(* What the lists, the locks, the semaphore, the channel and the JoinSet say *)
(* of each other, over all of spawn_task, cancel, into_future, new and drop  *)
(* (lib.rs:131-367): it holds at the start and every step keeps it.          *)
THEOREM Consistency == Spec => []Consistent
<1>1. IInv /\ [Next]_vars => IInv'
  BY TypeStep, LockStep, PermitStep, QueueStep, ChanStep, ManagerInvStep, CancelStep,
     OwnerInvStep DEF IInv
<1> QED
  BY <1>1, InitEstablishes, PTL DEF Spec, Consistent

(* The variables keep their types; the permits in particular stay between 0  *)
(* and ParallelNum (lib.rs:134), which needs the whole of the invariant.     *)
THEOREM TypeCorrect == Spec => []TypeOK
<1>1. Consistent => TypeOK
  BY DEF Consistent, IInv
<1> QED
  BY <1>1, Consistency, PTL

(* The semaphore of lib.rs:134 bounds the tasks under execution.             *)
THEOREM ParallelLimited == Spec => []ParallelLimit
<1>1. ASSUME Consistent PROVE ParallelLimit
  <2> DEFINE Live == {k \in Keys : stage[k] \in LiveStages}
  <2>1. Live \subseteq Holders
    BY DEF Holders, LiveStages, PermitStages
  <2>2. /\ IsFiniteSet(Holders) /\ Cardinality(Holders) \in Nat
        /\ permits = ParallelNum - Cardinality(Holders)
    BY <1>1, HolderCount DEF Consistent, IInv
  <2>3. permits \in Nat
    BY <1>1, ParallelAssumption DEF Consistent, IInv, TypeOK
  <2>4. Cardinality(Live) <= Cardinality(Holders) /\ Cardinality(Live) \in Nat
    BY <2>1, <2>2, FS_Subset, FS_CardinalityType
  <2>5. Cardinality(Live) <= ParallelNum
    BY <2>2, <2>3, <2>4, ParallelAssumption
  <2> QED
    BY <2>5 DEF ParallelLimit
<1> QED
  BY <1>1, Consistency, PTL

(* What the order of the locks in lib.rs:140-150 is for: cancel never misses *)
(* a task that is on its way from `waiting` to `ongoing`.                    *)
THEOREM CancelTakesEffect == Spec => []CancelEffective
<1>1. ASSUME Consistent PROVE CancelEffective
  BY <1>1 DEF Consistent, IInv, CancelInv, QueueInv, TypeOK, CancelEffective, LiveStages,
     OngoingStages
<1> QED
  BY <1>1, Consistency, PTL

(* Nor does drop (lib.rs:354-361).                                           *)
THEOREM DropReachesAll == Spec => []DropStopsAll
<1>1. ASSUME Consistent PROVE DropStopsAll
  BY <1>1 DEF Consistent, IInv, OwnerInv, QueueInv, DropStopsAll, LiveStages, OngoingStages
<1> QED
  BY <1>1, Consistency, PTL

(* When drop returns, the task manager is empty (lib.rs:363-365).            *)
THEOREM DropLeavesNothing == Spec => []QuiescentAfterDrop
<1>1. ASSUME Consistent, owner = "dropped"
      PROVE  /\ \A k \in Keys : stage[k] \in {"unsent"} \cup OverStages
             /\ waiting = {} /\ chan = <<>> /\ lock = None
             /\ permits = ParallelNum
             /\ \A k \in ongoing : stage[k] = "panicked"
  <2> USE DEF Consistent, IInv, TypeOK
  <2>1. manager = "exited" /\ waiting = {} /\ chan = <<>> /\ joinset = {}
    BY <1>1 DEF OwnerInv, ManagerInv
  <2>2. \A k \in Keys : stage[k] \in {"unsent"} \cup OverStages
    BY <1>1, <2>1 DEF ManagerInv, Stages, OverStages
  <2>3. lock = None
    BY <1>1, <2>2 DEF LockInv, OverStages
  <2>4. Holders = {}
    BY <2>2 DEF Holders, PermitStages, OverStages
  <2>5. permits = ParallelNum
    BY <1>1, <2>4, HolderCount, FS_EmptySet, ParallelAssumption
  <2>6. \A k \in ongoing : stage[k] = "panicked"
    BY <1>1, <2>2 DEF QueueInv, OngoingStages, OverStages
  <2> QED
    BY <2>1, <2>2, <2>3, <2>5, <2>6
<1>2. Consistent => QuiescentAfterDrop
  BY <1>1 DEF QuiescentAfterDrop
<1> QED
  BY <1>2, Consistency, PTL

(* A task cancelled before select! looks at its token is never run           *)
(* (lib.rs:153-154), as its cancel has reached the token by then.            *)
THEOREM CancelledNeverBegins == Spec => CancelledNotArmed
<1>1. ASSUME Consistent, [Next]_vars, NEW k \in cancelled, At(k, "armed")'
      PROVE  At(k, "armed")
  <2> USE LockAssumption, <1>1, SMTT(20)
      DEF Consistent, IInv, TypeOK, CancelInv, QueueInv, ChanInv, OngoingStages, At, Goto,
          shared, managing, calling, Call
  <2>1. ASSUME NEW c \in Clients, ClientStep(c) PROVE At(k, "armed")
    BY <2>1 DEF ClientStep, SpawnInsert, SpawnSend, CancelWaiting, CancelOngoing
  <2>2. CASE ManagerStep
    BY <2>2 DEF ManagerStep, BuildRuntime, BuildFails, Recv, RecvNone, JoinNext, JoinAll
  <2>3. ASSUME NEW l \in Keys, FutureStep(l) \/ RunStep(l) \/ Panic(l) PROVE At(k, "armed")
    BY <2>3 DEF FutureStep, Acquire, LockOngoing, TakeWaiting, InsertOngoing, Select,
       SeeCancelled, HandlerEnds, RemoveOngoing, Leave, RunStep, RunFirstPoll, RunOk, RunErr,
       Panic
  <2>4. CASE Drain \/ OwnerStep \/ Ended \/ UNCHANGED vars
    BY <2>4 DEF Drain, OwnerStep, OwnerLock, OwnerCancel, OwnerUnlock, CloseChannel,
       JoinManager, Ended, vars
  <2> QED
    BY <2>1, <2>2, <2>3, <2>4 DEF Next
<1>2. Consistent /\ [Next]_vars => [\A k \in cancelled : At(k, "armed")' => At(k, "armed")]_vars
  BY <1>1
<1> QED
  BY <1>2, Consistency, PTL DEF Spec, CancelledNotArmed

(***************************************************************************)
(* The task manager implements the ledger.                                 *)
(***************************************************************************)
(* A step that leaves each task's list, life and token alone, and drop in    *)
(* its phase, is a stutter of the ledger.                                    *)
LEMMA Stutter ==
  ASSUME UNCHANGED <<issued, waiting, token, cancelled>>, Phase' = Phase,
         \A k \in Keys : (stage[k] \in LiveStages)' <=> stage[k] \in LiveStages
  PROVE  UNCHANGED Ledger!ledger
<1>1. \A k \in Keys : Status(k)' = Status(k)
  BY DEF Status
<1> QED
  BY <1>1 DEF Ledger!ledger

(* A step that changes the status of one task alone.                         *)
LEMMA OneMoves ==
  ASSUME NEW k \in Keys, NEW from, NEW to,
         Status(k) = from, Status(k)' = to,
         \A l \in Keys \ {k} : Status(l)' = Status(l)
  PROVE  Ledger!Move(k, from, to)
<1>1. [l \in Keys |-> Status(l)][k] = from
  OBVIOUS
<1>2. [l \in Keys |-> Status(l)]' = [[l \in Keys |-> Status(l)] EXCEPT ![k] = to]
  OBVIOUS
<1> QED
  BY <1>1, <1>2 DEF Ledger!Move

(* The ledger counts as the task manager does.                               *)
LEMMA SameCardinality == \A S : Ledger!Cardinality(S) = Cardinality(S)
  BY DEF Ledger!Cardinality, Cardinality

(* A task about to be taken has a permit that no active task has.            *)
LEMMA RoomToBegin ==
  ASSUME IInv, NEW k \in Keys, stage[k] = "locked"
  PROVE  Cardinality(Ledger!Busy) < ParallelNum
<1>1. Ledger!Busy \subseteq Holders \ {k}
  BY DEF Ledger!Busy, Status, Holders, LiveStages, PermitStages
<1>2. IsFiniteSet(Holders) /\ Cardinality(Holders) \in Nat /\ permits \in Nat
      /\ permits + Cardinality(Holders) = ParallelNum
  BY HolderCount, ParallelAssumption DEF IInv, PermitInv, TypeOK
<1>3. k \in Holders
  BY DEF Holders, PermitStages
<1>4. IsFiniteSet(Holders \ {k}) /\ Cardinality(Holders \ {k}) = Cardinality(Holders) - 1
  BY <1>2, <1>3, FS_RemoveElement
<1>5. Cardinality(Ledger!Busy) <= Cardinality(Holders \ {k}) /\ Cardinality(Ledger!Busy) \in Nat
  BY <1>1, <1>4, FS_Subset, FS_CardinalityType
<1> QED
  BY <1>2, <1>4, <1>5, ParallelAssumption

LEMMA LedgerStart == Init => Ledger!LedgerInit
<1> SUFFICES ASSUME Init PROVE Ledger!LedgerInit
  OBVIOUS
<1>1. \A k \in Keys : Status(k) = "absent"
  BY DEF Init, Status, LiveStages
<1>2. Phase = "open" /\ cancelled = {}
  BY DEF Init, Phase
<1> QED
  BY <1>1, <1>2 DEF Ledger!LedgerInit

LEMMA LedgerStep == IInv /\ [Next]_vars => [Ledger!LedgerNext]_(Ledger!ledger)
<1> SUFFICES ASSUME IInv, [Next]_vars
             PROVE  Ledger!LedgerNext \/ UNCHANGED Ledger!ledger
  BY DEF Ledger!ledger
<1> USE LockAssumption
    DEF IInv, TypeOK, shared, managing, calling, Goto, At, Call
<1>1. ASSUME NEW c \in Clients, NEW k \in Keys, SpawnInsert(c, k) PROVE Ledger!Submit(k)
  <2>1. Phase = "open" /\ Phase' = "open"
    BY <1>1 DEF SpawnInsert, Phase
  <2>2. Status(k) = "absent" /\ Status(k)' = "queued"
    BY <1>1 DEF SpawnInsert, Status, QueueInv, LiveStages
  <2>3. \A l \in Keys \ {k} : Status(l)' = Status(l)
    BY <1>1 DEF SpawnInsert, Status
  <2>4. Ledger!Move(k, "absent", "queued")
    BY <2>2, <2>3, OneMoves
  <2> QED
    BY <1>1, <2>1, <2>4 DEF Ledger!Submit, SpawnInsert
<1>2. ASSUME NEW c \in Clients, SpawnSend(c) PROVE UNCHANGED Ledger!ledger
  BY <1>2, Stutter DEF SpawnSend, Phase
<1>3. ASSUME NEW c \in Clients, NEW k \in Keys, CancelWaiting(c, k)
      PROVE  Ledger!LedgerNext \/ UNCHANGED Ledger!ledger
  <2>1. CASE k \in waiting
    <3>1. Phase = "open" /\ Phase' = "open"
      BY <1>3 DEF CancelWaiting, Phase
    <3>2. Status(k) = "queued" /\ Status(k)' = "settled"
      BY <1>3, <2>1 DEF CancelWaiting, Status, QueueInv, LiveStages
    <3>3. \A l \in Keys \ {k} : Status(l)' = Status(l)
      BY <1>3, <2>1 DEF CancelWaiting, Status
    <3>4. Ledger!Move(k, "queued", "settled")
      BY <3>2, <3>3, OneMoves
    <3> QED
      BY <1>3, <2>1, <3>1, <3>4 DEF CancelWaiting, Ledger!LedgerNext, Ledger!Cancel
  <2>2. CASE k \notin waiting
    BY <1>3, <2>2, Stutter DEF CancelWaiting, Phase
  <2> QED
    BY <2>1, <2>2
<1>4. ASSUME NEW c \in Clients, NEW k \in Keys, arg[c] = k, CancelOngoing(c)
      PROVE  Ledger!Cancel(k)
  <2>1. k \in issued /\ k \notin waiting
    BY <1>4 DEF CancelOngoing, ChanInv, QueueInv
  <2>2. Phase = "open" /\ Phase' = "open"
    BY <1>4 DEF CancelOngoing, Phase, OwnerInv
  <2>3. stage[k] \in LiveStages => k \in ongoing
    BY <1>4, <2>1 DEF CancelOngoing, LockInv, QueueInv, LiveStages, OngoingStages
  <2>4. \A l \in Keys \ {k} : Status(l)' = Status(l)
    BY <1>4, <2>1 DEF CancelOngoing, Status
  <2>5. UNCHANGED <<issued, waiting, stage>> /\ cancelled' = cancelled \cup {k}
    BY <1>4 DEF CancelOngoing
  <2>6. CASE stage[k] \in LiveStages
    <3>1. token'[k]
      BY <1>4, <2>1, <2>3, <2>6 DEF CancelOngoing
    <3>2. Status(k) \in {"active", "stopping"} /\ Status(k)' = "stopping"
      BY <2>1, <2>5, <2>6, <3>1 DEF Status
    <3>3. CASE Status(k) = "active"
      <4>1. Ledger!Move(k, "active", "stopping")
        BY <2>1, <2>4, <3>2, <3>3, OneMoves
      <4> QED
        BY <2>1, <2>2, <2>5, <4>1 DEF Ledger!Cancel
    <3>4. CASE Status(k) = "stopping"
      <4>1. \A l \in Keys : Status(l)' = Status(l)
        BY <2>4, <3>2, <3>4
      <4> QED
        BY <2>1, <2>2, <2>5, <3>4, <4>1 DEF Ledger!Cancel
    <3> QED
      BY <3>2, <3>3, <3>4
  <2>7. CASE stage[k] \notin LiveStages
    <3>1. Status(k) = "settled" /\ Status(k)' = "settled"
      BY <2>1, <2>5, <2>7 DEF Status
    <3>2. \A l \in Keys : Status(l)' = Status(l)
      BY <2>4, <3>1
    <3> QED
      BY <2>1, <2>2, <2>5, <3>1, <3>2 DEF Ledger!Cancel
  <2> QED
    BY <2>6, <2>7
<1>5. CASE ManagerStep
  <2>1. CASE Recv
    <3>1. Head(chan) \in Keys /\ stage[Head(chan)] = "unsent"
      BY <2>1 DEF Recv, ChanInv
    <3> QED
      BY <2>1, <3>1, Stutter DEF Recv, Phase, LiveStages
  <2>2. CASE BuildRuntime \/ BuildFails \/ RecvNone \/ JoinNext \/ JoinAll
    BY <2>2, Stutter DEF BuildRuntime, BuildFails, RecvNone, JoinNext, JoinAll, Phase
  <2> QED
    BY <1>5, <2>1, <2>2 DEF ManagerStep
<1>6. ASSUME NEW k \in Keys, TakeWaiting(k), k \in waiting PROVE Ledger!Begin(k)
  <2>1. Status(k) = "queued" /\ Status(k)' = "active"
    BY <1>6 DEF TakeWaiting, Status, QueueInv, LiveStages, OngoingStages
  <2>2. \A l \in Keys \ {k} : Status(l)' = Status(l)
    BY <1>6 DEF TakeWaiting, Status
  <2>3. Ledger!Move(k, "queued", "active")
    BY <2>1, <2>2, OneMoves
  <2>4. Cardinality(Ledger!Busy) < ParallelNum
    BY <1>6, RoomToBegin DEF TakeWaiting
  <2>5. UNCHANGED <<cancelled, Phase>>
    BY <1>6 DEF TakeWaiting, Phase
  <2> QED
    BY <2>3, <2>4, <2>5, SameCardinality DEF Ledger!Begin
<1>7. ASSUME NEW k \in Keys, RemoveOngoing(k) \/ Panic(k) PROVE Ledger!Settle(k)
  <2>1. k \in issued /\ k \notin waiting
    BY <1>7 DEF RemoveOngoing, Panic, UserStages, QueueInv
  <2>2. Status(k) \in {"active", "stopping"} /\ Status(k)' = "settled"
    BY <1>7, <2>1 DEF RemoveOngoing, Panic, UserStages, Status, LiveStages
  <2>3. \A l \in Keys \ {k} : Status(l)' = Status(l)
    BY <1>7 DEF RemoveOngoing, Panic, Status
  <2>4. Ledger!Move(k, Status(k), "settled")
    BY <2>2, <2>3, OneMoves
  <2> QED
    BY <1>7, <2>2, <2>4 DEF RemoveOngoing, Panic, Ledger!Settle, Phase
<1>8. ASSUME NEW k \in Keys, FutureStep(k), ~RemoveOngoing(k), ~(TakeWaiting(k) /\ k \in waiting)
      PROVE  UNCHANGED Ledger!ledger
  BY <1>8, Stutter DEF FutureStep, Acquire, LockOngoing, TakeWaiting, InsertOngoing, Select,
     SeeCancelled, HandlerEnds, Leave, Phase, LiveStages
<1>9. ASSUME NEW k \in Keys, RunStep(k) PROVE UNCHANGED Ledger!ledger
  BY <1>9, Stutter DEF RunStep, RunFirstPoll, RunOk, RunErr, Phase, LiveStages
<1>10. CASE Drain
  <2>1. Phase = "open" /\ Phase' = "closing"
    BY <1>10 DEF Drain, Phase
  <2>2. \A k \in Keys : Status(k)' = IF Status(k) = "queued" THEN "settled" ELSE Status(k)
    BY <1>10 DEF Drain, Status, QueueInv, LiveStages
  <2>3. UNCHANGED cancelled
    BY <1>10 DEF Drain
  <2> QED
    BY <2>1, <2>2, <2>3 DEF Ledger!Close, Ledger!LedgerNext
<1>11. ASSUME NEW k \in Keys, OwnerCancel(k)
       PROVE  Ledger!LedgerNext \/ UNCHANGED Ledger!ledger
  <2>1. Phase = "closing" /\ Phase' = "closing"
    BY <1>11 DEF OwnerCancel, Phase
  <2>2. \A l \in Keys \ {k} : Status(l)' = Status(l)
    BY <1>11 DEF OwnerCancel, Status
  <2>3. CASE stage[k] \in LiveStages
    <3>1. Status(k) = "active" /\ Status(k)' = "stopping"
      BY <1>11, <2>3 DEF OwnerCancel, Status, QueueInv, LiveStages
    <3>2. Ledger!Move(k, "active", "stopping")
      BY <2>2, <3>1, OneMoves
    <3> QED
      BY <1>11, <2>1, <3>2 DEF OwnerCancel, Ledger!LedgerNext, Ledger!StopOne
  <2>4. CASE stage[k] \notin LiveStages
    <3>1. \A l \in Keys : Status(l)' = Status(l)
      BY <1>11, <2>4 DEF OwnerCancel, Status
    <3> QED
      BY <1>11, <2>1, <3>1 DEF OwnerCancel, Ledger!ledger
  <2> QED
    BY <2>3, <2>4
<1>12. CASE OwnerLock \/ OwnerUnlock \/ CloseChannel
  BY <1>12, Stutter DEF OwnerLock, OwnerUnlock, CloseChannel, Phase
<1>13. CASE JoinManager
  <2>1. Phase = "closing" /\ Phase' = "closed"
    BY <1>13 DEF JoinManager, Phase
  <2>2. \A k \in Keys : Status(k) \in {"absent", "settled"} /\ Status(k)' = Status(k)
    BY <1>13 DEF JoinManager, Status, OwnerInv, ManagerInv, LiveStages, Stages, OverStages
  <2>3. UNCHANGED cancelled
    BY <1>13 DEF JoinManager
  <2> QED
    BY <2>1, <2>2, <2>3 DEF Ledger!Closed, Ledger!LedgerNext
<1>14. CASE Ended \/ UNCHANGED vars
  BY <1>14, Stutter DEF Ended, vars, Phase
<1> HIDE DEF IInv, TypeOK, shared, managing, calling, Goto, At, Call
<1>15. ASSUME NEW c \in Clients, ClientStep(c) PROVE Ledger!LedgerNext \/ UNCHANGED Ledger!ledger
  <2>1. CASE CancelOngoing(c)
    <3>1. arg[c] \in Keys
      BY <2>1 DEF CancelOngoing, IInv, ChanInv, TypeOK
    <3> QED
      BY <1>4, <2>1, <3>1 DEF Ledger!LedgerNext
  <2> QED
    BY <1>15, <1>1, <1>2, <1>3, <2>1 DEF ClientStep, Ledger!LedgerNext
<1>16. ASSUME NEW k \in Keys, FutureStep(k) \/ RunStep(k) \/ Panic(k)
       PROVE  Ledger!LedgerNext \/ UNCHANGED Ledger!ledger
  BY <1>16, <1>6, <1>7, <1>8, <1>9 DEF Ledger!LedgerNext
<1>17. CASE Drain \/ OwnerStep
  BY <1>17, <1>10, <1>11, <1>12, <1>13 DEF OwnerStep, Ledger!LedgerNext
<1> QED
  BY <1>5, <1>14, <1>15, <1>16, <1>17 DEF Next

(* Seen from outside, spawn_task, cancel, the execution of a task and drop   *)
(* are the single steps of TaskLedger, for any number of keys, clients and   *)
(* permits (lib.rs:131-167, 318-366).                                        *)
THEOREM Implements == Spec => ImplementsLedger
<1>1. Consistent /\ [Next]_vars => [Ledger!LedgerNext]_(Ledger!ledger)
  BY LedgerStep DEF Consistent
<1> QED
  BY <1>1, LedgerStart, Consistency, PTL DEF Spec, ImplementsLedger, Ledger!LedgerSpec

(***************************************************************************)
(* Nobody is stuck: what liveness needs besides fairness.                  *)
(***************************************************************************)
\* The guards of ClientStep within a call, ManagerStep, FutureStep, RunStep and
\* OwnerStep, action by action.
ClientCanStep(c) ==
  \/ client[c] = "send"
  \/ client[c] = "cancel_ongoing" /\ lock = None

ManagerCanStep ==
  \/ manager = "building"
  \/ manager = "recv" /\ (chan # <<>> \/ ~tx)
  \/ manager = "join_next" /\ \E k \in joinset : Finished(k)
  \/ manager = "join_all" /\ \A k \in joinset : Finished(k)

FutureCanStep(k) ==
  \/ stage[k] = "spawned" /\ permits > 0
  \/ stage[k] \in {"permit", "finishing"} /\ lock = None
  \/ stage[k] \in {"locked", "taken", "ready", "on_err", "on_cancel", "leaving"}
  \/ stage[k] \in {"armed", "running"} /\ token[k]

RunCanStep(k) == stage[k] \in {"armed", "running"}

OwnerCanStep ==
  \/ owner = "drained" /\ lock = None
  \/ owner \in {"cancelling", "cancelled"}
  \/ owner = "joining" /\ manager \in {"exited", "failed"}

SomebodyCanStep == OwnerCanStep \/ ManagerCanStep \/ \E k \in Keys : FutureCanStep(k)
ARunCanStep == \E k \in Keys : RunCanStep(k)

\* Nobody waits for somebody who waits for him: not a cancel that wants the
\* guard of `ongoing` (lib.rs:323), nor a task that is cancelled or drop, whatever
\* the runs that were told to stop do (lib.rs:153-162, 352-367), nor an accepted
\* task, behind the semaphore, the guards and a JoinSet over its limit
\* (lib.rs:133-167, 301-308).
NobodyIsStuck ==
  /\ \A c \in Clients : client[c] # "idle" => ClientCanStep(c) \/ SomebodyCanStep
  /\ \A k \in cancelled : stage[k] \in LiveStages => SomebodyCanStep
  /\ owner \notin {"using", "dropped", "panicked"} => SomebodyCanStep
  /\ \A k \in accepted : Status(k) # "settled" /\ manager # "failed" =>
       SomebodyCanStep \/ ARunCanStep

\* How many steps a future has before it at most, and drop, and how far the
\* manager thread is from its end while nothing comes through the channel.
FutureLeft(k) ==
  CASE stage[k] = "unsent"                  -> 11
    [] stage[k] = "spawned"                 -> 10
    [] stage[k] = "permit"                  -> 9
    [] stage[k] = "locked"                  -> 8
    [] stage[k] = "taken"                   -> 7
    [] stage[k] = "ready"                   -> 6
    [] stage[k] = "armed"                   -> 5
    [] stage[k] = "running"                 -> 4
    [] stage[k] \in {"on_err", "on_cancel"} -> 3
    [] stage[k] = "finishing"               -> 2
    [] stage[k] = "leaving"                 -> 1
    [] OTHER                                -> 0

OwnerLeft ==
  CASE owner = "drained"    -> 4
    [] owner = "cancelling" -> 3
    [] owner = "cancelled"  -> 2
    [] owner = "joining"    -> 1
    [] OTHER                -> 0

ManagerLeft ==
  CASE manager = "building"  -> 4
    [] manager = "join_next" -> 3
    [] manager = "recv"      -> 2
    [] manager = "join_all"  -> 1
    [] OTHER                 -> 0

\* Once drop has begun each step is one of finitely many: it brings a future or
\* drop nearer to the end, or a token to be cancelled, and none back; or it
\* brings the manager thread nearer to its end.  With NobodyIsStuck: however
\* the threads are scheduled, drop returns after a bounded number of steps.
DropComesNearer ==
  [][owner # "using" =>
       /\ \A k \in Keys : FutureLeft(k)' <= FutureLeft(k) /\ (token[k] => token'[k])
       /\ OwnerLeft' <= OwnerLeft
       /\ \/ \E k \in Keys : FutureLeft(k)' < FutureLeft(k) \/ token'[k] # token[k]
          \/ OwnerLeft' < OwnerLeft
          \/ ManagerLeft' < ManagerLeft]_vars

(* The guard of `ongoing` is never held by one who waits for another.        *)
LEMMA HolderCanStep ==
  ASSUME IInv, lock # None
  PROVE  SomebodyCanStep
<1>1. CASE lock = Owner
  BY <1>1 DEF IInv, LockInv, SomebodyCanStep, OwnerCanStep
<1>2. CASE lock \in Keys
  BY <1>2 DEF IInv, LockInv, SomebodyCanStep, FutureCanStep
<1> QED BY <1>1, <1>2 DEF IInv, TypeOK

(* A future that is under way goes on, or somebody who is in its way: the    *)
(* holder of the guard, or of a permit; if the runs stop where they are,     *)
(* then a run that was not told to stop.                                     *)
LEMMA FutureGoesOn ==
  ASSUME IInv, NEW k \in Keys, stage[k] # "unsent", ~Finished(k), ~SomebodyCanStep
  PROVE  \E l \in Keys : RunCanStep(l) /\ l \in ongoing /\ ~token[l]
<1>1. lock = None
  BY HolderCanStep
<1>2. ASSUME NEW l \in Keys, stage[l] \in PermitStages
      PROVE  RunCanStep(l) /\ l \in ongoing /\ ~token[l]
  BY <1>1, <1>2 DEF IInv, QueueInv, TypeOK, OngoingStages, PermitStages, SomebodyCanStep, FutureCanStep, RunCanStep
<1>3. CASE stage[k] \in PermitStages
  BY <1>2, <1>3
<1>4. CASE stage[k] = "spawned"
  <2>1. ~(permits > 0)
    BY <1>4 DEF SomebodyCanStep, FutureCanStep
  <2>2. Holders # {}
    <3>1. Cardinality(Holders) \in Nat /\ permits = ParallelNum - Cardinality(Holders)
      BY HolderCount DEF IInv
    <3> QED BY <2>1, <3>1, FS_EmptySet, ParallelAssumption
  <2> QED BY <1>2, <2>2 DEF Holders
<1> QED BY <1>3, <1>4 DEF IInv, TypeOK, Stages, Finished

(* The manager thread waits for the channel alone, or for futures under way. *)
LEMMA ManagerGoesOn ==
  ASSUME IInv, ~SomebodyCanStep, manager \notin {"exited", "failed"}
  PROVE  \/ manager = "recv" /\ tx /\ chan = <<>>
         \/ \E k \in Keys : stage[k] # "unsent" /\ ~Finished(k)
<1>1. joinset \subseteq Keys /\ \A k \in joinset : stage[k] # "unsent"
  BY DEF IInv, TypeOK, ManagerInv
<1>2. ~ManagerCanStep
  BY DEF SomebodyCanStep
<1>3. CASE manager = "join_next"
  <2>1. joinset # {}
    BY <1>3 DEF IInv, ManagerInv
  <2> QED BY <1>1, <1>2, <1>3, <2>1 DEF ManagerCanStep
<1>4. CASE manager = "join_all"
  BY <1>1, <1>2, <1>4 DEF ManagerCanStep
<1>5. CASE manager \in {"building", "recv"}
  BY <1>2, <1>5 DEF ManagerCanStep
<1> QED BY <1>3, <1>4, <1>5 DEF IInv, TypeOK

(* Nobody waits for somebody who waits for him: for any number of tasks and  *)
(* clients, permits and any limit of the JoinSet, and though no run that was *)
(* not told to stop need ever go on (lib.rs:133-167, 301-308, 341-367).      *)
THEOREM NobodyStuck == Spec => []NobodyIsStuck
<1>1. ASSUME IInv, NEW c \in Clients, client[c] # "idle"
      PROVE  ClientCanStep(c) \/ SomebodyCanStep
  BY <1>1, HolderCanStep DEF IInv, TypeOK, ClientCanStep
<1>2. ASSUME IInv, owner \notin {"using", "dropped", "panicked"} PROVE SomebodyCanStep
  <2> SUFFICES ASSUME ~SomebodyCanStep PROVE FALSE
    OBVIOUS
  <2>1. owner \in {"drained", "joining"} /\ (owner = "joining" => manager \notin {"exited", "failed"})
    BY <1>2 DEF IInv, TypeOK, SomebodyCanStep, OwnerCanStep
  <2>2. owner = "joining"
    BY <1>2, <2>1, HolderCanStep DEF SomebodyCanStep, OwnerCanStep
  <2>3. ~tx /\ \A k \in ongoing : token[k]
    BY <1>2, <2>2 DEF IInv, OwnerInv
  <2>4. PICK k \in Keys : stage[k] # "unsent" /\ ~Finished(k)
    BY <1>2, <2>1, <2>2, <2>3, ManagerGoesOn
  <2> QED BY <1>2, <2>3, <2>4, FutureGoesOn
<1>3. ASSUME IInv, NEW k \in accepted, Status(k) # "settled", manager # "failed"
      PROVE  SomebodyCanStep \/ ARunCanStep
  <2> SUFFICES ASSUME ~SomebodyCanStep PROVE ARunCanStep
    OBVIOUS
  <2>1. k \in Keys /\ k \in issued
    BY <1>3 DEF IInv, TypeOK, QueueInv
  <2>2. ~Finished(k)
    BY <1>3, <2>1 DEF IInv, QueueInv, Status, Finished, OverStages, LiveStages
  <2>3. CASE stage[k] # "unsent"
    BY <1>3, <2>1, <2>2, <2>3, FutureGoesOn DEF ARunCanStep
  <2>4. CASE stage[k] = "unsent"
    <3>1. chan # <<>>
      <4>1. PICK i \in 1 .. Len(chan) : chan[i] = k
        BY <1>3, <2>4 DEF IInv, ChanInv
      <4> QED BY <4>1
    <3>2. manager \notin {"exited", "failed"}
      BY <1>3, <3>1 DEF IInv, ManagerInv
    <3>3. PICK l \in Keys : stage[l] # "unsent" /\ ~Finished(l)
      BY <1>3, <3>1, <3>2, ManagerGoesOn
    <3> QED BY <1>3, <3>3, FutureGoesOn DEF ARunCanStep
  <2> QED BY <2>3, <2>4
<1>4. ASSUME IInv, NEW k \in cancelled, stage[k] \in LiveStages PROVE SomebodyCanStep
  <2> SUFFICES ASSUME lock = None PROVE FutureCanStep(k)
    BY <1>4, HolderCanStep DEF SomebodyCanStep, IInv, TypeOK
  <2>1. k \in Keys /\ (k \in ongoing => token[k])
    BY <1>4 DEF IInv, TypeOK, CancelInv
  <2> QED BY <1>4, <2>1 DEF IInv, QueueInv, LiveStages, OngoingStages, FutureCanStep
<1>5. Consistent => NobodyIsStuck
  BY <1>1, <1>2, <1>3, <1>4 DEF Consistent, NobodyIsStuck
<1> QED
  BY <1>5, Consistency, PTL

(* Once drop has begun each step is a step towards its end, whoever takes    *)
(* it; with NobodyStuck, drop returns whatever the schedule.                 *)
THEOREM DropIsBounded == Spec => DropComesNearer
<1> DEFINE Nearer ==
             /\ \A k \in Keys : FutureLeft(k)' <= FutureLeft(k) /\ (token[k] => token'[k])
             /\ OwnerLeft' <= OwnerLeft
             /\ \/ \E k \in Keys : FutureLeft(k)' < FutureLeft(k) \/ token'[k] # token[k]
                \/ OwnerLeft' < OwnerLeft
                \/ ManagerLeft' < ManagerLeft
<1>1. ASSUME IInv, Next, owner # "using", ~UNCHANGED vars PROVE Nearer
  <2> USE DEF shared, managing, calling, Goto, At
  <2>1. stage \in [Keys -> Stages] /\ token \in [Keys -> BOOLEAN]
    BY <1>1 DEF IInv, TypeOK
  <2>2. \A k \in Keys : FutureLeft(k) \in Nat /\ FutureLeft(k)' \in Nat
    BY DEF FutureLeft
  <2>3. OwnerLeft \in Nat /\ ManagerLeft \in Nat
    BY DEF OwnerLeft, ManagerLeft
  <2>4. ASSUME NEW k \in Keys, FutureLeft(k)' < FutureLeft(k), UNCHANGED <<token, owner>>,
               \A l \in Keys \ {k} : stage'[l] = stage[l]
        PROVE  Nearer
    <3>1. \A l \in Keys \ {k} : FutureLeft(l)' = FutureLeft(l)
      BY <2>4 DEF FutureLeft
    <3>2. OwnerLeft' <= OwnerLeft
      BY <2>3, <2>4 DEF OwnerLeft
    <3>3. \A l \in Keys : FutureLeft(l)' <= FutureLeft(l)
      BY <2>2, <2>4, <3>1
    <3>4. \A l \in Keys : token[l] => token'[l]
      BY <2>4
    <3> QED BY <2>4, <3>2, <3>3, <3>4
  <2>5. ASSUME UNCHANGED <<stage, token, owner>>, ManagerLeft' < ManagerLeft PROVE Nearer
    <3>1. \A l \in Keys : FutureLeft(l)' = FutureLeft(l)
      BY <2>5 DEF FutureLeft
    <3>2. OwnerLeft' = OwnerLeft
      BY <2>5 DEF OwnerLeft
    <3> QED BY <2>2, <2>3, <2>5, <3>1, <3>2
  <2>6. ASSUME UNCHANGED <<stage, token>>, OwnerLeft' < OwnerLeft PROVE Nearer
    <3>1. \A l \in Keys : FutureLeft(l)' = FutureLeft(l)
      BY <2>6 DEF FutureLeft
    <3>2. OwnerLeft' <= OwnerLeft
      BY <2>3, <2>6 DEF OwnerLeft
    <3> QED BY <2>2, <2>3, <2>6, <3>1, <3>2
  <2>7. ASSUME NEW c \in Clients, ClientStep(c) PROVE FALSE
    BY <1>1, <2>7 DEF ClientStep, SpawnInsert, SpawnSend, CancelWaiting, CancelOngoing, IInv, OwnerInv
  <2>8. CASE ManagerStep
    <3>1. CASE Recv
      <4>1. Head(chan) \in Keys /\ stage[Head(chan)] = "unsent"
        BY <1>1, <3>1 DEF Recv, IInv, TypeOK, ChanInv
      <4>2. PICK k \in Keys : /\ stage[k] = "unsent" /\ stage' = [stage EXCEPT ![k] = "spawned"]
                              /\ UNCHANGED <<token, owner>>
        BY <3>1, <4>1 DEF Recv
      <4>3. FutureLeft(k)' < FutureLeft(k)
        BY <2>1, <4>2 DEF FutureLeft
      <4> QED BY <2>1, <2>4, <4>2, <4>3
    <3>2. CASE BuildRuntime \/ BuildFails \/ RecvNone \/ JoinNext \/ JoinAll
      <4>1. ManagerLeft' < ManagerLeft
        BY <3>2 DEF BuildRuntime, BuildFails, RecvNone, JoinNext, JoinAll, ManagerLeft
      <4>2. UNCHANGED <<stage, token, owner>>
        BY <3>2 DEF BuildRuntime, BuildFails, RecvNone, JoinNext, JoinAll
      <4> QED BY <2>5, <4>1, <4>2
    <3> QED BY <2>8, <3>1, <3>2 DEF ManagerStep
  <2>9. ASSUME NEW k \in Keys, FutureStep(k) \/ RunStep(k) \/ Panic(k) PROVE Nearer
    <3>1. /\ UNCHANGED <<token, owner>>
          /\ \A l \in Keys \ {k} : stage'[l] = stage[l]
      BY <2>1, <2>9 DEF FutureStep, Acquire, LockOngoing, TakeWaiting, InsertOngoing, Select,
         SeeCancelled, HandlerEnds, RemoveOngoing, Leave, RunStep, RunFirstPoll, RunOk, RunErr, Panic
    <3>2. FutureLeft(k)' < FutureLeft(k)
      BY <2>1, <2>9 DEF FutureStep, Acquire, LockOngoing, TakeWaiting, InsertOngoing, Select,
         SeeCancelled, HandlerEnds, RemoveOngoing, Leave, RunStep, RunFirstPoll, RunOk, RunErr, Panic,
         FutureLeft, UserStages
    <3> QED BY <2>4, <3>1, <3>2
  <2>10. CASE OwnerStep
    <3>1. CASE OwnerLock \/ OwnerUnlock \/ CloseChannel \/ JoinManager
      <4>1. OwnerLeft' < OwnerLeft
        BY <1>1, <3>1 DEF OwnerLock, OwnerUnlock, CloseChannel, JoinManager, OwnerLeft
      <4>2. UNCHANGED <<stage, token>>
        BY <3>1 DEF OwnerLock, OwnerUnlock, CloseChannel, JoinManager
      <4> QED BY <2>6, <4>1, <4>2
    <3>2. ASSUME NEW k \in Keys, OwnerCancel(k) PROVE Nearer
      <4>1. /\ token' = [token EXCEPT ![k] = TRUE] /\ ~token[k] /\ UNCHANGED <<stage, owner>>
        BY <3>2 DEF OwnerCancel
      <4>2. (\A l \in Keys : FutureLeft(l)' = FutureLeft(l)) /\ OwnerLeft' = OwnerLeft
        BY <4>1 DEF FutureLeft, OwnerLeft
      <4>3. token'[k] # token[k] /\ \A l \in Keys : token[l] => token'[l]
        BY <2>1, <4>1
      <4> QED BY <2>2, <2>3, <4>2, <4>3
    <3> QED BY <2>10, <3>1, <3>2 DEF OwnerStep
  <2>11. ~Drain /\ ~Ended
    BY <1>1 DEF Drain, Ended
  <2> QED BY <1>1, <2>7, <2>8, <2>9, <2>10, <2>11 DEF Next
<1>2. Consistent /\ [Next]_vars => [owner # "using" => Nearer]_vars
  BY <1>1 DEF Consistent
<1> QED
  BY <1>2, Consistency, PTL DEF Spec, DropComesNearer
=============================================================================
