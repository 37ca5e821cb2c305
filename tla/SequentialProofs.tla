--------------------------- MODULE SequentialProofs ---------------------------
(***************************************************************************)
(* A run of the scheduler is exact for all resources and lists of systems, *)
(* and a State is dropped once whatever tests share its process.  With the *)
(* derive macro and the set of its elements, proved in their own modules,  *)
(* the four crates as the run has them.                                    *)
(***************************************************************************)
EXTENDS SequentialExamples, BorrowKeyProofs, KeyedSetProofs, TLAPS

(***************************************************************************)
(* Scheduler.                                                              *)
(***************************************************************************)
\* The parameters of the system that is next, as far as they are taken.
ParamsRight ==
  Running =>
    /\ Len(params) <= Len(loop[at])
    /\ \A k \in 1 .. Len(params) :
         /\ params[k] = Retrieve(loop[at][k])
         /\ params[k] # Absent

\* The loop has called what it should have called up to here.
CallsRight == phase = "running" => calls = CallsBefore(at - 1)

SchedulerInv == SchedulerTypeOK /\ ParamsRight /\ CallsRight

\* The lists that a loop goes over are lists of lists of parameters.
LEMMA ListsOfParams ==
  ASSUME NEW list \in Seq(Systems \cup Systems2), NEW i \in 1 .. Len(list)
  PROVE  /\ list[i] \in Seq(ResTypes \cup {FromU32})
         /\ Len(list[i]) \in Nat
         /\ DOMAIN list[i] = 1 .. Len(list[i])
<1>1. Systems \subseteq Seq(ResTypes \cup {FromU32})
  BY SchedulerAssumption
<1>2. Systems2 \subseteq Seq(ResTypes \cup {FromU32})
  BY DEF Systems2
<1>3. list[i] \in Systems \cup Systems2
  OBVIOUS
<1> QED BY <1>1, <1>2, <1>3

\* Numbers that the steps of the loop compare.
LEMMA LoopNumbers ==
  ASSUME SchedulerTypeOK
  PROVE  /\ Len(loop) \in Nat /\ Len(params) \in Nat
         /\ at \in Nat /\ at >= 1 /\ at <= Len(loop) + 1
<1>1. Len(loop) \in Nat /\ Len(params) \in Nat
  BY DEF SchedulerTypeOK
<1>2. at \in 1 .. Len(loop) + 1
  BY DEF SchedulerTypeOK
<1> QED BY <1>1, <1>2

\* What is retrieved is a value, or absent.
LEMMA RetrieveType ==
  ASSUME SchedulerTypeOK, NEW p \in ResTypes \cup {FromU32}
  PROVE  Retrieve(p) \in Values \cup {Absent}
  BY SchedulerAssumption DEF SchedulerTypeOK, Retrieve

\* A system whose turn passes without a call adds none ...
LEMMA NoCall ==
  ASSUME NEW n \in Nat, n >= 1, ~Complete(n)
  PROVE  CallsBefore(n) = CallsBefore(n - 1)
<1>1. {j \in 1 .. n : Complete(j)} = {j \in 1 .. n - 1 : Complete(j)}
  OBVIOUS
<1> QED BY <1>1 DEF CallsBefore

\* ... and one with all its parameters adds its own.
LEMMA OneCall ==
  ASSUME NEW n \in Nat, n >= 1, Complete(n)
  PROVE  CallsBefore(n) = CallsBefore(n - 1) \cup {<<n, Arguments(n)>>}
<1>1. {j \in 1 .. n : Complete(j)} = {j \in 1 .. n - 1 : Complete(j)} \cup {n}
  OBVIOUS
<1> QED BY <1>1 DEF CallsBefore

LEMMA SchedulerStarts == SchedulerInit => SchedulerInv
<1> SUFFICES ASSUME SchedulerInit PROVE SchedulerInv
  OBVIOUS
<1>1. SchedulerTypeOK
  <2>1. at \in 1 .. Len(loop) + 1
    BY DEF SchedulerInit
  <2> QED BY <2>1, SchedulerAssumption DEF SchedulerInit, SchedulerTypeOK
<1> QED BY <1>1 DEF SchedulerInit, SchedulerInv, ParamsRight, CallsRight, Running

\* While the loop and the resources stay, so does what is expected.
LEMMA SameCalls ==
  ASSUME UNCHANGED <<loop, resources>>
  PROVE  \A n \in Nat : CallsBefore(n)' = CallsBefore(n)
  BY DEF CallsBefore, Complete, Arguments, Retrieve

LEMMA BeginsKeeps ==
  ASSUME SchedulerInv, NEW list \in Seq(Systems \cup Systems2), Begins(list)
  PROVE  SchedulerInv'
<1>1. /\ phase' = "running" /\ loop' = list /\ at' = 1 /\ params' = <<>> /\ calls' = {}
      /\ UNCHANGED <<resources, systems>>
  BY DEF Begins
<1>2. Len(list) \in Nat
  OBVIOUS
<1>3. at' \in 1 .. Len(loop') + 1
  BY <1>1, <1>2
<1>4. SchedulerTypeOK'
  BY <1>1, <1>3 DEF SchedulerInv, SchedulerTypeOK
<1>5. ParamsRight'
  <2>1. Len(params') = 0
    BY <1>1
  <2>2. Running' => Len(loop'[at']) \in Nat
    BY <1>1, <1>2, ListsOfParams DEF Running
  <2> QED BY <2>1, <2>2 DEF ParamsRight
<1>6. CallsRight'
  BY <1>1 DEF CallsRight, CallsBefore
<1> QED BY <1>4, <1>5, <1>6 DEF SchedulerInv

\* The next parameter is right, too.
LEMMA TakeParamKeeps ==
  ASSUME SchedulerInv, TakeParam
  PROVE  SchedulerInv'
<1> DEFINE n == Len(params)
           p == loop[at][n + 1]
<1>1. /\ Running /\ n < Len(loop[at]) /\ Retrieve(p) # Absent
      /\ params' = Append(params, Retrieve(p))
      /\ UNCHANGED <<resources, systems, phase, loop, at, calls>>
  BY DEF TakeParam
<1>2. n \in Nat /\ at \in 1 .. Len(loop)
  BY <1>1, LoopNumbers DEF SchedulerInv, Running
<1>3. /\ Len(loop[at]) \in Nat
      /\ p \in ResTypes \cup {FromU32}
  <2>1. /\ loop[at] \in Seq(ResTypes \cup {FromU32})
        /\ Len(loop[at]) \in Nat
    BY <1>2, ListsOfParams DEF SchedulerInv, SchedulerTypeOK
  <2>2. n + 1 \in 1 .. Len(loop[at])
    BY <1>1, <1>2, <2>1
  <2> QED BY <2>1, <2>2
<1>4. Retrieve(p) \in Values
  BY <1>1, <1>3, RetrieveType DEF SchedulerInv
<1>5. params \in Seq(Values)
  BY DEF SchedulerInv, SchedulerTypeOK
<1>6. /\ params' \in Seq(Values)
      /\ Len(params') = n + 1
      /\ \A k \in 1 .. n : params'[k] = params[k]
      /\ params'[n + 1] = Retrieve(p)
  BY <1>1, <1>4, <1>5
<1>7. SchedulerTypeOK'
  BY <1>1, <1>6 DEF SchedulerInv, SchedulerTypeOK
<1>8. ParamsRight'
  <2>1. Len(params') <= Len(loop[at])
    BY <1>1, <1>2, <1>3, <1>6
  <2>2. ASSUME NEW k \in 1 .. Len(params')
        PROVE  params'[k] = Retrieve(loop[at][k]) /\ params'[k] # Absent
    <3>1. CASE k = n + 1
      BY <3>1, <1>1, <1>6
    <3>2. CASE k \in 1 .. n
      BY <3>2, <1>1, <1>6 DEF SchedulerInv, ParamsRight
    <3> QED BY <3>1, <3>2, <1>2, <1>6
  <2> QED BY <2>1, <2>2, <1>1 DEF ParamsRight, Retrieve
<1>9. CallsRight'
  <2>1. CallsBefore(at - 1)' = CallsBefore(at - 1)
    BY <1>1, <1>2, SameCalls
  <2> QED BY <1>1, <2>1 DEF SchedulerInv, CallsRight
<1> QED BY <1>7, <1>8, <1>9 DEF SchedulerInv

\* From one system to the next, with the call of the one that is complete.
LEMMA NextSystemKeeps ==
  ASSUME SchedulerInv, Running, NextSystem, phase' = phase,
         UNCHANGED <<resources, systems, loop>>,
         calls' \subseteq (1 .. Len(loop)) \X Seq(Values),
         calls' = CallsBefore(at)
  PROVE  SchedulerInv'
<1>1. at' = at + 1 /\ params' = <<>> /\ loop' = loop /\ phase' = phase
  BY DEF NextSystem
<1>2. at \in Nat /\ at >= 1 /\ at <= Len(loop) /\ Len(loop) \in Nat
  BY LoopNumbers DEF SchedulerInv, Running
<1>3. at' \in 1 .. Len(loop') + 1
  BY <1>1, <1>2
<1>4. SchedulerTypeOK'
  BY <1>1, <1>3 DEF SchedulerInv, SchedulerTypeOK
<1>5. ParamsRight'
  <2>1. Len(params') = 0
    BY <1>1
  <2>2. Running' => Len(loop'[at']) \in Nat
    BY <1>1, <1>2, ListsOfParams DEF Running, SchedulerInv, SchedulerTypeOK
  <2> QED BY <2>1, <2>2 DEF ParamsRight
<1>6. CallsRight'
  <2>1. at' - 1 = at
    BY <1>1, <1>2
  <2>2. CallsBefore(at - 1)' = CallsBefore(at)
    BY <2>1, <1>2, SameCalls
  <2> QED BY <2>2 DEF CallsRight
<1> QED BY <1>4, <1>5, <1>6 DEF SchedulerInv

LEMMA MissParamKeeps ==
  ASSUME SchedulerInv, MissParam
  PROVE  SchedulerInv'
<1>1. /\ Running /\ Len(params) < Len(loop[at])
      /\ Retrieve(loop[at][Len(params) + 1]) = Absent
      /\ NextSystem
      /\ UNCHANGED <<resources, systems, phase, loop, calls>>
  BY DEF MissParam
<1>2. /\ at \in 1 .. Len(loop) /\ at \in Nat /\ at >= 1
      /\ Len(params) \in Nat
  BY <1>1, LoopNumbers DEF SchedulerInv, Running
<1>3. Len(params) + 1 \in DOMAIN loop[at]
  BY <1>1, <1>2, ListsOfParams DEF SchedulerInv, SchedulerTypeOK
<1>4. ~Complete(at)
  BY <1>1, <1>3 DEF Complete
<1>5. calls' = CallsBefore(at)
  BY <1>1, <1>2, <1>4, NoCall DEF SchedulerInv, CallsRight, Running
<1>6. calls' \subseteq (1 .. Len(loop)) \X Seq(Values)
  BY <1>1 DEF SchedulerInv, SchedulerTypeOK
<1> QED BY <1>1, <1>5, <1>6, NextSystemKeeps

\* A system is called with what it asks for.
LEMMA CallIsRight ==
  ASSUME SchedulerInv, CallSystem
  PROVE  /\ calls' = CallsBefore(at)
         /\ calls' \subseteq (1 .. Len(loop)) \X Seq(Values)
<1>1. /\ Running /\ Len(params) = Len(loop[at])
      /\ calls' = calls \cup {<<at, params>>}
  BY DEF CallSystem
<1>2. /\ at \in 1 .. Len(loop) /\ at \in Nat /\ at >= 1
  BY <1>1, LoopNumbers DEF SchedulerInv, Running
<1>3. /\ DOMAIN loop[at] = 1 .. Len(params)
      /\ params \in Seq(Values)
  BY <1>1, <1>2, ListsOfParams DEF SchedulerInv, SchedulerTypeOK
<1>4. Complete(at)
  BY <1>1, <1>3 DEF Complete, SchedulerInv, ParamsRight
<1>5. params = Arguments(at)
  <2>1. params = [k \in 1 .. Len(params) |-> params[k]]
    BY <1>3
  <2> QED BY <2>1, <1>1, <1>3 DEF Arguments, SchedulerInv, ParamsRight
<1>6. calls' = CallsBefore(at)
  BY <1>1, <1>2, <1>4, <1>5, OneCall DEF SchedulerInv, CallsRight, Running
<1>7. calls' \subseteq (1 .. Len(loop)) \X Seq(Values)
  BY <1>1, <1>2, <1>3 DEF SchedulerInv, SchedulerTypeOK
<1> QED BY <1>6, <1>7

LEMMA CallSystemKeeps ==
  ASSUME SchedulerInv, CallSystem
  PROVE  SchedulerInv'
<1>1. Running /\ UNCHANGED <<resources, systems, loop>>
  BY DEF CallSystem
<1>2. CASE NextSystem /\ phase' = phase
  BY <1>1, <1>2, CallIsRight, NextSystemKeeps
<1>3. CASE phase' = "panicked" /\ UNCHANGED <<at, params>>
  <2>1. SchedulerTypeOK'
    BY <1>1, <1>3, CallIsRight DEF SchedulerInv, SchedulerTypeOK
  <2> QED BY <2>1, <1>3 DEF SchedulerInv, ParamsRight, CallsRight, Running
<1> QED BY <1>2, <1>3 DEF CallSystem

LEMMA SchedulerSteps == SchedulerInv /\ [SchedulerNext]_schedulerVars => SchedulerInv'
<1> SUFFICES ASSUME SchedulerInv, [SchedulerNext]_schedulerVars PROVE SchedulerInv'
  OBVIOUS
<1>1. ASSUME NEW T \in ResTypes, NEW v \in Values, AddResource(T, v) PROVE SchedulerInv'
  BY <1>1 DEF AddResource, SchedulerInv, SchedulerTypeOK, ParamsRight, CallsRight, Running
<1>2. ASSUME NEW s \in Systems, AddSystem(s) PROVE SchedulerInv'
  <2>1. systems' \in Seq(Systems) /\ Len(systems') <= MaxSystems
    BY <1>2, SchedulerAssumption DEF AddSystem, SchedulerInv, SchedulerTypeOK
  <2> QED BY <2>1, <1>2
          DEF AddSystem, SchedulerInv, SchedulerTypeOK, ParamsRight, CallsRight, Running
<1>3. CASE RunAll
  <2>1. systems \in Seq(Systems \cup Systems2)
    BY DEF SchedulerInv, SchedulerTypeOK
  <2> QED BY <2>1, <1>3, BeginsKeeps DEF RunAll
<1>4. ASSUME NEW s \in Systems2, Run2(s) PROVE SchedulerInv'
  <2>1. <<s>> \in Seq(Systems \cup Systems2)
    OBVIOUS
  <2> QED BY <2>1, <1>4, BeginsKeeps DEF Run2
<1>5. CASE TakeParam
  BY <1>5, TakeParamKeeps
<1>6. CASE MissParam
  BY <1>6, MissParamKeeps
<1>7. CASE CallSystem
  BY <1>7, CallSystemKeeps
<1>8. CASE EndRun
  BY <1>8 DEF EndRun, SchedulerInv, SchedulerTypeOK, ParamsRight, CallsRight, Running
<1>9. CASE UNCHANGED schedulerVars
  <2>1. CallsBefore(at - 1)' = CallsBefore(at - 1)
    BY <1>9, LoopNumbers, SameCalls DEF schedulerVars, SchedulerInv
  <2> QED BY <1>9, <2>1 DEF schedulerVars, SchedulerInv, SchedulerTypeOK, ParamsRight,
                            CallsRight, Running, Retrieve
<1> QED BY <1>1, <1>2, <1>3, <1>4, <1>5, <1>6, <1>7, <1>8, <1>9 DEF SchedulerNext

\* A step that ends a run ends it with the calls that were due.
LEMMA EndIsExact ==
  ASSUME SchedulerInv, [SchedulerNext]_schedulerVars
  PROVE  /\ phase' = "returned" /\ phase = "running" => calls = CallsBefore(Len(loop))
         /\ phase' = "panicked" /\ phase = "running" => calls' = CallsBefore(at)
<1>1. CASE EndRun
  <2>1. at - 1 = Len(loop) /\ phase = "running"
    BY <1>1, LoopNumbers DEF EndRun, SchedulerInv
  <2> QED BY <2>1, <1>1 DEF EndRun, SchedulerInv, CallsRight
<1>2. CASE CallSystem
  BY <1>2, CallIsRight DEF CallSystem, Running
<1>3. CASE phase' = phase \/ phase # "running"
  BY <1>3
<1>4. EndRun \/ CallSystem \/ phase' = phase \/ phase # "running"
  BY DEF SchedulerNext, AddResource, AddSystem, RunAll, Run2, Begins, TakeParam, MissParam,
         schedulerVars
<1> QED BY <1>1, <1>2, <1>3, <1>4

(* Every run calls exactly the systems whose parameters are all there, with  *)
(* what the resources hold, for any resources and any list of systems.       *)
THEOREM RunsAreExact == SchedulerSpec => RunIsExact
<1>1. SchedulerInv /\ [SchedulerNext]_schedulerVars =>
        [/\ phase' = "returned" /\ phase = "running" => calls = CallsBefore(Len(loop))
         /\ phase' = "panicked" /\ phase = "running" => calls' = CallsBefore(at)]_schedulerVars
  BY EndIsExact
<1> QED
  BY SchedulerStarts, SchedulerSteps, <1>1, PTL DEF SchedulerSpec, RunIsExact

(***************************************************************************)
(* TauriState.                                                             *)
(***************************************************************************)
\* What a test has dropped by the time it has made its callback, or its end.
Due(t) == IF t = "test2" THEN 0 ELSE 1

\* The counts at each stage of a test.
Counted(t) ==
  /\ stage[t] = "begin" => drops[t] = 0
  /\ stage[t] \in {"app", "callback"} =>
       drops[t] = 0 /\ strong[t] = IF t = "test3" THEN 2 ELSE 0
  /\ stage[t] = "decremented" => t = "test3" /\ drops[t] = 0 /\ strong[t] = 1
  /\ stage[t] \in {"callback", "called"} => t # "test1"
  /\ stage[t] \in {"called", "over"} => drops[t] = Due(t)

TauriInv ==
  /\ TauriTypeOK
  /\ \A t \in TauriTests : Counted(t)
  /\ killer # NoTest => stage[killer] = "over"

\* The step of one test leaves the others as they are.
LEMMA TauriStep ==
  ASSUME TauriInv, NEW t \in TauriTests,
         TauriTypeOK', Counted(t)', killer' # NoTest => stage'[killer'] = "over",
         \A u \in TauriTests \ {t} :
           stage'[u] = stage[u] /\ drops'[u] = drops[u] /\ strong'[u] = strong[u]
  PROVE  TauriInv'
  BY DEF TauriInv, Counted, Due

LEMMA TauriStarts == TauriInit => TauriInv
  BY DEF TauriInit, TauriInv, TauriTypeOK, Counted

LEMMA TauriSteps == TauriInv /\ [TauriNext]_tauriVars => TauriInv'
<1> SUFFICES ASSUME TauriInv, [TauriNext]_tauriVars PROVE TauriInv'
  OBVIOUS
<1>1. CASE EndTest1
  <2>1. /\ "test1" \in TauriTests /\ stage["test1"] = "app"
        /\ stage' = [stage EXCEPT !["test1"] = "over"]
        /\ drops' = [drops EXCEPT !["test1"] = @ + 1]
        /\ killer = NoTest
        /\ UNCHANGED <<on_exit, strong, killer>>
    BY <1>1 DEF EndTest1, DropApp, Reaches, DropState
  <2>2. drops["test1"] = 0
    BY <2>1 DEF TauriInv, Counted
  <2>3. TauriTypeOK'
    BY <2>1, <2>2 DEF TauriInv, TauriTypeOK
  <2>4. Counted("test1")'
    BY <2>1, <2>2 DEF TauriInv, TauriTypeOK, Counted, Due
  <2> QED BY <2>1, <2>3, <2>4, TauriStep DEF TauriInv, TauriTypeOK
<1>2. ASSUME NEW t \in TauriTests, NewApp(t) PROVE TauriInv'
  <2>1. /\ stage[t] = "begin" /\ killer = NoTest
        /\ stage' = [stage EXCEPT ![t] = "app"]
        /\ on_exit' = [on_exit EXCEPT ![t] = TRUE]
        /\ strong' = [strong EXCEPT ![t] = IF t = "test3" THEN 2 ELSE 0]
        /\ UNCHANGED <<drops, killer>>
    BY <1>2 DEF NewApp, Reaches
  <2>2. TauriTypeOK'
    BY <2>1 DEF TauriInv, TauriTypeOK
  <2>3. Counted(t)'
    BY <2>1 DEF TauriInv, TauriTypeOK, Counted
  <2> QED BY <2>1, <2>2, <2>3, TauriStep DEF TauriInv, TauriTypeOK
<1>3. ASSUME NEW t \in TauriTests, TakeCallback(t) PROVE TauriInv'
  <2>1. /\ stage[t] = "app" /\ killer = NoTest /\ t # "test1"
        /\ stage' = [stage EXCEPT ![t] = "callback"]
        /\ on_exit' = [on_exit EXCEPT ![t] = FALSE]
        /\ UNCHANGED <<strong, drops, killer>>
    BY <1>3 DEF TakeCallback, Reaches, Exiting
  <2>2. TauriTypeOK'
    BY <2>1 DEF TauriInv, TauriTypeOK
  <2>3. Counted(t)'
    BY <2>1 DEF TauriInv, TauriTypeOK, Counted
  <2> QED BY <2>1, <2>2, <2>3, TauriStep DEF TauriInv, TauriTypeOK
<1>4. ASSUME NEW t \in TauriTests, CallBack(t) PROVE TauriInv'
  <2>1. /\ stage[t] = "callback" /\ killer = NoTest /\ t \in {"test2", "test4"}
        /\ stage' = [stage EXCEPT ![t] = "called"]
        /\ IF t = "test4" THEN drops' = [drops EXCEPT ![t] = @ + 1] ELSE drops' = drops
        /\ UNCHANGED <<on_exit, strong, killer>>
    BY <1>4 DEF CallBack, Reaches, DropState
  <2>2. drops[t] = 0
    BY <2>1 DEF TauriInv, Counted
  <2>3. TauriTypeOK'
    BY <2>1, <2>2 DEF TauriInv, TauriTypeOK
  <2>4. Counted(t)'
    BY <2>1, <2>2 DEF TauriInv, TauriTypeOK, Counted, Due
  <2> QED BY <2>1, <2>3, <2>4, TauriStep DEF TauriInv, TauriTypeOK
<1>5. ASSUME NEW t \in TauriTests, Decrement(t) PROVE TauriInv'
  <2>1. /\ stage[t] = "callback" /\ killer = NoTest /\ t = "test3"
        /\ stage' = [stage EXCEPT ![t] = "decremented"]
        /\ strong' = [strong EXCEPT ![t] = @ - 1]
        /\ strong[t] # 1 => drops' = drops
        /\ UNCHANGED <<on_exit, killer>>
    BY <1>5 DEF Decrement, Reaches, DropArc
  <2>2. drops[t] = 0 /\ strong[t] = 2
    BY <2>1 DEF TauriInv, Counted
  <2>3. TauriTypeOK'
    BY <2>1, <2>2 DEF TauriInv, TauriTypeOK
  <2>4. Counted(t)'
    BY <2>1, <2>2 DEF TauriInv, TauriTypeOK, Counted
  <2> QED BY <2>1, <2>2, <2>3, <2>4, TauriStep DEF TauriInv, TauriTypeOK
<1>6. ASSUME NEW t \in TauriTests, DropFromRaw(t) PROVE TauriInv'
  <2>1. /\ stage[t] = "decremented" /\ killer = NoTest
        /\ stage' = [stage EXCEPT ![t] = "called"]
        /\ strong' = [strong EXCEPT ![t] = @ - 1]
        /\ strong[t] = 1 => drops' = [drops EXCEPT ![t] = @ + 1]
        /\ UNCHANGED <<on_exit, killer>>
    BY <1>6 DEF DropFromRaw, Reaches, DropArc, DropState
  <2>2. drops[t] = 0 /\ strong[t] = 1 /\ t = "test3"
    BY <2>1 DEF TauriInv, Counted
  <2>3. TauriTypeOK'
    BY <2>1, <2>2 DEF TauriInv, TauriTypeOK
  <2>4. Counted(t)'
    BY <2>1, <2>2 DEF TauriInv, TauriTypeOK, Counted, Due
  <2> QED BY <2>1, <2>2, <2>3, <2>4, TauriStep DEF TauriInv, TauriTypeOK
<1>7. ASSUME NEW t \in TauriTests, ProcessExit(t) PROVE TauriInv'
  <2>1. /\ stage[t] = "called" /\ killer' = t
        /\ stage' = [stage EXCEPT ![t] = "over"]
        /\ UNCHANGED <<on_exit, strong, drops>>
    BY <1>7 DEF ProcessExit, Reaches
  <2>2. TauriTypeOK'
    BY <2>1 DEF TauriInv, TauriTypeOK
  <2>3. Counted(t)'
    BY <2>1 DEF TauriInv, TauriTypeOK, Counted, Due
  <2> QED BY <2>1, <2>2, <2>3, TauriStep DEF TauriInv, TauriTypeOK
<1>8. CASE UNCHANGED tauriVars
  BY <1>8 DEF tauriVars, TauriInv, TauriTypeOK, Counted, Due
<1> QED BY <1>1, <1>2, <1>3, <1>4, <1>5, <1>6, <1>7, <1>8 DEF TauriNext

LEMMA DropIsOnce == TauriInv => DroppedOnce
<1> SUFFICES ASSUME TauriInv PROVE DroppedOnce
  OBVIOUS
<1>1. ASSUME NEW t \in TauriTests PROVE drops[t] <= 1
  BY DEF TauriInv, TauriTypeOK, Counted, Due
<1>2. killer # NoTest => drops[killer] = Due(killer)
  BY DEF TauriInv, TauriTypeOK, Counted
<1> QED BY <1>1, <1>2 DEF DroppedOnce, Due

(* No State is dropped twice, and the test that ends the process has dropped *)
(* its own unless it is test2, whichever of the tests run.                   *)
THEOREM DropsAreOnce == TauriSpec => []DroppedOnce
  BY TauriStarts, TauriSteps, DropIsOnce, PTL DEF TauriSpec

(***************************************************************************)
(* The crates together.                                                    *)
(***************************************************************************)
CratesInv == SchedulerInv /\ TauriInv /\ DeriveInv /\ KeyedInv

LEMMA CratesStart == Init => CratesInv /\ ByKeys!KeySetInit
  BY SchedulerStarts, TauriStarts, DeriveStarts, KeyedStarts DEF Init, CratesInv

\* A step of one of them leaves the others as they are.
LEMMA CratesGo ==
  [Next]_vars => /\ [SchedulerNext]_schedulerVars /\ [TauriNext]_tauriVars
                 /\ [DeriveNext]_deriveVars /\ [KeyedNext]_keyedVars
<1> SUFFICES ASSUME [Next]_vars
             PROVE  /\ SchedulerNext \/ UNCHANGED schedulerVars
                    /\ TauriNext \/ UNCHANGED tauriVars
                    /\ DeriveNext \/ UNCHANGED deriveVars
                    /\ KeyedNext \/ UNCHANGED keyedVars
  OBVIOUS
<1>1. CASE Next
  BY <1>1 DEF Next, RunScheduler, RunTauri, RunDerive, RunKeyed
<1>2. CASE UNCHANGED vars
  BY <1>2 DEF vars
<1> QED BY <1>1, <1>2

LEMMA CratesStep ==
  CratesInv /\ [Next]_vars => CratesInv' /\ [Lawful => ByKeys!KeySetNext]_(ByKeys!keySet)
  BY CratesGo, SchedulerSteps, TauriSteps, DeriveSteps, KeyedSteps DEF CratesInv

(* The variables of all four keep to their types.                            *)
THEOREM CratesAreTyped == Spec => []TypeOK
<1>1. CratesInv => TypeOK
  BY DEF CratesInv, SchedulerInv, TauriInv, DeriveInv, KeyedInv, TypeOK
<1> QED BY CratesStart, CratesStep, <1>1, PTL DEF Spec

(* What the run checks of the four on small lists, fields and hashes they    *)
(* do for all of them, each module's promise next to the others'.            *)
THEOREM CratesAreRight ==
  Spec => [](DroppedOnce /\ DeriveIsRight) /\ RunIsExact /\ ImplementsKeySet
<1>1. CratesInv => DroppedOnce /\ DeriveIsRight
  BY DropIsOnce DEF CratesInv, DeriveInv
<1>2. CratesInv /\ [Next]_vars =>
        [/\ phase' = "returned" /\ phase = "running" => calls = CallsBefore(Len(loop))
         /\ phase' = "panicked" /\ phase = "running" => calls' = CallsBefore(at)]_schedulerVars
  BY CratesGo, EndIsExact DEF CratesInv
<1>3. Spec => [](DroppedOnce /\ DeriveIsRight)
  BY CratesStart, CratesStep, <1>1, PTL DEF Spec
<1>4. Spec => RunIsExact
  BY CratesStart, CratesStep, <1>2, PTL DEF Spec, RunIsExact
<1>5. Spec => ByKeys!KeySetInit /\ [][Lawful => ByKeys!KeySetNext]_(ByKeys!keySet)
  BY CratesStart, CratesStep, PTL DEF Spec
<1>6. Spec => ImplementsKeySet
  BY <1>5 DEF ImplementsKeySet
<1> QED BY <1>3, <1>4, <1>6
===============================================================================
