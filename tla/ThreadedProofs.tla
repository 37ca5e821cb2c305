---------------------------- MODULE ThreadedProofs ----------------------------
(***************************************************************************)
(* The pool shared on a runtime of its own never times out; a statement    *)
(* fails only for a column that is used with two types; a job's            *)
(* configuration is current; the worker pool runs its jobs one at a time.  *)
(* The tests and the jobs never stop before their end, which is a bounded  *)
(* number of steps away, and no accepted task is forgotten.  For all       *)
(* numbers of tests, connections, columns, types, jobs and workers and all *)
(* sizes of the buffer.                                                    *)
(***************************************************************************)
EXTENDS ThreadedExamples, FiniteSetTheorems, TLAPS

(***************************************************************************)
(* SharedPool.                                                             *)
(***************************************************************************)
AtWork == {"init", "connect", "acquire", "ping", "finishing"}

\* The closure of INIT runs in one test, and there is no connection before it
\* has ended.
CellInv ==
  /\ cell # "set" => \A c \in Conns : home[c] = Nobody
  /\ \A t \in Tests : test[t] = "connect" => cell = t
  /\ \A t \in Tests : test[t] = "acquire" => cell = "set"

\* Who has a connection; without fixed.rs, nobody after the end.
UserInv ==
  \A c \in Conns : user[c] # Nobody =>
    /\ home[c] # Nobody
    /\ test[user[c]] \in {"ping", "finishing"} \cup Over
    /\ ~fixed => test[user[c]] \notin Over

\* With fixed.rs: the runtime is up as long as somebody needs it.
FixedInv ==
  fixed =>
    /\ \A c \in Conns : home[c] # Nobody => home[c] = Static /\ Static \in up
    /\ \A t \in Tests : test[t] \in AtWork => Static \in up /\ lazy \in {t, "set"}
    /\ lazy = "set" => cell = "set" /\ Static \in up

\* Whose closure it is that the others wait for, and what is pinged.
WaitInv ==
  /\ cell \in Tests => test[cell] = "connect"
  /\ lazy \in Tests => test[lazy] \in {"init", "connect"}
  /\ \A t \in Tests : test[t] = "ping" => \E c \in Conns : user[c] = t

PoolInv == PoolTypeOK /\ CellInv /\ UserInv /\ FixedInv /\ WaitInv /\ FixedNeverTimesOut

LEMMA PoolStarts == PoolInit => PoolInv
  BY PoolAssumption
  DEF PoolInit, PoolInv, PoolTypeOK, CellInv, UserInv, FixedInv, WaitInv,
      FixedNeverTimesOut, AtWork

\* A test that gives up has a connection before it whose runtime is gone.
LEMMA TimesOutDead ==
  ASSUME PoolInv, NEW t \in Tests, TimesOut(t)
  PROVE  \E c \in Conns : home[c] # Nobody /\ home[c] \notin up
<1>1. CASE Stands(t, "ping") /\ \E c \in Conns : user[c] = t /\ home[c] \notin up
  BY <1>1, PoolAssumption DEF PoolInv, UserInv
<1>2. CASE Stands(t, "acquire") /\ \A c \in Conns : Hung(c)
  <2>1. PICK c \in Conns : Hung(c)
    BY <1>2, PoolAssumption
  <2>2. user[c] # Nobody /\ user[c] \in Tests /\ home[c] # Nobody
    BY <2>1 DEF Hung, PoolInv, PoolTypeOK, UserInv
  <2>3. CASE home[c] \notin up
    BY <2>2, <2>3
  <2>4. CASE test[user[c]] \in Over /\ ~CanReturn(c)
    <3>1. fixed /\ Static \in up
      BY <2>2, <2>4 DEF PoolInv, UserInv, FixedInv
    <3>2. Driven(RtOf(user[c]))
      BY <3>1, <1>2 DEF Driven, RtOf, Stands, Over
    <3> QED BY <2>2, <2>4, <3>2 DEF CanReturn
  <2> QED BY <2>1, <2>3, <2>4 DEF Hung
<1> QED BY <1>1, <1>2 DEF TimesOut

LEMMA PoolSteps == PoolInv /\ [PoolNext]_poolVars => PoolInv'
<1> SUFFICES ASSUME PoolInv, [PoolNext]_poolVars PROVE PoolInv'
  OBVIOUS
<1> USE PoolAssumption DEF PoolInv, PoolTypeOK, CellInv, UserInv, FixedInv, WaitInv,
                           FixedNeverTimesOut, AtWork, Over, Runtimes, RtOf, Stands, Moves
<1>1. ASSUME NEW t \in Tests, Start(t) PROVE PoolInv'
  BY <1>1 DEF Start
<1>2. ASSUME NEW t \in Tests, BuildRt(t) PROVE PoolInv'
  BY <1>2 DEF BuildRt
<1>3. ASSUME NEW t \in Tests, ReadRt(t) PROVE PoolInv'
  BY <1>3 DEF ReadRt
<1>4. ASSUME NEW t \in Tests, GetCell(t) PROVE PoolInv'
  BY <1>4 DEF GetCell, Initialised
<1>5. ASSUME NEW t \in Tests, InitCell(t) PROVE PoolInv'
  BY <1>5 DEF InitCell
<1>6. ASSUME NEW t \in Tests, ConnectFails(t) PROVE PoolInv'
  BY <1>6 DEF ConnectFails
<1>7. ASSUME NEW t \in Tests, NEW c \in Conns, Connect(t, c) PROVE PoolInv'
  BY <1>7 DEF Connect, Initialised
<1>8. ASSUME NEW t \in Tests, NEW c \in Conns, TakeIdle(t, c) PROVE PoolInv'
  BY <1>8 DEF TakeIdle
<1>9. ASSUME NEW t \in Tests, NEW c \in Conns, Open(t, c) PROVE PoolInv'
  BY <1>9 DEF Open
<1>10. ASSUME NEW t \in Tests, NEW c \in Conns, Pinged(t, c) PROVE PoolInv'
  BY <1>10 DEF Pinged
<1>11. ASSUME NEW t \in Tests, TimesOut(t) PROVE PoolInv'
  <2>1. ~fixed
    BY <1>11, TimesOutDead
  <2> QED BY <1>11, <2>1 DEF TimesOut, Ends
<1>12. ASSUME NEW t \in Tests, Finish(t) PROVE PoolInv'
  BY <1>12 DEF Finish, Ends
<1>13. ASSUME NEW c \in Conns, Return(c) PROVE PoolInv'
  BY <1>13 DEF Return, CanReturn
<1>14. CASE UNCHANGED poolVars
  BY <1>14 DEF poolVars
<1> QED
  BY <1>1, <1>2, <1>3, <1>4, <1>5, <1>6, <1>7, <1>8, <1>9, <1>10, <1>11, <1>12, <1>13, <1>14
  DEF PoolNext, PoolStep

(* On the runtime of fixed.rs no acquire times out: for all numbers of tests *)
(* and connections, whichever test comes first.                              *)
THEOREM FixedIsFixed == PoolSpec => []FixedNeverTimesOut
<1>1. PoolInv => FixedNeverTimesOut
  BY DEF PoolInv
<1> QED
  BY PoolStarts, PoolSteps, <1>1, PTL DEF PoolSpec

\* The step in which a test becomes one that has timed out is its TimesOut.
LEMMA OnlyOnDead ==
  PoolInv /\ [PoolNext]_poolVars =>
    [\A t \in Tests : test'[t] = "timed_out" /\ test[t] # "timed_out" =>
       \E c \in Conns : home[c] # Nobody /\ home[c] \notin up]_poolVars
<1> SUFFICES ASSUME PoolInv, [PoolNext]_poolVars,
                    NEW t \in Tests, test'[t] = "timed_out", test[t] # "timed_out"
             PROVE  \E c \in Conns : home[c] # Nobody /\ home[c] \notin up
  OBVIOUS
<1>1. TimesOut(t)
  <2>1. test \in [Tests -> {"idle", "lazy", "init", "connect", "acquire", "ping",
                            "finishing"} \cup Over]
    BY DEF PoolInv, PoolTypeOK
  <2>2. ASSUME NEW u \in Tests, Start(u) \/ PoolStep(u), ~TimesOut(u) PROVE FALSE
    BY <2>1, <2>2
    DEF Start, PoolStep, BuildRt, ReadRt, GetCell, InitCell, Initialised, ConnectFails,
        Connect, TakeIdle, Open, Pinged, Finish, Ends, Moves
  <2>3. ~ \E c \in Conns : Return(c)
    BY DEF Return
  <2>4. PICK u \in Tests : TimesOut(u)
    BY <2>2, <2>3 DEF PoolNext, poolVars
  <2>5. u = t
    BY <2>1, <2>4 DEF TimesOut, Ends, Moves
  <2> QED BY <2>4, <2>5
<1> QED BY <1>1, TimesOutDead

(* An acquire that times out has a connection of a dropped runtime before    *)
(* it, with fixed.rs or without: never is it for want of connections.        *)
THEOREM TimesOutIsDead == PoolSpec => TimesOutOnDead
  BY PoolStarts, PoolSteps, OnlyOnDead, PTL DEF PoolSpec, TimesOutOnDead

\* The guards of PoolStep(t), action by action.
CanStep(t) ==
  \/ test[t] = "lazy" /\ lazy \in {"unset", "set", "poisoned"}
  \/ test[t] = "init" /\ cell \in {"empty", "set"}
  \/ test[t] \in {"connect", "finishing"}
  \/ /\ test[t] = "acquire"
     /\ \/ \E c \in Conns : home[c] = Nobody \/ user[c] = Nobody
        \/ \A c \in Conns : Hung(c)
  \/ test[t] = "ping" /\ \E c \in Conns : user[c] = t

(* As long as a test that was started is not over, one of them can go on or  *)
(* a connection be returned: nobody waits for the LazyLock or the OnceCell   *)
(* unless their closure runs, nor for a connection that will never come.     *)
TestsGoOn ==
  (\E t \in Tests : test[t] \notin {"idle"} \cup Over) =>
    (\E t \in Tests : CanStep(t)) \/ (\E c \in Conns : CanReturn(c))

\* How far a test is from its end; it comes by init twice if it runs RT's closure.
Left(t) ==
  CASE test[t] = "idle" -> 9
    [] test[t] = "lazy" -> 8
    [] test[t] = "init" -> IF lazy = t THEN 7 ELSE 5
    [] test[t] = "connect" -> IF lazy = t THEN 6 ELSE 4
    [] test[t] = "acquire" -> 3
    [] test[t] = "ping" -> 2
    [] test[t] = "finishing" -> 1
    [] OTHER -> 0

(* A step brings one test nearer to its end and none further from it, or     *)
(* returns a connection: with TestsGoOn, the tests end after 9 steps each    *)
(* and at most one return for each.                                          *)
StepsBringEnd ==
  [][/\ \A t \in Tests : Left(t)' <= Left(t)
     /\ \/ \E t \in Tests : Left(t)' < Left(t)
        \/ \E c \in Conns : user[c] # Nobody /\ user' = [user EXCEPT ![c] = Nobody]]_poolVars

(* No test waits for what will never happen: not for a closure that nobody   *)
(* runs, nor for a connection whose user neither goes on nor returns it.     *)
THEOREM TestsNeverStop == PoolSpec => []TestsGoOn
<1>1. PoolInv => TestsGoOn
  <2> SUFFICES ASSUME PoolInv, NEW t \in Tests, test[t] \notin {"idle"} \cup Over,
                      \A c \in Conns : ~CanReturn(c)
               PROVE  \E u \in Tests : CanStep(u)
    BY DEF TestsGoOn
  <2> USE DEF CanStep, PoolInv, PoolTypeOK, WaitInv
  <2>1. CASE test[t] = "lazy"
    BY <2>1, PoolAssumption
  <2>2. CASE test[t] = "init"
    BY <2>2, PoolAssumption
  <2>3. CASE test[t] \in {"connect", "ping", "finishing"}
    BY <2>3
  <2>4. CASE test[t] = "acquire"
    <3> SUFFICES ASSUME NEW c \in Conns, ~Hung(c), user[c] # Nobody, home[c] # Nobody
                 PROVE  \E u \in Tests : CanStep(u)
      BY <2>4
    <3>1. user[c] \in Tests /\ test[user[c]] \in {"ping", "finishing"}
      BY DEF UserInv, Hung
    <3> QED BY <3>1
  <2> QED BY <2>1, <2>2, <2>3, <2>4 DEF Over
<1> QED BY PoolStarts, PoolSteps, <1>1, PTL DEF PoolSpec

(* Each step of a test brings it nearer to its end and takes no other        *)
(* further from it, and each other step gives a connection back: with        *)
(* TestsNeverStop, the tests that are started end, in whatever order.        *)
THEOREM TestsRunOut == PoolSpec => StepsBringEnd
<1> DEFINE Brings == /\ \A t \in Tests : Left(t)' <= Left(t)
                     /\ \/ \E t \in Tests : Left(t)' < Left(t)
                        \/ \E c \in Conns : user[c] # Nobody /\ user' = [user EXCEPT ![c] = Nobody]
<1>1. ASSUME PoolInv, PoolNext PROVE Brings
  <2> USE <1>1, PoolAssumption DEF PoolInv, PoolTypeOK, Stands, Moves
  <2>1. ASSUME NEW t \in Tests, Start(t) \/ BuildRt(t) \/ ReadRt(t) \/ GetCell(t) \/ InitCell(t)
        PROVE  Brings
    BY <2>1 DEF Left, Start, BuildRt, ReadRt, GetCell, InitCell, Initialised, WaitInv
  <2>2. ASSUME NEW t \in Tests, ConnectFails(t) \/ TimesOut(t) \/ Finish(t)
        PROVE  Brings
    BY <2>2 DEF Left, ConnectFails, TimesOut, Finish, Ends, WaitInv
  <2>3. ASSUME NEW t \in Tests, NEW c \in Conns,
               Connect(t, c) \/ TakeIdle(t, c) \/ Open(t, c) \/ Pinged(t, c)
        PROVE  Brings
    BY <2>3 DEF Left, Connect, TakeIdle, Open, Pinged, Initialised, WaitInv
  <2>4. ASSUME NEW c \in Conns, Return(c) PROVE Brings
    <3>1. \A t \in Tests : Left(t)' = Left(t) /\ Left(t) \in Nat
      BY <2>4 DEF Left, Return
    <3>2. \A t \in Tests : Left(t)' <= Left(t)
      BY <3>1
    <3>3. user[c] # Nobody /\ user' = [user EXCEPT ![c] = Nobody]
      BY <2>4 DEF Return, CanReturn
    <3> QED BY <3>2, <3>3
  <2> QED BY <1>1, <2>1, <2>2, <2>3, <2>4 DEF PoolNext, PoolStep
<1> QED BY PoolStarts, PoolSteps, <1>1, PTL DEF PoolSpec, StepsBringEnd

(***************************************************************************)
(* StatementCache.                                                         *)
(***************************************************************************)
\* A statement's type fits its column and has been used with it; a call has
\* failed over a statement of another type.
CacheInv ==
  /\ CacheTypeOK
  /\ \A c \in PgConns, f \in Fields : prepared[c][f] # Unprepared =>
       prepared[c][f] \in Fits[f] /\ <<f, prepared[c][f]>> \in called
  /\ OneTypeNeverFails

LEMMA FirstByKeeps ==
  ASSUME CacheInv, NEW c \in PgConns, NEW f \in Fields, NEW t \in Types, FirstBy(c, f, t)
  PROVE  CacheInv'
<1> USE CacheAssumption DEF CacheInv, CacheTypeOK, Text
<1>1. /\ called' = called \cup {<<f, t>>} /\ table' = table
      /\ called' \subseteq Fields \X Types
  BY DEF FirstBy
<1>2. CASE Works(c, f, t)
  <2>1. prepared' = [prepared EXCEPT ![c][f] = t] /\ failed' = failed
    BY <1>2 DEF FirstBy
  <2>2. t \in Fits[f]
    BY <1>2 DEF Works
  <2>3. CacheTypeOK'
    BY <1>1, <2>1
  <2>4. \A d \in PgConns, g \in Fields :
          prepared'[d][g] = IF d = c /\ g = f THEN t ELSE prepared[d][g]
    BY <2>1
  <2>5. OneTypeNeverFails'
    BY <1>1, <2>1 DEF OneTypeNeverFails
  <2> QED BY <1>1, <2>2, <2>3, <2>4, <2>5
<1>3. CASE ~Works(c, f, t)
  <2>1. prepared' = prepared /\ failed' = failed \cup {<<f, t>>}
    BY <1>3 DEF FirstBy
  <2>2. t \in Fits[f] => prepared[c][f] \in Fits[f] \ {t} /\ <<f, prepared[c][f]>> \in called
    BY <1>3 DEF Works
  <2>3. OneTypeNeverFails'
    <3> SUFFICES ASSUME NEW g \in Fields, NEW v \in Fits[g], <<g, v>> \in failed'
                 PROVE  \E u \in Fits[g] \ {v} : <<g, u>> \in called'
      BY DEF OneTypeNeverFails
    <3>1. CASE <<g, v>> \in failed
      BY <3>1, <1>1 DEF OneTypeNeverFails
    <3>2. CASE g = f /\ v = t
      BY <3>2, <2>2, <1>1
    <3> QED BY <2>1, <3>1, <3>2
  <2> QED BY <1>1, <2>1, <2>3
<1> QED BY <1>2, <1>3

LEMMA CacheStarts == CacheInit => CacheInv
  BY CacheAssumption DEF CacheInit, CacheInv, CacheTypeOK, OneTypeNeverFails

LEMMA CacheSteps == CacheInv /\ [CacheNext]_cacheVars => CacheInv'
<1> SUFFICES ASSUME CacheInv, [CacheNext]_cacheVars PROVE CacheInv'
  OBVIOUS
<1>1. CASE CreateTable
  BY <1>1 DEF CreateTable, CacheInv, CacheTypeOK, OneTypeNeverFails
<1>2. ASSUME NEW c \in PgConns, NEW f \in Fields, NEW t \in Types, FirstBy(c, f, t)
      PROVE  CacheInv'
  BY <1>2, FirstByKeeps
<1>3. CASE UNCHANGED cacheVars
  BY <1>3 DEF cacheVars, CacheInv, CacheTypeOK, OneTypeNeverFails
<1> QED BY <1>1, <1>2, <1>3 DEF CacheNext

(* A call with a type that fits fails only for a column that is also asked   *)
(* for by another type: one type for each column is enough.                  *)
THEOREM OneTypeIsEnough == CacheSpec => []OneTypeNeverFails
<1>1. CacheInv => OneTypeNeverFails
  BY DEF CacheInv
<1> QED BY CacheStarts, CacheSteps, <1>1, PTL DEF CacheSpec

(***************************************************************************)
(* SharedConfig.                                                           *)
(***************************************************************************)
\* The updates that were due before the job of the loop have been made, none
\* that comes after it; the threads are those of the jobs before it.
Stored ==
  /\ config <= data
  /\ updated => config = data
  /\ \A e \in 0 .. Data - 1 : e < data /\ Due(e) => e <= config
  /\ \A d \in 0 .. Data - 1 : reader[d] # "none" => d < data

ConfigInv == ConfigTypeOK /\ Stored /\ ContentIsCurrent

\* A thread that goes on and does not read leaves the configurations alone.
LEMMA ReaderGoesKeeps ==
  ASSUME ConfigInv, NEW d \in 0 .. Data - 1, NEW from \in {"spawned", "guarded", "working"},
         NEW to \in {"guarded", "working", "ended"}, ReaderGoes(d, from, to)
  PROVE  ConfigTypeOK' => Stored'
<1>1. /\ reader[d] # "none"
      /\ reader' = [reader EXCEPT ![d] = to]
      /\ UNCHANGED <<app, data, updated, config>>
  BY DEF ReaderGoes
<1>2. \A e \in 0 .. Data - 1 : reader'[e] # "none" => reader[e] # "none"
  BY <1>1 DEF ConfigInv, ConfigTypeOK
<1> QED BY <1>1, <1>2 DEF ConfigInv, Stored, Due

LEMMA ConfigStarts == ConfigInit => ConfigInv
<1> SUFFICES ASSUME ConfigInit PROVE ConfigInv
  OBVIOUS
<1>1. 0 \in 0 .. Data /\ -1 \in -1 .. Data - 1
  BY ConfigAssumption
<1>2. ConfigTypeOK
  BY <1>1 DEF ConfigInit, ConfigTypeOK
<1>3. Stored /\ ContentIsCurrent
  BY DEF ConfigInit, Stored, ContentIsCurrent
<1> QED BY <1>2, <1>3 DEF ConfigInv

LEMMA ConfigSteps == ConfigInv /\ [ConfigNext]_configVars => ConfigInv'
<1> SUFFICES ASSUME ConfigInv, [ConfigNext]_configVars PROVE ConfigInv'
  OBVIOUS
<1> USE ConfigAssumption DEF ConfigInv
<1>1. CASE UpdateConfig
  <2>1. /\ data < Data /\ config' = data /\ updated' = TRUE
        /\ UNCHANGED <<app, data, reader, content>>
    BY <1>1 DEF UpdateConfig
  <2>2. data \in 0 .. Data /\ config \in -1 .. Data - 1 /\ config <= data
    BY DEF ConfigTypeOK, Stored
  <2>3. ConfigTypeOK'
    BY <2>1, <2>2 DEF ConfigTypeOK
  <2>4. Stored'
    BY <2>1, <2>2 DEF Stored, Due
  <2>5. ContentIsCurrent'
    <3>1. \A d \in 0 .. Data - 1 : content[d] \in -1 .. Data - 1
      BY DEF ConfigTypeOK
    <3> QED BY <2>1, <2>2, <3>1 DEF ContentIsCurrent, Due
  <2> QED BY <2>3, <2>4, <2>5
<1>2. CASE Handle
  <2>1. /\ data < Data /\ (Due(data) => updated)
        /\ reader' = [reader EXCEPT ![data] = "spawned"]
        /\ data' = data + 1 /\ updated' = FALSE
        /\ UNCHANGED <<app, config, content>>
    BY <1>2 DEF Handle
  <2>2. data \in 0 .. Data - 1 /\ config \in -1 .. Data - 1
    BY <2>1 DEF ConfigTypeOK
  <2>3. ConfigTypeOK'
    <3>1. data' \in 0 .. Data
      BY <2>1, <2>2
    <3> QED BY <3>1, <2>1 DEF ConfigTypeOK
  <2>4. \A d \in 0 .. Data - 1 : reader'[d] = IF d = data THEN "spawned" ELSE reader[d]
    BY <2>1, <2>2 DEF ConfigTypeOK
  <2>5. Stored'
    <3>1. config' <= data' /\ (updated' => config' = data')
      BY <2>1, <2>2 DEF Stored
    <3>2. ASSUME NEW e \in 0 .. Data - 1, e < data', Due(e) PROVE e <= config
      <4>1. CASE e = data
        BY <4>1, <2>1, <2>2, <3>2 DEF Stored
      <4>2. CASE e < data
        BY <4>2, <3>2 DEF Stored
      <4> QED BY <4>1, <4>2, <3>2, <2>1, <2>2
    <3>3. ASSUME NEW d \in 0 .. Data - 1, reader'[d] # "none" PROVE d < data'
      BY <3>3, <2>1, <2>2, <2>4 DEF Stored
    <3> QED BY <3>1, <3>2, <3>3, <2>1 DEF Stored, Due
  <2>6. ContentIsCurrent'
    BY <2>1, <2>2, <2>4 DEF ContentIsCurrent, Due
  <2> QED BY <2>3, <2>5, <2>6
<1>3. ASSUME NEW d \in 0 .. Data - 1, ReadGuard(d) PROVE ConfigInv'
  <2>1. ReaderGoes(d, "spawned", "guarded") /\ content' = content
    BY <1>3 DEF ReadGuard
  <2>2. ConfigTypeOK'
    BY <2>1 DEF ReaderGoes, ConfigTypeOK
  <2>3. ContentIsCurrent'
    BY <2>1 DEF ReaderGoes, ContentIsCurrent, ConfigTypeOK, Due
  <2> QED BY <2>1, <2>2, <2>3, ReaderGoesKeeps
<1>4. ASSUME NEW d \in 0 .. Data - 1, TakeContent(d) PROVE ConfigInv'
  <2>1. PICK from \in {"spawned", "guarded"} : ReaderGoes(d, from, "working")
    BY <1>4 DEF TakeContent
  <2>2. /\ content' = [content EXCEPT ![d] = config]
        /\ reader' = [reader EXCEPT ![d] = "working"]
        /\ reader[d] # "none"
        /\ UNCHANGED <<app, data, updated, config>>
    BY <1>4, <2>1 DEF TakeContent, ReaderGoes
  <2>3. ConfigTypeOK'
    BY <2>2 DEF ConfigTypeOK
  <2>4. ContentIsCurrent'
    <3> SUFFICES ASSUME NEW x \in 0 .. Data - 1, reader'[x] \in {"working", "ended"}
                 PROVE  /\ \A e \in 0 .. x : Due(e) => e <= content'[x]
                        /\ content'[x] <= config
      BY <2>2 DEF ContentIsCurrent, Due
    <3>1. CASE x # d
      BY <3>1, <2>2 DEF ConfigTypeOK, ContentIsCurrent
    <3>2. CASE x = d
      <4>1. content'[x] = config /\ config \in -1 .. Data - 1
        BY <3>2, <2>2 DEF ConfigTypeOK
      <4>2. d < data /\ data \in 0 .. Data
        BY <2>2 DEF Stored, ConfigTypeOK
      <4>3. ASSUME NEW e \in 0 .. x, Due(e) PROVE e <= config
        <5>1. e \in 0 .. Data - 1 /\ e < data
          BY <3>2, <4>2
        <5> QED BY <5>1, <4>3 DEF Stored
      <4> QED BY <4>1, <4>3
    <3> QED BY <3>1, <3>2
  <2> QED BY <2>1, <2>3, <2>4, ReaderGoesKeeps
<1>5. ASSUME NEW d \in 0 .. Data - 1, FinishWork(d) PROVE ConfigInv'
  <2>1. ReaderGoes(d, "working", "ended") /\ content' = content
    BY <1>5 DEF FinishWork
  <2>2. ConfigTypeOK'
    BY <2>1 DEF ReaderGoes, ConfigTypeOK
  <2>3. ContentIsCurrent'
    BY <2>1 DEF ReaderGoes, ContentIsCurrent, ConfigTypeOK, Due
  <2> QED BY <2>1, <2>2, <2>3, ReaderGoesKeeps
<1>6. CASE UNCHANGED configVars
  BY <1>6 DEF configVars, ConfigTypeOK, Stored, ContentIsCurrent, Due
<1> QED
  BY <1>1, <1>2, <1>3, <1>4, <1>5, <1>6 DEF ConfigNext, LoopStep, ReaderStep

(* No job works with a configuration that was replaced before it was handed  *)
(* over, nor with one that has not been stored: for any number of jobs and   *)
(* of updates, under the lock and under the ArcSwap.                         *)
THEOREM ConfigIsCurrent == ConfigSpec => []ContentIsCurrent
<1>1. ConfigInv => ContentIsCurrent
  BY DEF ConfigInv
<1> QED BY ConfigStarts, ConfigSteps, <1>1, PTL DEF ConfigSpec

(***************************************************************************)
(* WorkerPool.                                                             *)
(***************************************************************************)
Polled(w) == worker[w] \in {"recv", "running"}

\* The jobs that have been started are the first ones, each of them is either
\* under way or at its end, and the others wait in order.
JobsInv ==
  /\ Len(queue) <= made
  /\ UnderWay \cup ended = 1 .. made - Len(queue)
  /\ UnderWay \cap ended = {}
  /\ \A i \in 1 .. Len(queue) : queue[i] = made - Len(queue) + i

\* One worker is polled at a time, in classic; in light there are none.
PollInv ==
  /\ way = "classic" => main # "polling" /\ job[Main] = 0
  /\ way = "light" => main \in {"polling", "done"} /\ \A w \in Workers : worker[w] = "ready"
  /\ \A w \in Workers : job[w] # 0 <=> worker[w] = "running"
  /\ \A v, w \in Workers : Polled(v) /\ Polled(w) => v = w

\* The sender lives as long as the main thread sends, a task of classic ends
\* when there is nothing more to come, and the function returns at the end.
ReturnInv ==
  /\ tx <=> way = "light" \/ main = "sending"
  /\ ~tx => made = JobCount
  /\ \A w \in Workers : worker[w] = "ended" => ~tx /\ queue = <<>>
  /\ main = "done" => /\ ended = Jobs /\ UnderWay = {}
                      /\ way = "classic" => \A w \in Workers : worker[w] = "ended"

WorkerInv == WorkerTypeOK /\ JobsInv /\ PollInv /\ ReturnInv

LEMMA WorkerStarts == WorkerInit => WorkerInv /\ AtMostOne!BoundedInit
<1> SUFFICES ASSUME WorkerInit PROVE WorkerInv /\ AtMostOne!BoundedInit
  OBVIOUS
<1>1. WorkerTypeOK
  BY JobsAssumption DEF WorkerInit, WorkerTypeOK
<1>2. UnderWay = {} /\ ended = {}
  BY DEF WorkerInit, UnderWay
<1>3. JobsInv
  BY <1>2 DEF WorkerInit, JobsInv
<1>4. PollInv
  BY JobsAssumption DEF WorkerInit, PollInv, Polled
<1>5. ReturnInv /\ (main = "done") = FALSE
  BY DEF WorkerInit, ReturnInv
<1> QED BY <1>1, <1>2, <1>3, <1>4, <1>5 DEF WorkerInv, AtMostOne!BoundedInit

\* The queue, the jobs and the numbers as SMT wants them.
LEMMA QueueFacts ==
  ASSUME WorkerTypeOK
  PROVE  Len(queue) \in Nat /\ made \in Nat /\ made <= JobCount
  BY JobsAssumption DEF WorkerTypeOK

\* With nobody else at work, x takes the next job.
LEMMA StartIs ==
  ASSUME WorkerInv, NEW x \in Workers \cup {Main}, StartJob(x), main' = main,
         \A y \in Workers \cup {Main} : job[y] = 0
  PROVE  /\ JobsInv'
         /\ queue' \in Seq(Jobs)
         /\ job' = [job EXCEPT ![x] = Head(queue)] /\ Head(queue) \in Jobs
         /\ AtMostOne!BoundedNext
<1> DEFINE j == Head(queue)
<1>1. /\ queue # <<>> /\ queue \in Seq(Jobs)
      /\ job' = [job EXCEPT ![x] = j] /\ queue' = Tail(queue)
      /\ made' = made /\ ended' = ended
  BY DEF StartJob, WorkerInv, WorkerTypeOK
<1>2. Len(queue) \in Nat /\ made \in Nat /\ Len(queue) >= 1 /\ Len(queue) <= made
  BY <1>1, QueueFacts DEF WorkerInv, JobsInv
<1>3. /\ queue' \in Seq(Jobs) /\ Len(queue') = Len(queue) - 1
      /\ \A i \in 1 .. Len(queue') : queue'[i] = queue[i + 1]
      /\ j \in Jobs /\ j = queue[1]
  BY <1>1, <1>2
<1>4. j = made - Len(queue) + 1
  BY <1>2, <1>3 DEF WorkerInv, JobsInv
<1>5. job \in [Workers \cup {Main} -> 0 .. JobCount]
  BY DEF WorkerInv, WorkerTypeOK
<1>6. UnderWay = {} /\ ended = 1 .. made - Len(queue)
  BY DEF WorkerInv, JobsInv, UnderWay
<1>7. UnderWay' = {j}
  BY <1>1, <1>2, <1>4, <1>5 DEF UnderWay
<1>8. j \notin ended /\ {j} \cup ended = 1 .. made' - Len(queue')
  BY <1>1, <1>2, <1>3, <1>4, <1>6
<1>9. \A i \in 1 .. Len(queue') : queue'[i] = made' - Len(queue') + i
  BY <1>1, <1>2, <1>3 DEF WorkerInv, JobsInv
<1>10. JobsInv'
  BY <1>1, <1>2, <1>3, <1>7, <1>8, <1>9 DEF JobsInv
<1>11. AtMostOne!Begin(j)
  <2>1. Cardinality(UnderWay) < 1
    BY <1>6, FS_EmptySet
  <2>2. /\ j \notin UnderWay \cup ended
        /\ UnderWay' = UnderWay \cup {j} /\ UNCHANGED <<ended, main = "done">>
    BY <1>1, <1>6, <1>7, <1>8
  <2> HIDE DEF j
  <2> QED BY <2>1, <2>2 DEF AtMostOne!Begin, Cardinality, AtMostOne!Cardinality
<1> QED BY <1>1, <1>3, <1>10, <1>11 DEF AtMostOne!BoundedNext

LEMMA EndIs ==
  ASSUME WorkerInv, NEW x \in Workers \cup {Main}, EndJob(x), main' = main,
         \A y \in Workers \cup {Main} : y # x => job[y] = 0
  PROVE  /\ JobsInv'
         /\ job' = [job EXCEPT ![x] = 0] /\ ended' \subseteq Jobs
         /\ AtMostOne!BoundedNext
<1>1. /\ job[x] # 0
      /\ job' = [job EXCEPT ![x] = 0]
      /\ ended' = ended \cup {job[x]}
      /\ UNCHANGED <<made, queue>>
  BY DEF EndJob
<1>2. job \in [Workers \cup {Main} -> 0 .. JobCount] /\ JobCount \in Nat
  BY JobsAssumption DEF WorkerInv, WorkerTypeOK
<1>3. job[x] \in Jobs
  BY <1>1, <1>2 DEF Jobs
<1>4. UnderWay = {job[x]} /\ UnderWay' = {}
  BY <1>1, <1>2 DEF UnderWay
<1>5. JobsInv'
  BY <1>1, <1>4 DEF WorkerInv, JobsInv
<1>6. AtMostOne!End(job[x])
  <2>1. UNCHANGED (main = "done")
    OBVIOUS
  <2> QED BY <1>1, <1>4, <2>1 DEF AtMostOne!End
<1> QED BY <1>1, <1>3, <1>5, <1>6 DEF AtMostOne!BoundedNext, WorkerInv, WorkerTypeOK

LEMMA MakeIs ==
  ASSUME WorkerInv, MakeJob
  PROVE  JobsInv' /\ queue' \in Seq(Jobs) /\ made' \in 0 .. JobCount
<1>1. /\ made < JobCount /\ made' = made + 1 /\ queue' = Append(queue, made + 1)
      /\ UNCHANGED <<job, ended>>
      /\ queue \in Seq(Jobs)
  BY DEF MakeJob, WorkerInv, WorkerTypeOK
<1>2. Len(queue) \in Nat /\ made \in Nat /\ Len(queue) <= made
  BY QueueFacts DEF WorkerInv, JobsInv
<1>3. made + 1 \in Jobs
  BY <1>1, <1>2, JobsAssumption DEF Jobs
<1>4. /\ queue' \in Seq(Jobs) /\ Len(queue') = Len(queue) + 1
      /\ \A i \in 1 .. Len(queue) : queue'[i] = queue[i]
      /\ queue'[Len(queue) + 1] = made + 1
  BY <1>1, <1>3
<1>5. made' - Len(queue') = made - Len(queue)
  BY <1>1, <1>2, <1>4
<1>6. ASSUME NEW i \in 1 .. Len(queue') PROVE queue'[i] = made' - Len(queue') + i
  <2>1. CASE i = Len(queue) + 1
    BY <2>1, <1>2, <1>4, <1>5
  <2>2. CASE i \in 1 .. Len(queue)
    BY <2>2, <1>4, <1>5 DEF WorkerInv, JobsInv
  <2> QED BY <2>1, <2>2, <1>2, <1>4
<1>7. Len(queue') <= made' /\ UnderWay' \cup ended' = 1 .. made' - Len(queue')
  BY <1>1, <1>2, <1>4, <1>5 DEF WorkerInv, JobsInv, UnderWay
<1>8. JobsInv'
  BY <1>1, <1>6, <1>7 DEF WorkerInv, JobsInv, UnderWay
<1> QED BY <1>1, <1>2, <1>4, <1>8, JobsAssumption

\* A step of whoever works before the function has returned.
LEMMA WorkKeepsReturn ==
  ASSUME ReturnInv, main # "done", UNCHANGED <<way, main, tx, made>>,
         queue = <<>> => queue' = <<>>,
         \A w \in Workers : worker'[w] = "ended" => worker[w] = "ended" \/ (~tx /\ queue = <<>>)
  PROVE  ReturnInv'
  BY DEF ReturnInv

\* Who is polled is alone.
LEMMA Alone ==
  ASSUME WorkerInv, NEW w \in Workers, Polled(w)
  PROVE  /\ way = "classic" /\ main # "polling" /\ w \in Workers \cup {Main}
         /\ \A y \in Workers \cup {Main} : y # w => job[y] = 0
<1>1. way = "classic" /\ main # "polling" /\ job[Main] = 0
  BY DEF WorkerInv, PollInv, Polled, WorkerTypeOK
<1>2. ASSUME NEW y \in Workers, y # w PROVE job[y] = 0
  <2>1. ~Polled(y)
    BY <1>2 DEF WorkerInv, PollInv
  <2> QED BY <2>1 DEF WorkerInv, PollInv, Polled
<1> QED BY <1>1, <1>2

\* With the sender gone and the queue empty, or the stream at its end, and
\* nobody at work, all jobs have ended.
LEMMA AllHaveEnded ==
  ASSUME WorkerInv, made = JobCount, queue = <<>>, \A x \in Workers \cup {Main} : job[x] = 0
  PROVE  UnderWay = {} /\ ended = Jobs
<1>1. UnderWay = {}
  BY DEF UnderWay
<1>2. Len(queue) = 0 /\ made \in Nat
  BY QueueFacts DEF WorkerInv
<1> QED BY <1>1, <1>2 DEF WorkerInv, JobsInv, Jobs

\* Both ways of returning find the jobs at their end.
LEMMA ReturnIs ==
  ASSUME WorkerInv, Join \/ StreamEnds
  PROVE  AtMostOne!Return /\ UnderWay = {} /\ ended = Jobs
<1> USE JobsAssumption
<1>1. CASE Join
  <2>1. main = "joining" /\ \A w \in Workers : worker[w] = "ended"
    BY <1>1 DEF Join
  <2>2. way = "classic" /\ job[Main] = 0
    BY <2>1 DEF WorkerInv, PollInv, WorkerTypeOK
  <2>3. made = JobCount /\ queue = <<>>
    BY <2>1 DEF WorkerInv, ReturnInv
  <2>4. \A w \in Workers : job[w] = 0
    BY <2>1 DEF WorkerInv, PollInv
  <2>5. UnderWay = {} /\ ended = Jobs
    BY <2>2, <2>3, <2>4, AllHaveEnded
  <2>6. (main = "done") = FALSE /\ (main' = "done") = TRUE /\ UNCHANGED <<UnderWay, ended>>
    BY <1>1 DEF Join, UnderWay
  <2> QED BY <2>5, <2>6 DEF AtMostOne!Return
<1>2. CASE StreamEnds
  <2>1. main = "polling" /\ Full /\ queue = <<>> /\ job[Main] = 0
    BY <1>2 DEF StreamEnds
  <2>2. way = "light"
    BY <2>1 DEF WorkerInv, WorkerTypeOK, PollInv
  <2>3. made = JobCount
    <3>1. Len(queue) = 0
      BY <2>1
    <3> QED BY <2>1, <3>1 DEF Full
  <2>4. \A w \in Workers : job[w] = 0
    BY <2>2 DEF WorkerInv, PollInv
  <2>5. UnderWay = {} /\ ended = Jobs
    BY <2>1, <2>3, <2>4, AllHaveEnded
  <2>6. (main = "done") = FALSE /\ (main' = "done") = TRUE /\ UNCHANGED <<UnderWay, ended>>
    BY <1>2 DEF StreamEnds, UnderWay
  <2> QED BY <2>5, <2>6 DEF AtMostOne!Return
<1> QED BY <1>1, <1>2

LEMMA WorkerSteps ==
  WorkerInv /\ [WorkerNext]_jobVars => WorkerInv' /\ [AtMostOne!BoundedNext]_(AtMostOne!bounded)
<1> SUFFICES ASSUME WorkerInv, [WorkerNext]_jobVars
             PROVE  WorkerInv' /\ [AtMostOne!BoundedNext]_(AtMostOne!bounded)
  OBVIOUS
<1> DEFINE Goal == WorkerInv' /\ [AtMostOne!BoundedNext]_(AtMostOne!bounded)
<1> USE JobsAssumption
<1>1. CASE Send \/ Fill
  <2>1. /\ MakeJob /\ main # "done" /\ UNCHANGED <<way, main, tx, worker, job, ended>>
        /\ main = "sending" \/ main = "polling"
    BY <1>1 DEF Send, Fill, MakeJob
  <2>2. WorkerTypeOK' /\ JobsInv' /\ PollInv'
    BY <2>1, MakeIs DEF WorkerInv, WorkerTypeOK, PollInv, Polled
  <2>3. \A w \in Workers : worker[w] # "ended"
    BY <2>1 DEF WorkerInv, PollInv, ReturnInv, WorkerTypeOK
  <2>4. tx
    BY <2>1 DEF WorkerInv, PollInv, ReturnInv, WorkerTypeOK
  <2>5. ReturnInv'
    BY <2>1, <2>3, <2>4 DEF WorkerInv, ReturnInv
  <2> QED BY <2>1, <2>2, <2>5 DEF WorkerInv, AtMostOne!bounded, UnderWay
<1>2. CASE DropTx \/ Join \/ StreamEnds
  <2>1. /\ main # "done" /\ main' # "polling" /\ main' # "sending"
        /\ main' = "joining" => way = "classic"
        /\ main' \in {"joining", "done"} /\ tx' \in BOOLEAN
        /\ UNCHANGED <<way, made, queue, worker, job, ended>>
    BY <1>2 DEF DropTx, Join, StreamEnds, WorkerInv, WorkerTypeOK, PollInv
  <2>2. WorkerTypeOK'
    BY <2>1 DEF WorkerInv, WorkerTypeOK
  <2>3. JobsInv'
    BY <2>1 DEF WorkerInv, JobsInv, UnderWay
  <2>4. PollInv'
    BY <2>1 DEF WorkerInv, PollInv, Polled
  <2>5. ReturnInv'
    <3>1. CASE DropTx
      <4>1. main = "sending" /\ main' = "joining" /\ ~tx' /\ made = JobCount
        BY <3>1 DEF DropTx
      <4>2. tx /\ way = "classic"
        BY <4>1 DEF WorkerInv, ReturnInv, PollInv, WorkerTypeOK
      <4> QED BY <2>1, <4>1, <4>2 DEF WorkerInv, ReturnInv
    <3>2. CASE Join \/ StreamEnds
      <4>1. UNCHANGED <<tx, UnderWay>> /\ main # "sending"
        BY <2>1, <3>2 DEF Join, StreamEnds, UnderWay
      <4>2. UnderWay = {} /\ ended = Jobs
        BY <3>2, ReturnIs
      <4>3. way = "classic" => \A w \in Workers : worker'[w] = "ended"
        BY <2>1, <3>2 DEF Join, StreamEnds, WorkerInv, PollInv
      <4> QED BY <2>1, <4>1, <4>2, <4>3 DEF WorkerInv, ReturnInv
    <3> QED BY <1>2, <3>1, <3>2
  <2>6. [AtMostOne!BoundedNext]_(AtMostOne!bounded)
    <3>1. CASE DropTx
      <4>1. (main = "done") = FALSE /\ (main' = "done") = FALSE
        BY <3>1 DEF DropTx
      <4> QED BY <2>1, <4>1 DEF AtMostOne!bounded, UnderWay
    <3>2. CASE Join \/ StreamEnds
      BY <3>2, ReturnIs DEF AtMostOne!BoundedNext
    <3> QED BY <1>2, <3>1, <3>2
  <2> QED BY <2>2, <2>3, <2>4, <2>5, <2>6 DEF WorkerInv
<1>3. CASE PollFuture
  <2>1. main = "polling" /\ UNCHANGED <<way, main, tx, worker>>
    BY <1>3 DEF PollFuture
  <2>2. way = "light"
    BY <2>1 DEF WorkerInv, WorkerTypeOK, PollInv
  <2>3. \A w \in Workers : job[w] = 0
    BY <2>2 DEF WorkerInv, PollInv
  <2>4. CASE StartJob(Main)
    <3>1. \A y \in Workers \cup {Main} : job[y] = 0
      BY <2>3, <2>4 DEF StartJob
    <3>2. made' = made /\ ended' = ended
      BY <2>4 DEF StartJob
    <3>3. /\ JobsInv' /\ queue' \in Seq(Jobs)
          /\ job' = [job EXCEPT ![Main] = Head(queue)] /\ Head(queue) \in Jobs
          /\ AtMostOne!BoundedNext
      BY <2>1, <2>4, <3>1, StartIs
    <3>4. queue # <<>>
      BY <2>4 DEF StartJob
    <3>5. ReturnInv'
      BY <2>1, <3>2, <3>4, WorkKeepsReturn DEF WorkerInv
    <3> QED
      BY <2>1, <2>2, <3>2, <3>3, <3>5 DEF WorkerInv, WorkerTypeOK, PollInv, Polled, Jobs
  <2>5. CASE EndJob(Main)
    <3>1. UNCHANGED <<made, queue>>
      BY <2>5 DEF EndJob
    <3>2. /\ JobsInv' /\ job' = [job EXCEPT ![Main] = 0] /\ ended' \subseteq Jobs
          /\ AtMostOne!BoundedNext
      BY <2>1, <2>3, <2>5, EndIs
    <3>3. ReturnInv'
      BY <2>1, <3>1, WorkKeepsReturn DEF WorkerInv
    <3> QED BY <2>1, <2>2, <3>1, <3>2, <3>3 DEF WorkerInv, WorkerTypeOK, PollInv, Polled
  <2> QED BY <1>3, <2>4, <2>5 DEF PollFuture
<1>4. ASSUME NEW w \in Workers, PollWorker(w) \/ RecvErr(w) PROVE Goal
  <2>1. /\ UNCHANGED <<way, main, tx, made, queue, job, ended>>
        /\ worker[w] \in {"ready", "recv"}
        /\ \/ worker' = [worker EXCEPT ![w] = "recv"]
           \/ worker' = [worker EXCEPT ![w] = "ended"] /\ ~tx /\ queue = <<>>
    BY <1>4 DEF PollWorker, RecvErr, Goes
  <2>2. JobsInv'
    BY <2>1 DEF WorkerInv, JobsInv, UnderWay
  <2>6. WorkerTypeOK'
    BY <2>1 DEF WorkerInv, WorkerTypeOK
  <2>3. PollInv'
    BY <1>4, <2>1 DEF PollWorker, RecvErr, Goes, WorkerInv, WorkerTypeOK, PollInv, Polled
  <2>4. main # "done"
    BY <1>4 DEF PollWorker, RecvErr, Goes, WorkerInv, PollInv, ReturnInv, WorkerTypeOK
  <2>5. ReturnInv'
    <3>1. \A v \in Workers : worker'[v] = "ended" => worker[v] = "ended" \/ (~tx /\ queue = <<>>)
      BY <2>1 DEF WorkerInv, WorkerTypeOK
    <3> QED BY <2>1, <2>4, <3>1, WorkKeepsReturn DEF WorkerInv
  <2> QED BY <2>1, <2>2, <2>3, <2>5, <2>6 DEF WorkerInv, AtMostOne!bounded, UnderWay
<1>5. ASSUME NEW w \in Workers, RecvJob(w) PROVE Goal
  <2>1. /\ worker[w] = "recv" /\ worker' = [worker EXCEPT ![w] = "running"]
        /\ UNCHANGED <<way, main, tx, made, ended>>
        /\ StartJob(w)
    BY <1>5 DEF RecvJob, Goes, StartJob
  <2>2. Polled(w)
    BY <2>1 DEF Polled
  <2>3. \A y \in Workers \cup {Main} : job[y] = 0
    BY <2>1, <2>2, Alone DEF StartJob
  <2>4. /\ JobsInv' /\ queue' \in Seq(Jobs)
        /\ job' = [job EXCEPT ![w] = Head(queue)] /\ Head(queue) \in Jobs
        /\ AtMostOne!BoundedNext
    BY <2>1, <2>3, StartIs
  <2>5. WorkerTypeOK'
    BY <2>1, <2>4 DEF WorkerInv, WorkerTypeOK, Jobs
  <2>6. PollInv'
    BY <2>1, <2>2, <2>4, Alone DEF WorkerInv, WorkerTypeOK, PollInv, Polled, Jobs
  <2>7. ReturnInv'
    <3>1. main # "done" /\ queue # <<>>
      BY <2>1 DEF StartJob, WorkerInv, PollInv, ReturnInv, WorkerTypeOK
    <3>2. \A v \in Workers : worker'[v] = "ended" => worker[v] = "ended"
      BY <2>1 DEF WorkerInv, WorkerTypeOK
    <3> QED BY <2>1, <3>1, <3>2, WorkKeepsReturn DEF WorkerInv
  <2> QED BY <2>4, <2>5, <2>6, <2>7 DEF WorkerInv
<1>6. ASSUME NEW w \in Workers, FinishJob(w) PROVE Goal
  <2>1. /\ worker[w] = "running" /\ worker' = [worker EXCEPT ![w] = "recv"]
        /\ UNCHANGED <<way, main, tx, made, queue>>
        /\ EndJob(w)
    BY <1>6 DEF FinishJob, Goes, EndJob
  <2>2. Polled(w)
    BY <2>1 DEF Polled
  <2>3. /\ JobsInv' /\ job' = [job EXCEPT ![w] = 0] /\ ended' \subseteq Jobs
        /\ AtMostOne!BoundedNext
    BY <2>1, <2>2, Alone, EndIs
  <2>4. WorkerTypeOK'
    BY <2>1, <2>3 DEF WorkerInv, WorkerTypeOK
  <2>5. PollInv'
    BY <2>1, <2>2, <2>3, Alone DEF WorkerInv, WorkerTypeOK, PollInv, Polled
  <2>6. ReturnInv'
    <3>1. main # "done"
      BY <2>1 DEF WorkerInv, PollInv, ReturnInv, WorkerTypeOK
    <3>2. \A v \in Workers : worker'[v] = "ended" => worker[v] = "ended"
      BY <2>1 DEF WorkerInv, WorkerTypeOK
    <3> QED BY <2>1, <3>1, <3>2, WorkKeepsReturn DEF WorkerInv
  <2> QED BY <2>3, <2>4, <2>5, <2>6 DEF WorkerInv
<1>7. CASE UNCHANGED jobVars
  <2>1. WorkerTypeOK' /\ JobsInv' /\ PollInv'
    BY <1>7 DEF jobVars, WorkerInv, WorkerTypeOK, JobsInv, PollInv, Polled, UnderWay
  <2>2. ReturnInv'
    BY <1>7 DEF jobVars, WorkerInv, ReturnInv, UnderWay
  <2> QED BY <1>7, <2>1, <2>2 DEF jobVars, WorkerInv, AtMostOne!bounded, UnderWay
<1> QED
  BY <1>1, <1>2, <1>3, <1>4, <1>5, <1>6, <1>7 DEF WorkerNext, MainStep, ThreadStep

(* Either way implements the limit, with one job at a time, and returns when *)
(* all of them have ended, whatever the number of jobs and workers and the   *)
(* size of the buffer.                                                       *)
THEOREM JobsAreBounded == WorkerSpec => ImplementsBoundedJobs
<1>1. WorkerSpec => AtMostOne!BoundedInit /\ [][AtMostOne!BoundedNext]_(AtMostOne!bounded)
  BY WorkerStarts, WorkerSteps, PTL DEF WorkerSpec
<1> QED BY <1>1, PTL DEF ImplementsBoundedJobs, AtMostOne!BoundedSpec

\* The guards of MainStep and of ThreadStep, action by action.
MainCanStep ==
  \/ main = "sending" /\ (made < JobCount \/ made = JobCount)
  \/ main = "joining" /\ \A w \in Workers : worker[w] = "ended"
  \/ main = "polling" /\ job[Main] = 0 /\ ~Full /\ made < JobCount
  \/ main = "polling" /\ Full /\ queue # <<>> /\ job[Main] = 0
  \/ main = "polling" /\ job[Main] # 0
  \/ main = "polling" /\ Full /\ queue = <<>> /\ job[Main] = 0

ThreadCanStep ==
  \E w \in Workers :
    \/ way = "classic" /\ worker[w] = "ready" /\ \A v \in Workers : worker[v] \in {"ready", "ended"}
    \/ worker[w] = "recv" /\ queue # <<>> /\ job[w] = 0
    \/ worker[w] = "recv" /\ queue = <<>> /\ ~tx
    \/ worker[w] = "running" /\ job[w] # 0

(* Until the function returns one of its threads can go on: the recv that    *)
(* blocks the thread of the pool, with the lock on rx, never waits for what  *)
(* only another task of that pool could do (lib.rs:28-31).                   *)
JobsGoOn == main # "done" => MainCanStep \/ ThreadCanStep

(* Neither way stops before it returns: a recv that blocks the only thread   *)
(* of the pool has a job before it, or the main thread still to send one.    *)
THEOREM JobsNeverStop == WorkerSpec => []JobsGoOn
<1>1. WorkerInv => JobsGoOn
  <2> SUFFICES ASSUME WorkerInv, main # "done", ~ThreadCanStep PROVE MainCanStep
    BY DEF JobsGoOn
  <2>1. main \in {"sending", "joining", "polling"} /\ made <= JobCount /\ made \in Nat
    BY QueueFacts DEF WorkerInv, WorkerTypeOK
  <2>2. CASE main = "sending"
    BY <2>1, <2>2, JobsAssumption DEF MainCanStep
  <2>3. CASE main = "joining"
    <3>1. way = "classic" /\ ~tx
      BY <2>3 DEF WorkerInv, PollInv, ReturnInv, WorkerTypeOK
    <3>2. ASSUME NEW w \in Workers PROVE worker[w] \in {"ready", "ended"}
      <4>1. worker[w] \in {"ready", "recv", "running", "ended"} /\ (job[w] # 0 <=> worker[w] = "running")
        BY DEF WorkerInv, WorkerTypeOK, PollInv
      <4> QED BY <3>1, <4>1 DEF ThreadCanStep
    <3>3. \A w \in Workers : worker[w] = "ended"
      BY <3>1, <3>2 DEF ThreadCanStep
    <3> QED BY <2>3, <3>3 DEF MainCanStep
  <2>4. CASE main = "polling"
    BY <2>1, <2>4, JobsAssumption DEF MainCanStep, Full
  <2> QED BY <2>1, <2>2, <2>3, <2>4
<1> QED
  BY WorkerStarts, WorkerSteps, <1>1, PTL DEF WorkerSpec

\* What is left to do: jobs to make, to start and to end, tasks to poll first
\* and to end, and the stages that the main thread has before it.
ToDo ==
  (JobCount - made) + (JobCount - (made - Len(queue))) + (JobCount - Cardinality(ended))
  + Cardinality({w \in Workers : worker[w] = "ready"})
  + Cardinality({w \in Workers : worker[w] # "ended"})
  + (IF main = "sending" THEN 2 ELSE IF main = "done" THEN 0 ELSE 1)

(* Every step leaves less to do: with JobsGoOn, the function returns after   *)
(* at most 3 * JobCount + 2 * Cardinality(Workers) + 2 steps.                *)
EachStepCounts == [][ToDo' \in Nat /\ ToDo > ToDo']_jobVars

\* The terms of ToDo.
ToMake == JobCount - made
ToStart == JobCount - (made - Len(queue))
ToEnd == JobCount - Cardinality(ended)
Unpolled == {w \in Workers : worker[w] = "ready"}
Unended == {w \in Workers : worker[w] # "ended"}
Ahead == IF main = "sending" THEN 2 ELSE IF main = "done" THEN 0 ELSE 1

TermsOK ==
  /\ ToMake \in Nat /\ ToStart \in Nat /\ ToEnd \in Nat /\ Ahead \in Nat
  /\ IsFiniteSet(ended)
  /\ IsFiniteSet(Unpolled) /\ Cardinality(Unpolled) \in Nat
  /\ IsFiniteSet(Unended) /\ Cardinality(Unended) \in Nat

LEMMA TermsAreNat == WorkerInv => TermsOK
<1> SUFFICES ASSUME WorkerInv PROVE TermsOK
  OBVIOUS
<1>1. JobCount \in Nat /\ made \in Nat /\ made <= JobCount /\ Len(queue) \in Nat /\ Len(queue) <= made
  BY QueueFacts, JobsAssumption DEF WorkerInv, JobsInv
<1>2. ToMake \in Nat /\ ToStart \in Nat /\ Ahead \in Nat
  BY <1>1 DEF ToMake, ToStart, Ahead
<1>3. IsFiniteSet(Jobs) /\ Cardinality(Jobs) = JobCount
  <2>1. IsFiniteSet(1 .. JobCount) /\ Cardinality(1 .. JobCount) = JobCount
    <3>1. 1 \in Int /\ JobCount \in Int /\ (1 > JobCount \/ JobCount - 1 + 1 = JobCount)
      BY <1>1
    <3>2. 1 > JobCount => JobCount = 0
      BY <1>1
    <3> QED BY <3>1, <3>2, FS_Interval
  <2> QED BY <2>1 DEF Jobs
<1>4. IsFiniteSet(ended) /\ Cardinality(ended) \in Nat /\ Cardinality(ended) <= JobCount
  <2>1. ended \subseteq Jobs
    BY DEF WorkerInv, WorkerTypeOK
  <2> QED BY <1>3, <2>1, FS_Subset, FS_CardinalityType
<1>5. ToEnd \in Nat
  BY <1>1, <1>4 DEF ToEnd
<1>6. /\ IsFiniteSet(Unpolled) /\ Cardinality(Unpolled) \in Nat
      /\ IsFiniteSet(Unended) /\ Cardinality(Unended) \in Nat
  <2>1. Unpolled \subseteq Workers /\ Unended \subseteq Workers
    BY DEF Unpolled, Unended
  <2> QED BY <2>1, JobsAssumption, FS_Subset, FS_CardinalityType
<1> QED BY <1>2, <1>4, <1>5, <1>6 DEF TermsOK

LEMMA TermsStayNat == (WorkerInv => TermsOK)'
  BY TermsAreNat, PTL

\* A step that lowers one of the terms and raises none.
LEMMA TermsFall ==
  ASSUME WorkerInv, WorkerInv',
         ToMake' <= ToMake, ToStart' <= ToStart, ToEnd' <= ToEnd, Ahead' <= Ahead,
         Unpolled' \subseteq Unpolled, Unended' \subseteq Unended,
         \/ ToMake' < ToMake \/ ToStart' < ToStart \/ ToEnd' < ToEnd \/ Ahead' < Ahead
         \/ Unpolled' # Unpolled \/ Unended' # Unended
  PROVE  ToDo' \in Nat /\ ToDo > ToDo'
<1>1. /\ ToMake \in Nat /\ ToStart \in Nat /\ ToEnd \in Nat /\ Ahead \in Nat
      /\ IsFiniteSet(Unpolled) /\ Cardinality(Unpolled) \in Nat
      /\ IsFiniteSet(Unended) /\ Cardinality(Unended) \in Nat
  BY TermsAreNat DEF TermsOK
<1>2. /\ ToMake' \in Nat /\ ToStart' \in Nat /\ ToEnd' \in Nat /\ Ahead' \in Nat
      /\ Cardinality(Unpolled') \in Nat /\ Cardinality(Unended') \in Nat
  <2>1. TermsOK'
    BY TermsStayNat
  <2> QED BY <2>1 DEF TermsOK
<1>3. ASSUME NEW S, NEW R, IsFiniteSet(S), R \subseteq S
      PROVE  /\ Cardinality(R) <= Cardinality(S)
             /\ R # S => Cardinality(R) < Cardinality(S)
  <2>1. /\ IsFiniteSet(R) /\ Cardinality(R) <= Cardinality(S)
        /\ Cardinality(S) = Cardinality(R) => S = R
    BY <1>3, FS_Subset
  <2>2. Cardinality(R) \in Nat /\ Cardinality(S) \in Nat
    BY <1>3, <2>1, FS_CardinalityType
  <2> QED BY <2>1, <2>2
<1>4. /\ Cardinality(Unpolled') <= Cardinality(Unpolled)
      /\ Unpolled' # Unpolled => Cardinality(Unpolled') < Cardinality(Unpolled)
  BY <1>1, <1>3
<1>5. /\ Cardinality(Unended') <= Cardinality(Unended)
      /\ Unended' # Unended => Cardinality(Unended') < Cardinality(Unended)
  BY <1>1, <1>3
<1>6. ToDo = ToMake + ToStart + ToEnd + Cardinality(Unpolled) + Cardinality(Unended) + Ahead
  BY DEF ToDo, ToMake, ToStart, ToEnd, Unpolled, Unended, Ahead
<1>7. ToDo' = ToMake' + ToStart' + ToEnd' + Cardinality(Unpolled') + Cardinality(Unended') + Ahead'
  BY DEF ToDo, ToMake, ToStart, ToEnd, Unpolled, Unended, Ahead
<1> QED BY <1>1, <1>2, <1>4, <1>5, <1>6, <1>7

\* A job that has ended had not ended before.
LEMMA EndCounts ==
  ASSUME WorkerInv, NEW x \in Workers \cup {Main}, EndJob(x)
  PROVE  ToEnd' < ToEnd /\ UNCHANGED <<ToMake, ToStart>>
<1>1. job[x] # 0 /\ ended' = ended \cup {job[x]} /\ UNCHANGED <<made, queue>>
  BY DEF EndJob
<1>2. job[x] \notin ended
  BY <1>1 DEF WorkerInv, JobsInv, UnderWay
<1>3. IsFiniteSet(ended) /\ Cardinality(ended) \in Nat /\ JobCount \in Nat
  BY TermsAreNat, FS_CardinalityType, JobsAssumption DEF TermsOK
<1>4. Cardinality(ended') = Cardinality(ended) + 1
  BY <1>1, <1>2, <1>3, FS_AddElement
<1> QED BY <1>1, <1>3, <1>4 DEF ToEnd, ToMake, ToStart

\* The queue is shorter by the job that is taken from it.
LEMMA StartCounts ==
  ASSUME WorkerInv, NEW x \in Workers \cup {Main}, StartJob(x)
  PROVE  ToStart' < ToStart /\ UNCHANGED <<ToMake, ToEnd>>
<1>1. queue # <<>> /\ queue \in Seq(Jobs) /\ queue' = Tail(queue) /\ UNCHANGED <<made, ended>>
  BY DEF StartJob, WorkerInv, WorkerTypeOK
<1>2. Len(queue') = Len(queue) - 1 /\ Len(queue) \in Nat
  BY <1>1
<1>3. made \in Nat /\ JobCount \in Nat
  BY QueueFacts, JobsAssumption DEF WorkerInv
<1> QED BY <1>1, <1>2, <1>3 DEF ToStart, ToMake, ToEnd

LEMMA MakeCounts ==
  ASSUME WorkerInv, MakeJob
  PROVE  ToMake' < ToMake /\ UNCHANGED <<ToStart, ToEnd>>
<1>1. /\ made' = made + 1 /\ queue' = Append(queue, made + 1) /\ ended' = ended
      /\ made + 1 \in Jobs /\ queue \in Seq(Jobs)
  BY QueueFacts, JobsAssumption DEF MakeJob, WorkerInv, WorkerTypeOK, Jobs
<1>2. Len(queue') = Len(queue) + 1 /\ Len(queue) \in Nat
  BY <1>1
<1>3. made \in Nat /\ JobCount \in Nat
  BY QueueFacts, JobsAssumption DEF WorkerInv
<1> QED BY <1>1, <1>2, <1>3 DEF ToStart, ToMake, ToEnd

LEMMA WorkerCounts ==
  ASSUME WorkerInv, WorkerInv', WorkerNext
  PROVE  ToDo' \in Nat /\ ToDo > ToDo'
<1> USE DEF Unpolled, Unended, Ahead
<1>1. ToMake \in Nat /\ ToStart \in Nat /\ ToEnd \in Nat
  BY TermsAreNat DEF TermsOK
<1>2. worker \in [Workers -> {"ready", "recv", "running", "ended"}]
  BY DEF WorkerInv, WorkerTypeOK
<1>3. CASE Send \/ Fill
  <2>1. MakeJob /\ UNCHANGED <<main, worker>>
    BY <1>3 DEF Send, Fill
  <2>2. ToMake' < ToMake /\ UNCHANGED <<ToStart, ToEnd>>
    BY <2>1, MakeCounts
  <2>5. ToMake' \in Nat
    BY TermsStayNat DEF TermsOK
  <2>3. UNCHANGED <<Unpolled, Unended, Ahead>>
    BY <2>1
  <2> HIDE DEF Unpolled, Unended, Ahead
  <2>4. Ahead \in Nat
    BY TermsAreNat DEF TermsOK
  <2> QED BY <1>1, <2>2, <2>3, <2>4, <2>5, TermsFall
<1>4. CASE DropTx \/ Join \/ StreamEnds
  <2>1. UNCHANGED <<ToMake, ToStart, ToEnd, Unpolled, Unended>>
    BY <1>4 DEF DropTx, Join, StreamEnds, ToMake, ToStart, ToEnd
  <2>2. Ahead' < Ahead /\ Ahead' <= Ahead
    BY <1>4 DEF DropTx, Join, StreamEnds
  <2> HIDE DEF Unpolled, Unended, Ahead
  <2> QED BY <1>1, <2>1, <2>2, TermsFall
<1>5. CASE PollFuture
  <2>1. UNCHANGED <<Unpolled, Unended, Ahead>>
    BY <1>5 DEF PollFuture
  <2>2. \/ ToStart' < ToStart /\ UNCHANGED <<ToMake, ToEnd>>
        \/ ToEnd' < ToEnd /\ UNCHANGED <<ToMake, ToStart>>
    BY <1>5, StartCounts, EndCounts DEF PollFuture
  <2> HIDE DEF Unpolled, Unended, Ahead
  <2>3. Ahead \in Nat /\ ToEnd' \in Nat /\ ToStart' \in Nat
    BY TermsAreNat, TermsStayNat DEF TermsOK
  <2> QED BY <1>1, <2>1, <2>2, <2>3, TermsFall
<1>6. ASSUME NEW w \in Workers, PollWorker(w) \/ RecvErr(w) PROVE ToDo' \in Nat /\ ToDo > ToDo'
  <2>1. UNCHANGED <<ToMake, ToStart, ToEnd, Ahead>>
    BY <1>6 DEF PollWorker, RecvErr, Goes, ToMake, ToStart, ToEnd
  <2>2. /\ Unpolled' \subseteq Unpolled /\ Unended' \subseteq Unended
        /\ Unpolled' # Unpolled \/ Unended' # Unended
    <3>1. CASE worker[w] = "ready" /\ worker' = [worker EXCEPT ![w] = "recv"]
      <4>1. w \in Unpolled /\ w \notin Unpolled'
        BY <1>2, <3>1
      <4> QED BY <1>2, <3>1, <4>1
    <3>2. CASE worker[w] = "recv" /\ worker' = [worker EXCEPT ![w] = "ended"]
      <4>1. w \in Unended /\ w \notin Unended'
        BY <1>2, <3>2
      <4> QED BY <1>2, <3>2, <4>1
    <3> QED BY <1>6, <3>1, <3>2 DEF PollWorker, RecvErr, Goes
  <2> HIDE DEF Unpolled, Unended, Ahead
  <2>3. Ahead \in Nat
    BY TermsAreNat DEF TermsOK
  <2> QED BY <1>1, <2>1, <2>2, <2>3, TermsFall
<1>7. ASSUME NEW w \in Workers, RecvJob(w) \/ FinishJob(w) PROVE ToDo' \in Nat /\ ToDo > ToDo'
  <2>1. UNCHANGED <<Unpolled, Unended, Ahead>>
    <3>1. /\ worker[w] \in {"recv", "running"} /\ main' = main
          /\ \/ worker' = [worker EXCEPT ![w] = "recv"]
             \/ worker' = [worker EXCEPT ![w] = "running"]
      BY <1>7 DEF RecvJob, FinishJob, Goes
    <3> QED BY <1>2, <3>1
  <2>2. \/ ToStart' < ToStart /\ UNCHANGED <<ToMake, ToEnd>>
        \/ ToEnd' < ToEnd /\ UNCHANGED <<ToMake, ToStart>>
    BY <1>7, StartCounts, EndCounts DEF RecvJob, FinishJob
  <2> HIDE DEF Unpolled, Unended, Ahead
  <2>3. Ahead \in Nat /\ ToEnd' \in Nat /\ ToStart' \in Nat
    BY TermsAreNat, TermsStayNat DEF TermsOK
  <2> QED BY <1>1, <2>1, <2>2, <2>3, TermsFall
<1> QED BY <1>3, <1>4, <1>5, <1>6, <1>7 DEF WorkerNext, MainStep, ThreadStep

(* Each step leaves less to do.  With JobsNeverStop: whatever the order in   *)
(* which the threads step, either way returns after at most                  *)
(* 3 * JobCount + 2 * Cardinality(Workers) + 2 of them.                      *)
THEOREM JobsRunOut == WorkerSpec => EachStepCounts
<1>1. WorkerInv /\ WorkerInv' /\ [WorkerNext]_jobVars => [ToDo' \in Nat /\ ToDo > ToDo']_jobVars
  BY WorkerCounts
<1>2. WorkerInv /\ [WorkerNext]_jobVars => WorkerInv'
  BY WorkerSteps
<1> QED
  BY WorkerStarts, <1>1, <1>2, PTL DEF WorkerSpec, EachStepCounts

(***************************************************************************)
(* BasicTaskManager.                                                       *)
(***************************************************************************)
\* The inbox is what was sent and not received, each once; who has been received
\* is on a runtime that is up.
InboxInv ==
  /\ \A i, j \in 1 .. Len(inbox) : inbox[i] = inbox[j] => i = j
  /\ \A s \in Sleeps : sleep[s] = "sent" <=> \E i \in 1 .. Len(inbox) : inbox[i] = s
  /\ inbox # <<>> => thread \in {"building", "recv"}

ThreadInv ==
  /\ thread \in {"shutdown", "exited"} => ~alive
  /\ \A s \in Sleeps : sleep[s] \in {"spawned", "started"} => thread \in {"recv", "shutdown"}
  /\ \A s \in Sleeps : sleep[s] = "lost" => thread \in {"exited", "failed"}

BasicInv == BasicTypeOK /\ InboxInv /\ ThreadInv

LEMMA BasicStarts == BasicInit => BasicInv
  BY DEF BasicInit, BasicInv, BasicTypeOK, InboxInv, ThreadInv

LEMMA BasicSteps == BasicInv /\ [BasicNext]_basicVars => BasicInv'
<1> SUFFICES ASSUME BasicInv, [BasicNext]_basicVars PROVE BasicInv'
  OBVIOUS
<1> USE DEF BasicInv
<1>0. inbox \in Seq(Sleeps) /\ Len(inbox) \in Nat
  BY DEF BasicTypeOK
<1>1. ASSUME NEW s \in Sleeps, SpawnSleep(s) PROVE BasicInv'
  <2>1. alive /\ sleep[s] = "unsent" /\ UNCHANGED <<alive, thread>>
    BY <1>1 DEF SpawnSleep, Becomes
  <2>2. CASE thread = "failed"
    BY <1>1, <2>2 DEF SpawnSleep, Becomes, BasicTypeOK, InboxInv, ThreadInv
  <2>3. CASE thread # "failed"
    <3>1. sleep' = [sleep EXCEPT ![s] = "sent"] /\ inbox' = Append(inbox, s)
      BY <1>1, <2>3 DEF SpawnSleep, Becomes
    <3>2. /\ inbox' \in Seq(Sleeps) /\ Len(inbox') = Len(inbox) + 1
          /\ \A i \in 1 .. Len(inbox) : inbox'[i] = inbox[i]
          /\ inbox'[Len(inbox) + 1] = s
      BY <1>0, <3>1
    <3>3. BasicTypeOK' /\ ThreadInv'
      BY <2>1, <3>1, <3>2 DEF BasicTypeOK, ThreadInv
    <3>4. \A i \in 1 .. Len(inbox) : inbox[i] # s
      BY <2>1, <1>0 DEF InboxInv
    <3>5. InboxInv'
      <4>1. \A i, j \in 1 .. Len(inbox') : inbox'[i] = inbox'[j] => i = j
        BY <1>0, <3>2, <3>4 DEF InboxInv
      <4>2. ASSUME NEW r \in Sleeps
            PROVE  sleep'[r] = "sent" <=> \E i \in 1 .. Len(inbox') : inbox'[i] = r
        BY <1>0, <3>1, <3>2 DEF InboxInv, BasicTypeOK
      <4>3. thread' \in {"building", "recv"}
        BY <2>1, <2>3 DEF ThreadInv, BasicTypeOK
      <4> QED BY <4>1, <4>2, <4>3 DEF InboxInv
    <3> QED BY <3>3, <3>5
  <2> QED BY <2>2, <2>3
<1>2. CASE DropBasic
  <2>1. BasicTypeOK'
    BY <1>2 DEF DropBasic, BasicTypeOK
  <2> QED BY <1>2, <2>1 DEF DropBasic, InboxInv, ThreadInv
<1>3. CASE BuildBasic
  <2>1. BasicTypeOK'
    <3>1. (inbox' = inbox \/ inbox' = <<>>) /\ thread' \in {"recv", "failed"} /\ alive' = alive
      BY <1>3 DEF BuildBasic
    <3>2. <<>> \in Seq(Sleeps)
      OBVIOUS
    <3>3. sleep' = sleep \/ LoseAll
      BY <1>3 DEF BuildBasic
    <3> QED BY <3>1, <3>2, <3>3 DEF LoseAll, BasicTypeOK
  <2>2. CASE thread' = "recv" /\ UNCHANGED <<inbox, sleep>>
    BY <1>3, <2>1, <2>2 DEF BuildBasic, InboxInv, ThreadInv
  <2>3. CASE thread' = "failed" /\ inbox' = <<>> /\ LoseAll
    <3>1. Len(inbox') = 0 /\ \A s \in Sleeps : sleep'[s] \notin {"sent", "spawned", "started"}
      BY <2>3 DEF LoseAll
    <3> QED BY <2>1, <2>3, <3>1 DEF InboxInv, ThreadInv
  <2> QED BY <1>3, <2>2, <2>3 DEF BuildBasic
<1>4. CASE RecvSleep
  <2>1. /\ thread = "recv" /\ inbox # <<>> /\ inbox' = Tail(inbox)
        /\ sleep' = [sleep EXCEPT ![Head(inbox)] = "spawned"]
        /\ UNCHANGED <<alive, thread>>
    BY <1>4 DEF RecvSleep, Becomes
  <2>2. /\ Head(inbox) \in Sleeps /\ Head(inbox) = inbox[1]
        /\ inbox' \in Seq(Sleeps) /\ Len(inbox') = Len(inbox) - 1
        /\ \A i \in 1 .. Len(inbox') : inbox'[i] = inbox[i + 1]
        /\ Len(inbox) >= 1
    BY <1>0, <2>1
  <2>3. BasicTypeOK' /\ ThreadInv'
    BY <2>1, <2>2 DEF BasicTypeOK, ThreadInv
  <2>4. \A i, j \in 1 .. Len(inbox') : inbox'[i] = inbox'[j] => i = j
    BY <1>0, <2>2 DEF InboxInv
  <2>5. ASSUME NEW r \in Sleeps
        PROVE  sleep'[r] = "sent" <=> \E i \in 1 .. Len(inbox') : inbox'[i] = r
    <3>1. CASE r = inbox[1]
      BY <1>0, <2>1, <2>2, <3>1 DEF InboxInv, BasicTypeOK
    <3>2. CASE r # inbox[1]
      <4>1. sleep'[r] = sleep[r]
        BY <2>1, <2>2, <3>2 DEF BasicTypeOK
      <4>2. (\E i \in 1 .. Len(inbox) : inbox[i] = r) <=> \E i \in 1 .. Len(inbox') : inbox'[i] = r
        <5>1. ASSUME NEW i \in 1 .. Len(inbox), inbox[i] = r PROVE \E k \in 1 .. Len(inbox') : inbox'[k] = r
          <6>1. i - 1 \in 1 .. Len(inbox') /\ inbox'[i - 1] = r
            BY <1>0, <2>2, <3>2, <5>1
          <6> QED BY <6>1
        <5>2. ASSUME NEW i \in 1 .. Len(inbox'), inbox'[i] = r PROVE \E k \in 1 .. Len(inbox) : inbox[k] = r
          <6>1. i + 1 \in 1 .. Len(inbox) /\ inbox[i + 1] = r
            BY <1>0, <2>2, <5>2
          <6> QED BY <6>1
        <5> QED BY <5>1, <5>2
      <4> QED BY <4>1, <4>2 DEF InboxInv
    <3> QED BY <3>1, <3>2
  <2> QED BY <2>1, <2>3, <2>4, <2>5 DEF InboxInv
<1>5. CASE RecvEnd
  BY <1>5 DEF RecvEnd, BasicTypeOK, InboxInv, ThreadInv
<1>6. CASE Shutdown
  BY <1>6 DEF Shutdown, LoseAll, BasicTypeOK, InboxInv, ThreadInv
<1>7. ASSUME NEW s \in Sleeps, SleepStep(s) PROVE BasicInv'
  BY <1>7 DEF SleepStep, Becomes, BasicTypeOK, InboxInv, ThreadInv
<1>8. CASE UNCHANGED basicVars
  BY <1>8 DEF basicVars, BasicTypeOK, InboxInv, ThreadInv
<1> QED
  BY <1>1, <1>2, <1>3, <1>4, <1>5, <1>6, <1>7, <1>8 DEF BasicNext, ThreadGoes

(* An accepted task has the thread or the runtime before it that will bring  *)
(* it on, with the one that is received next accepted and not received, and  *)
(* is lost for the two reasons only: drop, and a runtime that was not built. *)
AcceptedIsKept ==
  \A s \in Sleeps :
    /\ sleep[s] = "sent" =>
         thread = "building" \/ (thread = "recv" /\ inbox # <<>> /\ sleep[Head(inbox)] = "sent")
    /\ sleep[s] \in {"spawned", "started"} => thread \in {"recv", "shutdown"}
    /\ sleep[s] = "lost" => ~alive \/ thread = "failed"

(* No accepted task is forgotten: until it ends it is in the channel of a    *)
(* thread that will receive it, or on a runtime that is up, and it is lost   *)
(* only with the manager dropped or its thread without a runtime.            *)
THEOREM AcceptedAreKept == BasicSpec => []AcceptedIsKept
<1>1. BasicInv => AcceptedIsKept
  <2> SUFFICES ASSUME BasicInv, NEW s \in Sleeps
               PROVE  sleep[s] = "sent" => inbox # <<>> /\ sleep[Head(inbox)] = "sent"
    BY DEF BasicInv, InboxInv, ThreadInv, AcceptedIsKept
  <2>1. inbox \in Seq(Sleeps)
    BY DEF BasicInv, BasicTypeOK
  <2>2. inbox # <<>> => Head(inbox) \in Sleeps /\ Head(inbox) = inbox[1] /\ 1 \in 1 .. Len(inbox)
    BY <2>1
  <2> QED BY <2>1, <2>2 DEF BasicInv, InboxInv
<1> QED BY BasicStarts, BasicSteps, <1>1, PTL DEF BasicSpec

(***************************************************************************)
(* The crates together, as the run has them.                               *)
(***************************************************************************)
CratesInv == PoolInv /\ CacheInv /\ ConfigInv /\ WorkerInv /\ BasicInv

LEMMA CratesStart == Init => CratesInv /\ AtMostOne!BoundedInit
  BY PoolStarts, CacheStarts, ConfigStarts, WorkerStarts, BasicStarts DEF Init, CratesInv

\* A step of one of them leaves the others as they are.
LEMMA CratesGo ==
  [Next]_vars => /\ [PoolNext]_poolVars /\ [CacheNext]_cacheVars /\ [ConfigNext]_configVars
                 /\ [WorkerNext]_jobVars /\ [BasicNext]_basicVars
<1> SUFFICES ASSUME [Next]_vars
             PROVE  /\ PoolNext \/ UNCHANGED poolVars
                    /\ CacheNext \/ UNCHANGED cacheVars
                    /\ ConfigNext \/ UNCHANGED configVars
                    /\ WorkerNext \/ UNCHANGED jobVars
                    /\ BasicNext \/ UNCHANGED basicVars
  OBVIOUS
<1>1. CASE Next
  BY <1>1 DEF Next, RunPool, RunCache, RunConfig, RunJobs, RunBasic
<1>2. CASE UNCHANGED vars
  BY <1>2 DEF vars
<1> QED BY <1>1, <1>2

LEMMA CratesStep ==
  CratesInv /\ [Next]_vars => CratesInv' /\ [AtMostOne!BoundedNext]_(AtMostOne!bounded)
  BY CratesGo, PoolSteps, CacheSteps, ConfigSteps, WorkerSteps, BasicSteps DEF CratesInv

(* The variables of all five keep to their types.                            *)
THEOREM CratesAreTyped == Spec => []TypeOK
<1>1. CratesInv => TypeOK
  BY DEF CratesInv, PoolInv, CacheInv, ConfigInv, WorkerInv, BasicInv, TypeOK
<1> QED BY CratesStart, CratesStep, <1>1, PTL DEF Spec

(* What the run checks of the five on a few tests, columns and jobs they do  *)
(* for any number of them, each module's promise next to the others'.        *)
THEOREM CratesAreSafe ==
  Spec => /\ [](FixedNeverTimesOut /\ OneTypeNeverFails /\ ContentIsCurrent)
          /\ TimesOutOnDead
          /\ ImplementsBoundedJobs
<1>1. CratesInv => FixedNeverTimesOut /\ OneTypeNeverFails /\ ContentIsCurrent
  BY DEF CratesInv, PoolInv, CacheInv, ConfigInv
<1>2. CratesInv /\ [Next]_vars =>
        [\A t \in Tests : test'[t] = "timed_out" /\ test[t] # "timed_out" =>
           \E c \in Conns : home[c] # Nobody /\ home[c] \notin up]_poolVars
  BY OnlyOnDead, CratesGo DEF CratesInv
<1>3. Spec => [](FixedNeverTimesOut /\ OneTypeNeverFails /\ ContentIsCurrent)
  BY CratesStart, CratesStep, <1>1, PTL DEF Spec
<1>4. Spec => TimesOutOnDead
  BY CratesStart, CratesStep, <1>2, PTL DEF Spec, TimesOutOnDead
<1>5. Spec => AtMostOne!BoundedInit /\ [][AtMostOne!BoundedNext]_(AtMostOne!bounded)
  BY CratesStart, CratesStep, PTL DEF Spec
<1>6. Spec => ImplementsBoundedJobs
  BY <1>5, PTL DEF ImplementsBoundedJobs, AtMostOne!BoundedSpec
<1> QED BY <1>3, <1>4, <1>6
===============================================================================
