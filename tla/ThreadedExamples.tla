--------------------------- MODULE ThreadedExamples ---------------------------
(***************************************************************************)
(* For TLC: the small crates whose code runs on several threads, each in a *)
(* module of its own.  They share nothing, so a behaviour is one of one of *)
(* them, which Init chooses; the others stay in their initial states.      *)
(***************************************************************************)
EXTENDS SharedPool, StatementCache, WorkerPool, SharedConfig, BasicTaskManager

VARIABLE crate   \* the one that runs

vars == <<crate, poolVars, cacheVars, jobVars, configVars, basicVars>>

Init ==
  /\ crate \in {"pool", "cache", "jobs", "config", "basic"}
  /\ PoolInit /\ (crate # "pool" => ~fixed)
  /\ CacheInit
  /\ WorkerInit /\ (crate # "jobs" => way = "classic")
  /\ ConfigInit /\ (crate # "config" => app = "App1")
  /\ BasicInit

RunPool ==
  /\ crate = "pool"
  /\ PoolNext
  /\ UNCHANGED <<crate, cacheVars, jobVars, configVars, basicVars>>

RunCache ==
  /\ crate = "cache"
  /\ CacheNext
  /\ UNCHANGED <<crate, poolVars, jobVars, configVars, basicVars>>

RunJobs ==
  /\ crate = "jobs"
  /\ WorkerNext
  /\ UNCHANGED <<crate, poolVars, cacheVars, configVars, basicVars>>

RunConfig ==
  /\ crate = "config"
  /\ ConfigNext
  /\ UNCHANGED <<crate, poolVars, cacheVars, jobVars, basicVars>>

RunBasic ==
  /\ crate = "basic"
  /\ BasicNext
  /\ UNCHANGED <<crate, poolVars, cacheVars, jobVars, configVars>>

Next == RunPool \/ RunCache \/ RunJobs \/ RunConfig \/ RunBasic

\* The fairness that the module of the crate asks for, which runs.
Fairness ==
  /\ \A t \in Tests : WF_poolVars(crate = "pool" /\ PoolStep(t))
  /\ \A c \in Conns : WF_poolVars(crate = "pool" /\ Return(c))
  /\ WF_jobVars(crate = "jobs" /\ MainStep)
  /\ WF_jobVars(crate = "jobs" /\ ThreadStep)
  /\ WF_configVars(crate = "config" /\ LoopStep)
  /\ \A d \in 0 .. Data - 1 :
       WF_configVars(crate = "config" /\ (ReadGuard(d) \/ TakeContent(d)))
  /\ WF_basicVars(crate = "basic" /\ ThreadGoes)
  /\ \A s \in Sleeps : WF_basicVars(crate = "basic" /\ SleepStep(s))

Spec == Init /\ [][Next]_vars /\ Fairness
-------------------------------------------------------------------------------
\* The parameter types of prepared statements: an id is compared with integers.
ColumnTypes == [id |-> {"i32", "i64"}, name |-> {"str"}]

(* Type correctness of all of them.                                          *)
TypeOK == PoolTypeOK /\ CacheTypeOK /\ WorkerTypeOK /\ ConfigTypeOK /\ BasicTypeOK

(* ReturnsWithAllDone and LoopEnds, for the behaviours in which they run.    *)
JobsReturn == crate = "jobs" => ReturnsWithAllDone
ConfigLoopEnds == crate = "config" => LoopEnds
===============================================================================
