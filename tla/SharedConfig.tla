----------------------------- MODULE SharedConfig -----------------------------
(***************************************************************************)
(* App1 and App2 of arc_swap_usage with the loop of their tests: job after *)
(* job is handed to a thread of its own, which reads the configuration     *)
(* when it gets to it; now and then the configuration is replaced first.   *)
(* App1 has it behind an RwLock, App2 in an ArcSwap.  A configuration is   *)
(* known by the job before which it was stored.                            *)
(***************************************************************************)
EXTENDS Integers

CONSTANTS
  Data,    \* the loop runs over 0 .. Data - 1
  Every    \* how many jobs there are between two updates

ASSUME ConfigAssumption == Data \in Nat /\ Every \in Nat \ {0}

VARIABLES
  app,       \* "App1" or "App2"
  data,      \* the job that the loop is at
  updated,   \* update_config has returned for this job
  config,    \* the configuration that a read would find; -1 is the default
  reader,    \* reader[d]: where the thread of the job d stands
  content    \* content[d]: the configuration it has read

configVars == <<app, data, updated, config, reader, content>>

ConfigTypeOK ==
  /\ app \in {"App1", "App2"}
  /\ data \in 0 .. Data
  /\ updated \in BOOLEAN
  /\ config \in -1 .. Data - 1
  /\ reader \in [0 .. Data - 1 -> {"none", "spawned", "guarded", "working", "ended"}]
  /\ content \in [0 .. Data - 1 -> -1 .. Data - 1]

ConfigInit ==
  /\ app \in {"App1", "App2"}
  /\ data = 0
  /\ updated = FALSE
  /\ config = -1
  /\ reader = [d \in 0 .. Data - 1 |-> "none"]
  /\ content = [d \in 0 .. Data - 1 |-> -1]

Due(d) == d % Every = 0

GuardsAtWork ==   \* mutant: the guard lives as long as the job
  {d \in 0 .. Data - 1 : reader[d] \in {"guarded", "working"}}

\* The threads that hold a guard of App1's lock: for one statement only.
Guards == {d \in 0 .. Data - 1 : reader[d] = "guarded"}

UpdateOnce ==   \* mutant: swapped in only for the one that App2 was made with
  /\ data < Data
  /\ Due(data) /\ ~updated
  /\ app = "App1" => Guards = {}
  /\ config' = IF config = -1 THEN data ELSE config
  /\ updated' = TRUE
  /\ UNCHANGED <<app, data, reader, content>>

\* App1's write() waits until there is no guard; App2's store waits for nobody.
UpdateConfig ==
  /\ data < Data
  /\ Due(data) /\ ~updated
  /\ app = "App1" => Guards = {}
  /\ config' = data
  /\ updated' = TRUE
  /\ UNCHANGED <<app, data, reader, content>>

\* handle: a thread is spawned with a clone of the Arc around lock or ArcSwap.
Handle ==
  /\ data < Data
  /\ Due(data) => updated
  /\ reader' = [reader EXCEPT ![data] = "spawned"]
  /\ data' = data + 1
  /\ updated' = FALSE
  /\ UNCHANGED <<app, config, content>>

ReaderGoes(d, from, to) ==
  /\ reader[d] = from
  /\ reader' = [reader EXCEPT ![d] = to]
  /\ UNCHANGED <<app, data, updated, config>>

\* config.read(): the writer holds the lock for no longer than its step.
ReadGuard(d) ==
  /\ app = "App1"
  /\ ReaderGoes(d, "spawned", "guarded")
  /\ UNCHANGED content

\* .clone(), after which the guard is dropped, or load_full().
TakeContent(d) ==
  /\ ReaderGoes(d, IF app = "App1" THEN "guarded" ELSE "spawned", "working")
  /\ content' = [content EXCEPT ![d] = config]

FinishWork(d) == ReaderGoes(d, "working", "ended") /\ UNCHANGED content

LoopStep == UpdateConfig \/ Handle
ReaderStep(d) == ReadGuard(d) \/ TakeContent(d) \/ FinishWork(d)

ConfigNext == LoopStep \/ \E d \in 0 .. Data - 1 : ReaderStep(d)

\* The threads run, but a job may take as long as it likes.
ConfigFairness ==
  /\ WF_configVars(LoopStep)
  /\ \A d \in 0 .. Data - 1 : WF_configVars(ReadGuard(d) \/ TakeContent(d))

ConfigSpec == ConfigInit /\ [][ConfigNext]_configVars /\ ConfigFairness
-------------------------------------------------------------------------------
(* "before that, the config String is shared through Arc::clone, and after   *)
(* that, new config starts its show": no job runs with a configuration that  *)
(* had been replaced when the job was handed over, nor with one that is not  *)
(* stored yet.                                                               *)
ContentIsCurrent ==
  \A d \in 0 .. Data - 1 : reader[d] \in {"working", "ended"} =>
    /\ \A e \in 0 .. d : Due(e) => e <= content[d]
    /\ content[d] <= config

(* Jobs that never end do not keep an update waiting, under either lock.     *)
LoopEnds == <>(data = Data)
===============================================================================
