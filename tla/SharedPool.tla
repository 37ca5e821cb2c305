------------------------------ MODULE SharedPool ------------------------------
(***************************************************************************)
(* sqlx_share_connection_between_tests: tests share one pool of database   *)
(* connections through a OnceCell.  Under #[tokio::test] (lib.rs) each     *)
(* test has a runtime of its own; under run_test (fixed.rs) all run on one *)
(* that is never dropped.  A connection works as long as the runtime that  *)
(* opened it is up: its socket is registered with that runtime's driver.   *)
(***************************************************************************)
EXTENDS Naturals

CONSTANTS
  Tests,     \* the test functions, each on its own thread
  PgTests,   \* those that go on to call mm.pg()
  Conns,     \* max_connections, one element for each
  Static,    \* the runtime RT of fixed.rs
  Nobody     \* no test, no runtime

ASSUME PoolAssumption ==
  /\ PgTests \subseteq Tests
  /\ Static \notin Tests
  /\ Nobody \notin Tests \cup {Static}
  /\ Conns # {}
  /\ Tests \cap {"unset", "empty", "set", "poisoned"} = {}

VARIABLES
  fixed,   \* the tests are those of fixed.rs
  lazy,    \* RT: "unset", the test that runs its closure, "set" or "poisoned"
  cell,    \* INIT: "empty", the test that runs its closure, or "set"
  up,      \* the runtimes that are up
  home,    \* home[c]: the runtime that opened c, if c is open
  user,    \* user[c]: the test that has c
  test     \* test[t]: where the test stands

poolVars == <<fixed, lazy, cell, up, home, user, test>>

Runtimes == Tests \cup {Static}
RtOfOwn(t) == t   \* mutant: run_test builds a runtime for each test
RtOf(t) == IF fixed THEN Static ELSE t
Over == {"done", "timed_out", "panicked"}

PoolTypeOK ==
  /\ fixed \in BOOLEAN
  /\ lazy \in {"unset", "set", "poisoned"} \cup Tests
  /\ cell \in {"empty", "set"} \cup Tests
  /\ up \in SUBSET Runtimes
  /\ home \in [Conns -> Runtimes \cup {Nobody}]
  /\ user \in [Conns -> Tests \cup {Nobody}]
  /\ test \in [Tests -> {"idle", "lazy", "init", "connect", "acquire", "ping",
                         "finishing"} \cup Over]

PoolInit ==
  /\ fixed \in BOOLEAN
  /\ lazy = "unset"
  /\ cell = "empty"
  /\ up = {}
  /\ home = [c \in Conns |-> Nobody]
  /\ user = [c \in Conns |-> Nobody]
  /\ test = [t \in Tests |-> "idle"]

Stands(t, at) == test[t] = at
Moves(t, to) == test' = [test EXCEPT ![t] = to]

\* The test is over, one way or another: its own runtime is dropped, and with
\* it the task that would have returned a connection, which is closed.
Ends(t, how) ==
  /\ Moves(t, how)
  /\ IF fixed
       THEN UNCHANGED <<up, home, user>>
       ELSE /\ up' = up \ {t}
            /\ home' = [c \in Conns |-> IF user[c] = t THEN Nobody ELSE home[c]]
            /\ user' = [c \in Conns |-> IF user[c] = t THEN Nobody ELSE user[c]]

Start(t) ==
  /\ Stands(t, "idle")
  /\ Moves(t, IF fixed THEN "lazy" ELSE "init")
  /\ up' = IF fixed THEN up ELSE up \cup {t}
  /\ UNCHANGED <<fixed, lazy, cell, home, user>>

\* test_rt: the first caller runs the closure of RT, which builds the runtime
\* and awaits init_test on it; the others block until it has ended.
BuildRt(t) ==
  /\ Stands(t, "lazy")
  /\ lazy = "unset"
  /\ lazy' = t
  /\ up' = up \cup {Static}
  /\ Moves(t, "init")
  /\ UNCHANGED <<fixed, cell, home, user>>

ReadRt(t) ==
  /\ Stands(t, "lazy")
  /\ \/ lazy = "set" /\ Moves(t, "init")
     \/ lazy = "poisoned" /\ Moves(t, "panicked")
  /\ UNCHANGED <<fixed, lazy, cell, up, home, user>>

\* init_test returns: to the closure of RT, or to the test.
Initialised(t) ==
  IF lazy = t
    THEN lazy' = "set" /\ Moves(t, "init")
    ELSE lazy' = lazy /\ Moves(t, IF t \in PgTests THEN "acquire" ELSE "finishing")

GetCell(t) ==
  /\ Stands(t, "init")
  /\ cell = "set"
  /\ Initialised(t)
  /\ UNCHANGED <<fixed, cell, up, home, user>>

\* get_or_init: one test runs the closure, the others wait for its permit.
InitCell(t) ==
  /\ Stands(t, "init")
  /\ cell = "empty"
  /\ cell' = t
  /\ Moves(t, "connect")
  /\ UNCHANGED <<fixed, lazy, up, home, user>>

\* ModelManager::new: the pool is made, and its first connection with it.
Connect(t, c) ==
  /\ Stands(t, "connect")
  /\ cell' = "set"
  /\ home' = [home EXCEPT ![c] = RtOf(t)]
  /\ Initialised(t)
  /\ UNCHANGED <<fixed, up, user>>

\* connect().await.unwrap() panics: the permit of the cell is free again; a
\* panic in RT's closure poisons RT for ever, and drops the runtime in it.
ConnectFails(t) ==
  /\ Stands(t, "connect")
  /\ cell' = "empty"
  /\ lazy' = IF lazy = t THEN "poisoned" ELSE lazy
  /\ Moves(t, "panicked")
  /\ up' = up \ {RtOf(t)}
  /\ UNCHANGED <<fixed, home, user>>

\* acquire takes an idle connection, which it will ping ...
TakeIdle(t, c) ==
  /\ Stands(t, "acquire")
  /\ home[c] # Nobody
  /\ user[c] = Nobody
  /\ user' = [user EXCEPT ![c] = t]
  /\ Moves(t, "ping")
  /\ UNCHANGED <<fixed, lazy, cell, up, home>>

\* ... or, with none idle and room for one more, opens one on this runtime.
Open(t, c) ==
  /\ Stands(t, "acquire")
  /\ \A d \in Conns : home[d] # Nobody => user[d] # Nobody
  /\ home[c] = Nobody
  /\ home' = [home EXCEPT ![c] = RtOf(t)]
  /\ user' = [user EXCEPT ![c] = t]
  /\ Moves(t, "finishing")
  /\ UNCHANGED <<fixed, lazy, cell, up>>

Pinged(t, c) ==
  /\ Stands(t, "ping")
  /\ user[c] = t
  /\ home[c] \in up
  /\ Moves(t, "finishing")
  /\ UNCHANGED <<fixed, lazy, cell, up, home, user>>

\* A runtime of one thread runs its tasks while some test is in its block_on.
Driven(rt) ==
  /\ rt \in up
  /\ \E t \in Tests : RtOf(t) = rt /\ test[t] \notin {"idle", "lazy"} \cup Over

CanReturnNever(c) == FALSE   \* mutant: acquired, and leaked

\* The connection, dropped at once by pg(), goes back to the pool by a task on
\* the runtime of the test.
CanReturn(c) ==
  /\ user[c] # Nobody
  /\ test[user[c]] \in {"finishing"} \cup Over
  /\ Driven(RtOf(user[c]))

Return(c) ==
  /\ CanReturn(c)
  /\ user' = [user EXCEPT ![c] = Nobody]
  /\ UNCHANGED <<fixed, lazy, cell, up, home, test>>

\* A connection that gives no answer, or that nobody will return.
Hung(c) ==
  /\ user[c] # Nobody
  /\ home[c] \notin up \/ (test[user[c]] \in Over /\ ~CanReturn(c))

TimesOutNever(t) == FALSE /\ UNCHANGED poolVars   \* mutant: no acquire_timeout

\* acquire_timeout: unwrap panics on PoolTimedOut.
TimesOut(t) ==
  /\ \/ /\ Stands(t, "ping")
        /\ \E c \in Conns : user[c] = t /\ home[c] \notin up
     \/ /\ Stands(t, "acquire")
        /\ \A c \in Conns : Hung(c)
  /\ Ends(t, "timed_out")
  /\ UNCHANGED <<fixed, lazy, cell>>

Finish(t) ==
  /\ Stands(t, "finishing")
  /\ Ends(t, "done")
  /\ UNCHANGED <<fixed, lazy, cell>>

PoolStep(t) ==
  \/ BuildRt(t) \/ ReadRt(t)
  \/ GetCell(t) \/ InitCell(t)
  \/ ConnectFails(t)
  \/ \E c \in Conns : Connect(t, c) \/ TakeIdle(t, c) \/ Open(t, c) \/ Pinged(t, c)
  \/ TimesOut(t)
  \/ Finish(t)

PoolNext ==
  \/ \E t \in Tests : Start(t) \/ PoolStep(t)
  \/ \E c \in Conns : Return(c)

\* The threads and runtimes go on; which tests are run is up to the harness.
PoolFairness ==
  /\ \A t \in Tests : WF_poolVars(PoolStep(t))
  /\ \A c \in Conns : WF_poolVars(Return(c))

PoolSpec == PoolInit /\ [][PoolNext]_poolVars /\ PoolFairness
-------------------------------------------------------------------------------
(* What fixed.rs is for: on one runtime that stays up no acquire times out,  *)
(* whichever test comes first, and however many open connections.            *)
FixedNeverTimesOut == fixed => \A t \in Tests : test[t] # "timed_out"

(* An acquire times out only with a connection in the pool whose runtime has *)
(* been dropped: not for want of connections, with every permit returned.    *)
TimesOutOnDead ==
  [][\A t \in Tests : test'[t] = "timed_out" /\ test[t] # "timed_out" =>
       \E c \in Conns : home[c] # Nobody /\ home[c] \notin up]_poolVars

(* Every test that is started ends: neither the OnceCell, with a closure     *)
(* that panics, nor the LazyLock around it, nor a connection that gives no   *)
(* answer keeps a test waiting for ever.                                     *)
EveryTestEnds ==
  \A t \in Tests : test[t] # "idle" ~> test[t] \in Over
===============================================================================
