------------------------------ MODULE TauriState ------------------------------
(***************************************************************************)
(* tauri_state_not_drop_bug: how often State is dropped, in each of the    *)
(* four tests.  cargo test runs the tests of a crate as threads of one     *)
(* process, which the exit(0) of one of them ends for all.                 *)
(***************************************************************************)
EXTENDS Naturals

CONSTANTS
  TauriTests,   \* the tests that the process runs, of "test1" to "test4"
  NoTest        \* no test

ASSUME TauriAssumption ==
  /\ TauriTests \subseteq {"test1", "test2", "test3", "test4"}
  /\ NoTest \notin TauriTests

VARIABLES
  stage,     \* stage[t]: where the test stands
  on_exit,   \* on_exit[t]: the callback has not been taken
  strong,    \* strong[t]: the count of the Arc around the State; of test3
  drops,     \* drops[t]: how often State's drop has run
  killer     \* the test that has called std::process::exit

tauriVars == <<stage, on_exit, strong, drops, killer>>

Exiting == TauriTests \ {"test1"}

TauriTypeOK ==
  /\ stage \in [TauriTests -> {"begin", "app", "callback", "decremented", "called", "over"}]
  /\ on_exit \in [TauriTests -> BOOLEAN]
  /\ strong \in [TauriTests -> 0 .. 2]
  /\ drops \in [TauriTests -> 0 .. 2]
  /\ killer \in TauriTests \cup {NoTest}

TauriInit ==
  /\ stage = [t \in TauriTests |-> "begin"]
  /\ on_exit = [t \in TauriTests |-> FALSE]
  /\ strong = [t \in TauriTests |-> 0]
  /\ drops = [t \in TauriTests |-> 0]
  /\ killer = NoTest

Reaches(t, from, to) ==
  /\ killer = NoTest
  /\ stage[t] = from
  /\ stage' = [stage EXCEPT ![t] = to]

DropState(t) == drops' = [drops EXCEPT ![t] = @ + 1]

\* One Arc less: the last one drops the State.
DropArc(t) ==
  /\ strong' = [strong EXCEPT ![t] = @ - 1]
  /\ IF strong[t] = 1 THEN DropState(t) ELSE UNCHANGED drops

\* The app is made; test3 has one Arc in its map and one in the callback.
NewApp(t) ==
  /\ Reaches(t, "begin", "app")
  /\ on_exit' = [on_exit EXCEPT ![t] = TRUE]
  /\ strong' = [strong EXCEPT ![t] = IF t = "test3" THEN 2 ELSE 0]
  /\ UNCHANGED <<drops, killer>>

\* What an app that goes out of scope does with its map and callback.
DropApp(t, from) ==
  /\ Reaches(t, from, "over")
  /\ IF t = "test3" THEN DropArc(t) ELSE DropState(t) /\ UNCHANGED strong
  /\ UNCHANGED <<on_exit, killer>>

EndTest1 == "test1" \in TauriTests /\ DropApp("test1", "app")

\* exit: on_exit.take().unwrap()
TakeCallback(t) ==
  /\ t \in Exiting
  /\ on_exit[t]
  /\ Reaches(t, "app", "callback")
  /\ on_exit' = [on_exit EXCEPT ![t] = FALSE]
  /\ UNCHANGED <<strong, drops, killer>>

\* The callback of test2 does nothing, the one of test4 makes a Box of the
\* pointer and drops it.
CallBack(t) ==
  /\ t \in {"test2", "test4"}
  /\ Reaches(t, "callback", "called")
  /\ IF t = "test4" THEN DropState(t) ELSE UNCHANGED drops
  /\ UNCHANGED <<on_exit, strong, killer>>

\* That of test3: decrement_strong_count, and the drop of from_raw's Arc.
Decrement(t) ==
  /\ t = "test3"
  /\ Reaches(t, "callback", "decremented")
  /\ DropArc(t)
  /\ UNCHANGED <<on_exit, killer>>

ForgetFromRaw(t) ==   \* mutant: into_raw's pointer is not made an Arc again
  /\ Reaches(t, "decremented", "called")
  /\ UNCHANGED <<on_exit, strong, drops, killer>>

DropFromRaw(t) ==
  /\ Reaches(t, "decremented", "called")
  /\ DropArc(t)
  /\ UNCHANGED <<on_exit, killer>>

ExitReturns(t) == DropApp(t, "called")   \* mutant: exit returns to the test

\* std::process::exit(0): no more steps, and nobody's app is dropped.
ProcessExit(t) ==
  /\ Reaches(t, "called", "over")
  /\ killer' = t
  /\ UNCHANGED <<on_exit, strong, drops>>

TauriNext ==
  \/ EndTest1
  \/ \E t \in TauriTests :
       \/ NewApp(t) \/ TakeCallback(t) \/ CallBack(t)
       \/ Decrement(t) \/ DropFromRaw(t) \/ ProcessExit(t)

TauriSpec == TauriInit /\ [][TauriNext]_tauriVars
-------------------------------------------------------------------------------
(* The crate's point, in any order of the tests: no State is dropped twice,  *)
(* though an Arc, or a Box, of one that is gone stays behind in the map; and *)
(* the test that ends the process has dropped its own, unless it is test2,   *)
(* whose is never dropped.                                                   *)
DroppedOnce ==
  /\ \A t \in TauriTests : drops[t] <= 1
  /\ killer # NoTest => drops[killer] = IF killer = "test2" THEN 0 ELSE 1
===============================================================================
