-------------------------- MODULE SequentialExamples --------------------------
(***************************************************************************)
(* For TLC: the small crates without threads of their own, each in a       *)
(* module of its own.  They share nothing, so a behaviour is one of one of *)
(* them, which Init chooses; the others stay in their initial states.      *)
(***************************************************************************)
EXTENDS Scheduler, TauriState, BorrowKey, KeyedSet

VARIABLE crate   \* the one that runs

vars == <<crate, schedulerVars, tauriVars, deriveVars, keyedVars>>

Init ==
  /\ crate \in {"scheduler", "tauri", "derive", "keyed"}
  /\ SchedulerInit
  /\ TauriInit
  /\ DeriveInit /\ (crate # "derive" => data = "struct" /\ fields = <<>>)
  /\ KeyedInit /\ (crate # "keyed" => impls = TaskContext)

RunScheduler ==
  /\ crate = "scheduler"
  /\ SchedulerNext
  /\ UNCHANGED <<crate, tauriVars, deriveVars, keyedVars>>

RunTauri ==
  /\ crate = "tauri"
  /\ TauriNext
  /\ UNCHANGED <<crate, schedulerVars, deriveVars, keyedVars>>

RunDerive ==
  /\ crate = "derive"
  /\ DeriveNext
  /\ UNCHANGED <<crate, schedulerVars, tauriVars, keyedVars>>

RunKeyed ==
  /\ crate = "keyed"
  /\ KeyedNext
  /\ UNCHANGED <<crate, schedulerVars, tauriVars, deriveVars>>

Next == RunScheduler \/ RunTauri \/ RunDerive \/ RunKeyed

Spec == Init /\ [][Next]_vars
-------------------------------------------------------------------------------
\* Parameters up to two, fields up to three, each with up to two marks.
ParamLists == {<<>>} \cup [1 .. 1 -> ResTypes] \cup [1 .. 2 -> ResTypes]
Marks == {<<>>} \cup [1 .. 1 -> Args] \cup [1 .. 2 -> Args]
Structs == UNION {[1 .. n -> Marks] : n \in 0 .. 3}

\* Three keys in two buckets.  A key may be borrowed as something of another
\* hash, or that is one for two keys.
Strings == [k1 |-> "s1", k2 |-> "s2", k3 |-> "s3"]
Hashes == [k1 |-> 0, k2 |-> 0, k3 |-> 1, s1 |-> 0, s2 |-> 0, s3 |-> 1]
OfOtherHash == [Strings EXCEPT !.k1 = "s3", !.k3 = "s1"]
OneForTwo == [Strings EXCEPT !.k2 = "s1"]
KeyViews == {Strings, OfOtherHash, OneForTwo}

(* Type correctness of all of them.                                          *)
TypeOK == SchedulerTypeOK /\ TauriTypeOK /\ DeriveTypeOK /\ KeyedTypeOK
===============================================================================
