------------------------------ MODULE Scheduler ------------------------------
(***************************************************************************)
(* The Scheduler of parameter_injection: resources kept by type, and       *)
(* systems whose parameters are looked up among them, one by one, each     *)
(* time they run.  A system is known by the list of its parameters.        *)
(***************************************************************************)
EXTENDS Naturals, Sequences

CONSTANTS
  ResTypes,     \* the types of resources; "u32" is one of them
  Values,       \* what a resource holds
  Absent,       \* no resource
  Systems,      \* what add_system is called with: lists of types
  MaxSystems    \* bound: how many systems are added

FromU32 == "FromU32"   \* FromU32<u64>, the one SystemParam

ASSUME SchedulerAssumption ==
  /\ "u32" \in ResTypes
  /\ FromU32 \notin ResTypes
  /\ Absent \notin Values
  /\ Systems \subseteq Seq(ResTypes)
  /\ MaxSystems \in Nat

VARIABLES
  resources,   \* resources[T]: what TypeId::of::<T>() maps to
  systems,     \* those added, in order
  phase,       \* of the last run: "none", "running", "returned", "panicked"
  loop,        \* the systems that the run is over: all, or one for run2
  at,          \* the one that is next
  params,      \* its parameters so far
  calls        \* the calls of this run: the number of the system, and its arguments

schedulerVars == <<resources, systems, phase, loop, at, params, calls>>

\* The functions of run2 take SystemParams.
Systems2 == {<<>>, <<FromU32>>, <<FromU32, FromU32>>}

SchedulerTypeOK ==
  /\ resources \in [ResTypes -> Values \cup {Absent}]
  /\ systems \in Seq(Systems)
  /\ Len(systems) <= MaxSystems
  /\ phase \in {"none", "running", "returned", "panicked"}
  /\ loop \in Seq(Systems \cup Systems2)
  /\ at \in 1 .. Len(loop) + 1
  /\ params \in Seq(Values)
  /\ calls \subseteq (1 .. Len(loop)) \X Seq(Values)

SchedulerInit ==
  /\ resources = [T \in ResTypes |-> Absent]
  /\ systems = <<>>
  /\ phase = "none"
  /\ loop = <<>>
  /\ at = 1
  /\ params = <<>>
  /\ calls = {}

\* resources.get(..).and_then(downcast_ref), which cannot fail on what
\* add_resource put there; FromU32<u64> widens the u32.
Retrieve(p) == resources[IF p = FromU32 THEN "u32" ELSE p]

AddResource(T, v) ==
  /\ phase # "running"
  /\ resources' = [resources EXCEPT ![T] = v]
  /\ UNCHANGED <<systems, phase, loop, at, params, calls>>

AddSystem(s) ==
  /\ phase # "running"
  /\ Len(systems) < MaxSystems
  /\ systems' = Append(systems, s)
  /\ UNCHANGED <<resources, phase, loop, at, params, calls>>

Begins(list) ==
  /\ phase # "running"
  /\ phase' = "running"
  /\ loop' = list
  /\ at' = 1
  /\ params' = <<>>
  /\ calls' = {}
  /\ UNCHANGED <<resources, systems>>

RunAll == Begins(systems)
Run2(s) == Begins(<<s>>)

Running == phase = "running" /\ at <= Len(loop)

\* let Some(i) = .. : the next parameter is there.
TakeParam ==
  /\ Running
  /\ Len(params) < Len(loop[at])
  /\ Retrieve(loop[at][Len(params) + 1]) # Absent
  /\ params' = Append(params, Retrieve(loop[at][Len(params) + 1]))
  /\ UNCHANGED <<resources, systems, phase, loop, at, calls>>

NextSystem == at' = at + 1 /\ params' = <<>>

MissEndsRun ==   \* mutant: the run is over with the first system that lacks something
  /\ Running
  /\ Len(params) < Len(loop[at])
  /\ Retrieve(loop[at][Len(params) + 1]) = Absent
  /\ phase' = "returned"
  /\ UNCHANGED <<resources, systems, loop, at, params, calls>>

\* else { return; } : out of the system, and on with the loop.
MissParam ==
  /\ Running
  /\ Len(params) < Len(loop[at])
  /\ Retrieve(loop[at][Len(params) + 1]) = Absent
  /\ NextSystem
  /\ UNCHANGED <<resources, systems, phase, loop, calls>>

\* (self.f)(..), which returns or panics; a panic unwinds out of run.
CallSystem ==
  /\ Running
  /\ Len(params) = Len(loop[at])
  /\ calls' = calls \cup {<<at, params>>}
  /\ \/ NextSystem /\ phase' = phase
     \/ phase' = "panicked" /\ UNCHANGED <<at, params>>
  /\ UNCHANGED <<resources, systems, loop>>

EndRun ==
  /\ phase = "running"
  /\ at > Len(loop)
  /\ phase' = "returned"
  /\ UNCHANGED <<resources, systems, loop, at, params, calls>>

SchedulerNext ==
  \/ \E T \in ResTypes, v \in Values : AddResource(T, v)
  \/ \E s \in Systems : AddSystem(s)
  \/ RunAll
  \/ \E s \in Systems2 : Run2(s)
  \/ TakeParam \/ MissParam \/ CallSystem \/ EndRun

SchedulerSpec == SchedulerInit /\ [][SchedulerNext]_schedulerVars
-------------------------------------------------------------------------------
Complete(i) == \A k \in DOMAIN loop[i] : Retrieve(loop[i][k]) # Absent
Arguments(i) == [k \in DOMAIN loop[i] |-> Retrieve(loop[i][k])]

(* When a run returns, it has called each system with all its parameters     *)
(* present, once, with what the resources hold, and no other: a parameter    *)
(* that is missing costs that system its call, and none of those after it.   *)
(* After a panic this is so of the systems before the one that panicked.     *)
CallsBefore(n) == {<<i, Arguments(i)>> : i \in {j \in 1 .. n : Complete(j)}}

RunIsExact ==
  [][/\ phase' = "returned" /\ phase = "running" => calls = CallsBefore(Len(loop))
     /\ phase' = "panicked" /\ phase = "running" => calls' = CallsBefore(at)]_schedulerVars
==============================================================================
