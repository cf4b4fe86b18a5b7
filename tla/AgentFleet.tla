----------------------------- MODULE AgentFleet -----------------------------
(***************************************************************************)
(* What the controller promises about the agents in the cluster, whatever  *)
(* goroutines, calls and failures bring it about.  An agent is made from    *)
(* loads of the configuration that have been applied when it is made; it    *)
(* never changes in place, but goes away entirely before another one takes  *)
(* its name; and the agents that all loads so far ask for in the same way   *)
(* are stopped only while somebody is collecting the agents.               *)
(***************************************************************************)
EXTENDS Naturals

CONSTANTS
  Names,        \* of agents
  LastLoad,
  Leftover,     \* names whose agents are older than all loads
  OldSpec,      \* what such an agent runs
  Asked(_, _, _), \* Asked(n, a, s): loads 1..n can ask a to run s
  Settled(_)    \* Settled(n): names for which loads 1..n ask for the same

VARIABLES
  loads,        \* how many loads have been applied
  fleet,        \* [Names -> [phase, spec]]
  collecting    \* somebody is deleting all agents

vars == <<loads, fleet, collecting>>

Nobody == [phase |-> "absent", spec |-> OldSpec]
Running(spec) == [phase |-> "up", spec |-> spec]

Init ==
  /\ loads = 1
  /\ fleet = [a \in Names |-> IF a \in Leftover THEN Running(OldSpec) ELSE Nobody]
  /\ collecting = FALSE

(* Also the start of a process, whose predecessor may collect its agents.  *)
Load ==
  /\ loads' \in {loads, loads + 1} \cap 1 .. LastLoad
  /\ collecting' \in BOOLEAN
  /\ UNCHANGED fleet

Create(a) ==
  /\ fleet[a].phase = "absent" /\ fleet'[a].phase = "up"
  /\ LET spec == fleet'[a].spec
     IN  Asked(loads, a, spec) /\ fleet' = [fleet EXCEPT ![a] = Running(spec)]
  /\ UNCHANGED <<loads, collecting>>

Fail(a) ==
  /\ fleet[a].phase = "up"
  /\ fleet' = [fleet EXCEPT ![a].phase = "failed"]
  /\ UNCHANGED <<loads, collecting>>

Stop(a) ==
  /\ fleet[a].phase \in {"up", "failed"}
  /\ a \in Settled(loads) => collecting
  /\ fleet' = [fleet EXCEPT ![a].phase = "terminating"]
  /\ UNCHANGED <<loads, collecting>>

Gone(a) ==
  /\ fleet[a].phase = "terminating"
  /\ fleet' = [fleet EXCEPT ![a] = Nobody]
  /\ UNCHANGED <<loads, collecting>>

Next == Load \/ \E a \in Names : Create(a) \/ Fail(a) \/ Stop(a) \/ Gone(a)

Spec == Init /\ [][Next]_vars
=============================================================================
