------------------------------- MODULE KubeApi -------------------------------
(***************************************************************************)
(* The Kubernetes API server and kubelet as the reconciler uses them: the   *)
(* claims, the agent Pods and their Services.  This is not code of the      *)
(* repository; it is modelled from the calls internal/backend makes and     *)
(* from what those calls rely on:                                           *)
(*   - Delete of a Pod only starts its termination; the name stays taken    *)
(*     until the kubelet is done, so a Create in between is refused;        *)
(*   - a claim in use by a Pod is not removed (pvc-protection);             *)
(*   - every call can fail.  The reconciler ignores the error of every      *)
(*     Create and Delete, so a call that took effect and still returned an  *)
(*     error is the same step as one that succeeded.                        *)
(***************************************************************************)
EXTENDS Naturals, FiniteSets

CONSTANTS
  Namespaces, Pvcs,
  Keys,                 \* the profile keys that can occur
  LegacyKey,            \* the empty profileHash of NamespaceAgentGroupName
  NoHash,               \* no Pod, or one that no load of this backend gives
  Permanent,            \* claims that exist in every state
  InitialClaims,        \* claims that exist at first
  Leftover,             \* agents another version of the backend has left behind
  MountedBy(_, _),      \* MountedBy(a, r): claims a Pod named a that runs r mounts
  Budgets               \* how often each kind of disturbance may happen

Target == Namespaces \X Pvcs

Disturbances == {"fault", "podFailure", "claim", "load", "gc", "restart"}

ASSUME ClaimsAssumption ==
  /\ Permanent \subseteq InitialClaims
  /\ InitialClaims \subseteq Target
ASSUME BudgetAssumption == Budgets \subseteq [Disturbances -> Nat]
ASSUME LegacyAssumption == LegacyKey \notin Keys

(* Names of agent Pods and their Services.  The source hashes the same     *)
(* parts; the digests are taken to be injective.                           *)
AgentName(t) == <<"pvc", t[1], t[2]>>
NamespaceAgentGroupName(ns, key) == <<"ns", ns, key>>
NamespaceAgentName(ns) == NamespaceAgentGroupName(ns, LegacyKey)

PvcAgents == {AgentName(t) : t \in Target}
GroupAgents == {NamespaceAgentGroupName(ns, key) : ns \in Namespaces, key \in Keys \cup {LegacyKey}}
Agents == PvcAgents \cup GroupAgents

VARIABLES
  claims,     \* the PersistentVolumeClaims that exist
  pods,       \* each agent name's Pod: [phase, spec]
  services,   \* the agent names that have a Service
  budget      \* disturbances still to come

apiVars == <<claims, pods, services, budget>>

Phases == {"absent", "up", "failed", "terminating"}

(* What a Create sends of an agent: the spec hash of its annotation and the *)
(* contents the Pod runs with.  The code computes the two one after the     *)
(* other, so nothing makes the contents those the hash was computed from.   *)
NoSpec == [hash |-> NoHash, runs |-> NoHash]
NoPod == [phase |-> "absent", spec |-> NoSpec]
Exists(a) == pods[a].phase # "absent"

ASSUME LeftoverAssumption == Leftover \subseteq Agents

ApiInit ==
  /\ claims = InitialClaims
  /\ pods = [a \in Agents |-> IF a \in Leftover THEN [NoPod EXCEPT !.phase = "up"] ELSE NoPod]
  /\ services = Leftover
  /\ budget \in Budgets

----------------------------------------------------------------------------
(* Calls.  Each is one step; Fails is the outcome without effect.          *)

Spend(kind) ==
  /\ budget[kind] > 0
  /\ budget' = [budget EXCEPT ![kind] = @ - 1]

Fails == Spend("fault") /\ UNCHANGED <<claims, pods, services>>

(* A Get or List that is answered. *)
Answers == UNCHANGED apiVars

CreatePod(a, spec) ==
  /\ pods' = IF Exists(a) THEN pods ELSE [pods EXCEPT ![a] = [phase |-> "up", spec |-> spec]]
  /\ UNCHANGED <<claims, services, budget>>

DeletePod(a) ==
  /\ pods' = IF Exists(a) THEN [pods EXCEPT ![a].phase = "terminating"] ELSE pods
  /\ UNCHANGED <<claims, services, budget>>

CreateService(a) ==
  /\ services' = services \cup {a}
  /\ UNCHANGED <<claims, pods, budget>>

DeleteService(a) ==
  /\ services' = services \ {a}
  /\ UNCHANGED <<claims, pods, budget>>

----------------------------------------------------------------------------
(* What happens in the cluster by itself.                                  *)

(* The kubelet has stopped a terminating Pod: its name is free again. *)
PodGone(a) ==
  /\ pods[a].phase = "terminating"
  /\ pods' = [pods EXCEPT ![a] = NoPod]
  /\ UNCHANGED <<claims, services, budget>>

(* A Pod is evicted or its node is lost: it stays, in phase Failed. *)
PodFails(a) ==
  /\ pods[a].phase = "up"
  /\ Spend("podFailure")
  /\ pods' = [pods EXCEPT ![a].phase = "failed"]
  /\ UNCHANGED <<claims, services>>

ClaimAdded(t) ==
  /\ t \notin claims
  /\ Spend("claim")
  /\ claims' = claims \cup {t}
  /\ UNCHANGED <<pods, services>>

InUse(t) == \E a \in Agents : Exists(a) /\ t \in MountedBy(a, pods[a].spec.runs)

ClaimRemoved(t) ==
  /\ t \in claims \ Permanent
  /\ ~ InUse(t)
  /\ Spend("claim")
  /\ claims' = claims \ {t}
  /\ UNCHANGED <<pods, services>>

ClusterStep ==
  \/ \E a \in Agents : PodGone(a) \/ PodFails(a)
  \/ \E t \in Target : ClaimAdded(t) \/ ClaimRemoved(t)
=============================================================================
