------------------------ MODULE ControllerProperties ------------------------
(***************************************************************************)
(* What the controller promises about the agents in the cluster.           *)
(***************************************************************************)
EXTENDS Controller

Labels ==
  {"idle", "sleep", "reconcile", "list", "ensure", "service", "resolve", "get", "delete",
   "create", "gcPerPvc", "namespace", "lookup", "classify", "group", "getGroup",
   "deleteGroup", "createGroup", "listGroups", "gcNamespaces", "sweep", "sweepService",
   "enable"}

(* Types of the state, but for the specs and the items of the inner loops. *)
TypeOK ==
  /\ claims \subseteq Target
  /\ DOMAIN pods = Agents
  /\ \A a \in Agents :
       /\ DOMAIN pods[a] = {"phase", "spec"}
       /\ pods[a].phase \in Phases
  /\ services \subseteq Agents
  /\ budget \in [Disturbances -> Nat]
  /\ cfg \in Versions /\ defaults \in Versions /\ overrides \in Versions
  /\ disabled \in BOOLEAN
  /\ DOMAIN wk = Workers
  /\ \A w \in Workers :
       /\ DOMAIN wk[w] = DOMAIN Idle
       /\ wk[w].pc \in Labels
       /\ wk[w].targets \subseteq Target
       /\ wk[w].namespaces \subseteq Namespaces

----------------------------------------------------------------------------
(* Provenance: what loads 1..c can have given.  The reads of r.Defaults and *)
(* r.Overrides for the settings, of r.Defaults for the hash and of          *)
(* r.Defaults for the Pod can each see another load.                       *)

WatchedBy(c) == UNION {Watched(v) : v \in 1..c}
ProfilesBy(c, t) == {Profile(d, o, t, known) : d, o \in 1..c, known \in BOOLEAN}
ShareBy(c, ns, key) == {t \in WatchedBy(c) : t[1] = ns /\ key \in ProfilesBy(c, t)}

(* One reading of the settings, two of the default groups. *)
PvcSpecBy(c, t, spec) ==
  /\ t \in WatchedBy(c)
  /\ \E d, o, e \in 1..c :
       /\ spec.hash = PvcHash(d, o, e, t)
       /\ \E f \in 1..c : spec.runs = PvcRuns(d, o, f, t)

GroupSpecBy(c, ns, key, spec) ==
  \E mounted \in (SUBSET ShareBy(c, ns, key)) \ {{}} :
    /\ \E e \in 1..c : spec.hash = GroupHash(mounted, key, e)
    /\ \E f \in 1..c : spec.runs = GroupRuns(mounted, key, f)

(* Loads 1..c can give the agent named a this spec. *)
SpecBy(c, a, spec) ==
  IF a \in PvcAgents THEN PvcSpecBy(c, <<a[2], a[3]>>, spec) ELSE GroupSpecBy(c, a[2], a[3], spec)

LeftBehind(a) == a \in Leftover /\ pods[a].spec = NoSpec

(* Whatever passes overlap, restart or fail, the Pod of a PVC agent has a   *)
(* hash and contents computed from the same settings of loads that were     *)
(* applied, for a PVC that one of them watches; a group agent mounts only   *)
(* watched PVCs of its own namespace, each with the group's profile under   *)
(* applied loads.                                                          *)
AgentsFromAppliedConfig ==
  \A a \in Agents : Exists(a) => LeftBehind(a) \/ SpecBy(cfg, a, pods[a].spec)

(* A PVC that is always there, whose class does not depend on a volume, and *)
(* that loads 1..c watch in agent-per-pvc mode with the same settings, also *)
(* when its settings are read while a load is being applied.  Its agent is  *)
(* not one an older backend has left behind: two passes may both find that  *)
(* one outdated, and the slower one deletes its replacement.               *)
SteadyBy(c) ==
  {t \in Permanent \ ByVolume :
     /\ AgentName(t) \notin Leftover
     /\ \A v \in 1..c : Mode(v) = "agent-per-pvc" /\ t \in Watched(v)
     /\ \A d, o, e \in 1..c : PvcHash(d, o, e, t) = PvcHash(1, 1, 1, t)}

Stopped(a) == pods[a].phase \in {"up", "failed"} /\ pods'[a].phase = "terminating"

(* README: no restarts on config changes.  Reloads, however they overlap    *)
(* and whatever calls fail, never stop the agent of a PVC that all loads so *)
(* far treat alike: only the sweep of a /gc request or of a shutdown does.  *)
SteadyAgentsKept ==
  [][\A t \in Target : Stopped(AgentName(t)) /\ t \in SteadyBy(cfg) =>
       \E w \in Sweepers : At(w, "sweep") /\ AgentName(t) \in wk[w].todo]_vars

(* The controller is a fleet of agents (AgentFleet): each is made from      *)
(* loads applied by then, goes away entirely before its name is taken       *)
(* again, and stays if all loads agree on it and nobody collects agents.    *)
Collecting == \E w \in Sweepers : ~ At(w, "idle")
SteadyAgents(c) == {AgentName(t) : t \in SteadyBy(c)}

Fleet == INSTANCE AgentFleet
  WITH Names <- Agents, LastLoad <- Loads, OldSpec <- NoSpec, Asked <- SpecBy,
       Settled <- SteadyAgents, loads <- cfg, fleet <- pods, collecting <- Collecting

ImplementsFleet == Fleet!Spec

(* Reconciliation is switched off only as long as some /gc request is being *)
(* served.  The converse does not hold: the first of two overlapping        *)
(* requests to end switches it on for both.                                *)
DisabledOnlyDuringGc ==
  disabled => \E w \in Handlers : ~ At(w, "idle")

----------------------------------------------------------------------------
(* Convergence.                                                            *)

Wanted == Watched(cfg) \cap claims

PvcFleet ==
  \A t \in Target :
    IF t \in Wanted
      THEN /\ pods[AgentName(t)] =
                [phase |-> "up", spec |-> [hash |-> PvcHash(cfg, cfg, cfg, t),
                                           runs |-> PvcRuns(cfg, cfg, cfg, t)]]
           /\ AgentName(t) \in services
      ELSE ~ Exists(AgentName(t))

WantedMembers(ns, key) == {t \in Wanted : t[1] = ns /\ Profile(cfg, cfg, t, TRUE) = key}

NamespaceFleet ==
  /\ \A t \in Target : ~ Exists(AgentName(t))
  /\ \A ns \in Namespaces, key \in Keys \cup {LegacyKey} :
       LET a == NamespaceAgentGroupName(ns, key)
           members == WantedMembers(ns, key)
       IN  IF members = {} THEN ~ Exists(a)
           ELSE /\ pods[a] =
                     [phase |-> "up", spec |-> [hash |-> GroupHash(members, key, cfg),
                                                runs |-> GroupRuns(members, key, cfg)]]
                /\ a \in services

(* main.go, "periodic reconcile to self-heal": once nothing disturbs the    *)
(* cluster any more, the agents are and stay those the configuration in     *)
(* force asks for, with the hash and the contents it gives them, each       *)
(* reachable through its Service; so every /gc request, however it ends and *)
(* whatever overlaps it, has switched reconciliation on again.  A reverted  *)
(* edit of the default groups is the exception (HashDetectsChanges).        *)
PvcFleetConverges == <>[](Mode(cfg) = "agent-per-pvc" => PvcFleet)
NamespaceFleetConverges == <>[](Mode(cfg) = "agent-per-namespace" => NamespaceFleet)

----------------------------------------------------------------------------
(* What comments of the source say and the code does not do.               *)

(* main.go, "Disable reconciler during GC to avoid races": no agent is      *)
(* created while reconciliation is switched off.                           *)
NoAgentCreatedDuringGc ==
  [][disabled => \A a \in Agents : Exists(a)' => Exists(a)]_vars

(* reconciler.go, "Compute desired spec hash to detect changes": an agent   *)
(* whose hash is the one asked for, which every pass leaves alone, runs     *)
(* with the settings asked for.  Groups that only its Create saw are in the *)
(* Pod and not in the hash.                                                *)
HashDetectsChanges ==
  \A t \in Wanted :
    LET spec == pods[AgentName(t)].spec
    IN  spec.hash = PvcHash(cfg, cfg, cfg, t) => spec.runs = PvcRuns(cfg, cfg, cfg, t)

(* main.go, "periodic reconcile to self-heal": an agent that stopped        *)
(* working does not stay in the place of a working one.                    *)
FailedAgentReplaced ==
  \A t \in Target :
    []<>(Mode(cfg) = "agent-per-pvc" /\ t \in Wanted
           => pods[AgentName(t)].phase # "failed")

(* The helm chart's README, "reconciles desired agents": agents that no     *)
(* mode of the configuration in force asks for disappear.                  *)
OtherModeCleanedUp ==
  <>[](Mode(cfg) # "agent-per-namespace" => \A a \in GroupAgents : ~ Exists(a))
=============================================================================
