------------------------- MODULE SteadyAgentProofs -------------------------
(***************************************************************************)
(* Reloads never stop the agent of a steady PVC.  Two things could: a pass  *)
(* that finds the agent's hash outdated, and a pass that sweeps the agent   *)
(* because it does not have its PVC among its targets.  The first cannot    *)
(* be, as the agent was made from applied loads (IInv) and all of them give *)
(* the PVC the same hash; the second, as every load watches the PVC and     *)
(* nothing that a pass may fail to read decides about it.  A new load can    *)
(* only end a PVC's being steady.  From that, step by step, the controller  *)
(* implements AgentFleet.                                                  *)
(***************************************************************************)
EXTENDS ControllerProofs

PvcLabels == TargetLabels \cup {"reconcile", "list", "ensure"}
NamespaceLabels == GroupLabels \cup {"gcPerPvc", "namespace", "lookup", "classify", "group",
                                     "listGroups", "gcNamespaces"}

(* A pass that leaves steady target t alone. *)
Spares(l, t) ==
  /\ l.pc \in PvcLabels => t \in l.targets
  /\ l.pc \notin NamespaceLabels
  /\ l.pc \in SweepLabels => AgentName(t) \notin l.todo /\ l.ret = "ended"
  /\ l.pc = "delete" => l.cur # t

SteadyInv ==
  /\ SteadyBy(cfg) \subseteq claims
  /\ \A w \in Passes, t \in SteadyBy(cfg) : Spares(wk[w], t)

LEMMA SteadyFacts ==
  ASSUME NEW c, NEW t \in SteadyBy(c)
  PROVE  /\ t \in Target /\ t \in Permanent /\ t \notin ByVolume /\ AgentName(t) \in Agents
         /\ AgentName(t) \notin Leftover
         /\ \A v \in 1..c : Mode(v) = "agent-per-pvc" /\ t \in Watched(v)
         /\ \A d, o, e \in 1..c : PvcHash(d, o, e, t) = PvcHash(1, 1, 1, t)
<1>1. t \in Target
  BY ClaimsAssumption DEF SteadyBy
<1>2. QED
  BY <1>1, NamesAreAgents DEF SteadyBy

LEMMA SteadyLater ==
  ASSUME NEW c \in Versions, NEW d \in Versions, c <= d
  PROVE  SteadyBy(d) \subseteq SteadyBy(c)
<1>1. 1..c \subseteq 1..d
  BY WatchedTargets, LaterLoads
<1> QED
  BY <1>1 DEF SteadyBy

LEMMA NamesDiffer ==
  /\ \A t, u \in Target : AgentName(t) = AgentName(u) => t = u
  /\ \A t, ns, key : AgentName(t) # NamespaceAgentGroupName(ns, key)
  BY DEF AgentName, NamespaceAgentGroupName, Target

(* The agent of a steady PVC, if there is one, has the hash all loads give. *)
LEMMA SteadyHash ==
  ASSUME IInv, NEW t \in SteadyBy(cfg), Exists(AgentName(t))
  PROVE  pods[AgentName(t)].spec.hash = PvcHash(1, 1, 1, t)
<1>1. cfg \in Versions /\ 1..cfg \subseteq Versions /\ WatchedBy(cfg) \subseteq Target
  BY WatchedTargets DEF IInv, ProcessOK
<1>2. MadeBy(cfg, AgentName(t), pods[AgentName(t)].spec)
  BY SteadyFacts DEF IInv, ClusterOK, PodOK, Exists
<1>3. PvcSpecBy(cfg, t, pods[AgentName(t)].spec)
  BY <1>1, <1>2, SteadyFacts, NamesDiffer DEF MadeBy
<1>4. PICK d \in 1..cfg, o \in 1..cfg, e \in 1..cfg :
        pods[AgentName(t)].spec.hash = PvcHash(d, o, e, t)
  BY <1>3 DEF PvcSpecBy
<1>5. QED
  BY <1>1, <1>4, SteadyFacts

----------------------------------------------------------------------------
(* Where a pass can go.                                                    *)

LEMMA RestSpares ==
  ASSUME NEW w, NEW t
  PROVE  Spares(Idle, t) /\ Spares(Sleeping, t) /\ Spares(Ended(w), t)
  BY DEF Spares, Idle, Sleeping, Ended, PvcLabels, TargetLabels, NamespaceLabels, GroupLabels,
         SweepLabels

LEMMA SweepSpares ==
  ASSUME NEW w, NEW t, NEW l, DOMAIN l = Fields, NEW agents, AgentName(t) \notin agents
  PROVE  Spares(SweepThen(w, l, agents, "ended"), t)
<1>1. CASE agents = {}
  BY <1>1, RestSpares DEF SweepThen, Resume
<1>2. CASE agents # {}
  <2> DEFINE r == [l EXCEPT !.pc = "sweep", !.todo = agents, !.cur = None, !.ret = "ended"]
  <2>1. r.pc = "sweep" /\ r.todo = agents /\ r.ret = "ended"
    BY DEF Fields
  <2> HIDE DEF r
  <2>2. Spares(r, t)
    BY <2>1 DEF Spares, PvcLabels, TargetLabels, NamespaceLabels, GroupLabels, SweepLabels
  <2>3. QED
    BY <1>2, <2>2 DEF SweepThen, r
<1>3. QED
  BY <1>1, <1>2

LEMMA NextTargetSpares ==
  ASSUME NEW w, NEW t \in Target, NEW l, DOMAIN l = Fields, l.seen \subseteq Target, t \in l.targets
  PROVE  Spares(NextTarget(w, l), t)
<1> DEFINE fresh == [l EXCEPT !.cur = None, !.def = 0, !.ovr = 0, !.want = NoHash]
           next == [fresh EXCEPT !.pc = "ensure"]
           last == [fresh EXCEPT !.targets = {}, !.seen = {}]
           stale == {AgentName(u) : u \in l.seen \ l.targets}
<1>1. CASE l.todo # {}
  <2>1. next.pc = "ensure" /\ next.targets = l.targets
    BY DEF Fields
  <2> HIDE DEF next
  <2>2. Spares(next, t)
    BY <2>1 DEF Spares, PvcLabels, TargetLabels, NamespaceLabels, GroupLabels, SweepLabels
  <2>3. QED
    BY <1>1, <2>2 DEF NextTarget, next
<1>2. CASE l.todo = {}
  <2>1. AgentName(t) \notin stale
    BY NamesDiffer
  <2>2. DOMAIN last = Fields
    OBVIOUS
  <2> HIDE DEF last, stale
  <2>3. Spares(SweepThen(w, last, stale, "ended"), t)
    BY <2>1, <2>2, SweepSpares
  <2>4. QED
    BY <1>2, <2>3 DEF NextTarget, last, stale
<1>3. QED
  BY <1>1, <1>2

LEMMA BuildTargetsSpares ==
  ASSUME IInv, SteadyInv, NEW w \in Passes, NEW v \in 1..cfg, BuildTargets(w, v), NEW t \in SteadyBy(cfg)
  PROVE  Spares(wk'[w], t)
<1> DEFINE found == Watched(v) \cap claims
<1>1. w \in DOMAIN wk /\ t \in found /\ t \notin ByVolume /\ Mode(v) = "agent-per-pvc"
  BY Apart, SteadyFacts DEF IInv, WorkersOK, SteadyInv
<1>2. \/ wk'[w] = Start(found, v)
      \/ \E lost \in SUBSET (found \cap ByVolume) : wk'[w] = Start(found \ lost, v)
      \/ wk'[w] = Idle
  BY <1>1 DEF BuildTargets, Become
<1>3. ASSUME NEW targets, t \in targets
      PROVE  Spares(Start(targets, v), t)
  <2> DEFINE r == [Idle EXCEPT !.pc = "reconcile", !.targets = targets]
  <2>1. r.pc = "reconcile" /\ r.targets = targets
    BY DEF Idle
  <2> HIDE DEF r
  <2>2. Spares(r, t)
    BY <1>3, <2>1 DEF Spares, PvcLabels, TargetLabels, NamespaceLabels, GroupLabels, SweepLabels
  <2>3. QED
    BY <1>1, <2>2 DEF Start, r
<1> HIDE DEF found
<1>4. QED
  BY <1>1, <1>2, <1>3, RestSpares

LEMMA PerPvcStepSpares ==
  ASSUME IInv, SteadyInv, NEW w \in Passes, PerPvcStep(w), NEW t \in SteadyBy(cfg)
  PROVE  Spares(wk'[w], t)
<1> DEFINE l == wk[w]
<1>1. w \in DOMAIN wk /\ w \in Workers /\ LocalOK(l, cfg) /\ Spares(l, t) /\ t \in Target
  BY Apart, SteadyFacts DEF IInv, WorkersOK, SteadyInv
<1>2. DOMAIN l = Fields /\ l.seen \subseteq Target /\ l.pc \in PvcLabels
  BY <1>1 DEF LocalOK, ShapeOK, PerPvcStep, At, CheckDisabled, ListAgents, EnsureAgent, EnsureService,
       ResolveSecurity, GetAgent, DeleteAgent, CreateAgent, PvcLabels, TargetLabels
<1>3. t \in l.targets
  BY <1>1, <1>2 DEF Spares
<1>4. ASSUME NEW r, DOMAIN r = Fields, r.seen \subseteq Target, r.targets = l.targets
      PROVE  Spares(NextTarget(w, r), t)
  BY <1>1, <1>3, <1>4, NextTargetSpares
<1>5. ASSUME NEW r, r.targets = l.targets, r.pc \in PvcLabels, r.pc = "delete" => r.cur # t
      PROVE  Spares(r, t)
  BY <1>3, <1>5 DEF Spares, PvcLabels, TargetLabels, NamespaceLabels, GroupLabels, SweepLabels
<1>6. CASE CheckDisabled(w)
  <2> DEFINE r == [l EXCEPT !.pc = "list"]
  <2>1. r.targets = l.targets /\ r.pc = "list"
    BY <1>2 DEF Fields
  <2>2. wk'[w] = r \/ wk'[w] = Idle
    BY <1>1, <1>6 DEF CheckDisabled, Become
  <2> HIDE DEF r
  <2>3. QED
    BY <1>5, <2>1, <2>2, RestSpares DEF PvcLabels
<1>7. CASE ListAgents(w)
  <2> DEFINE seen == {u \in Target : Exists(AgentName(u))}
             r == [l EXCEPT !.seen = seen, !.todo = l.targets]
  <2>1. DOMAIN r = Fields /\ r.seen \subseteq Target /\ r.targets = l.targets
    BY <1>2 DEF Fields
  <2>2. wk'[w] = NextTarget(w, r) \/ wk'[w] = Idle
    BY <1>1, <1>7 DEF ListAgents, Become
  <2> HIDE DEF r
  <2>3. QED
    BY <1>4, <2>1, <2>2, RestSpares
<1>8. CASE EnsureAgent(w)
  <2> DEFINE u == First(wk[w].todo)
             skip == [l EXCEPT !.todo = @ \ {u}]
             r == [l EXCEPT !.pc = "service", !.cur = u, !.todo = @ \ {u}]
  <2>1. /\ DOMAIN skip = Fields /\ skip.seen = l.seen /\ skip.targets = l.targets
        /\ r.targets = l.targets /\ r.pc = "service"
    BY <1>2 DEF Fields
  <2>2. wk'[w] = NextTarget(w, skip) \/ wk'[w] = r
    BY <1>1, <1>8 DEF EnsureAgent, Become
  <2> HIDE DEF r, skip
  <2>3. QED
    BY <1>2, <1>4, <1>5, <2>1, <2>2 DEF PvcLabels, TargetLabels
<1>9. CASE EnsureService(w)
  <2> DEFINE r == [l EXCEPT !.pc = "resolve", !.def = defaults]
  <2>1. r.targets = l.targets /\ r.pc = "resolve"
    BY <1>2 DEF Fields
  <2>2. wk'[w] = r
    BY <1>1, <1>9 DEF EnsureService, Become
  <2> HIDE DEF r
  <2>3. QED
    BY <1>5, <2>1, <2>2 DEF PvcLabels, TargetLabels
<1>10. CASE ResolveSecurity(w)
  <2> DEFINE r == [l EXCEPT !.pc = "get", !.ovr = overrides]
  <2>1. r.targets = l.targets /\ r.pc = "get"
    BY <1>2 DEF Fields
  <2>2. wk'[w] = r
    BY <1>1, <1>10 DEF ResolveSecurity, Become
  <2> HIDE DEF r
  <2>3. QED
    BY <1>5, <2>1, <2>2 DEF PvcLabels, TargetLabels
<1>11. CASE GetAgent(w)
  <2> DEFINE hash == PvcHash(l.def, l.ovr, defaults, l.cur)
             r(label) == [[l EXCEPT !.want = hash] EXCEPT !.pc = label]
  <2>1. l.def \in 1..cfg /\ l.ovr \in 1..cfg /\ defaults \in 1..cfg
    BY <1>1, <1>11 DEF IInv, ProcessOK, LocalOK, TargetOK, GetAgent, At
  <2>2. \A label : /\ r(label).targets = l.targets /\ r(label).cur = l.cur
                   /\ r(label).pc = label
    BY <1>2 DEF Fields
  <2>3. \/ wk'[w] = NextTarget(w, l)
        \/ wk'[w] = r("create")
        \/ /\ wk'[w] = r("delete") /\ Exists(AgentName(l.cur))
           /\ pods[AgentName(l.cur)].spec.hash # hash
    BY <1>1, <1>11 DEF GetAgent, Become
  <2>4. Exists(AgentName(l.cur)) /\ pods[AgentName(l.cur)].spec.hash # hash => l.cur # t
    BY <2>1, SteadyHash, SteadyFacts
  <2> HIDE DEF r
  <2>5. QED
    BY <1>2, <1>4, <1>5, <2>2, <2>3, <2>4 DEF PvcLabels, TargetLabels
<1>12. CASE DeleteAgent(w)
  <2> DEFINE r == [l EXCEPT !.pc = "create"]
  <2>1. r.targets = l.targets /\ r.pc = "create"
    BY <1>2 DEF Fields
  <2>2. wk'[w] = r
    BY <1>1, <1>12 DEF DeleteAgent, Become
  <2> HIDE DEF r
  <2>3. QED
    BY <1>5, <2>1, <2>2 DEF PvcLabels, TargetLabels
<1>13. CASE CreateAgent(w)
  BY <1>1, <1>2, <1>4, <1>13 DEF CreateAgent, Become
<1>14. QED
  BY <1>6, <1>7, <1>8, <1>9, <1>10, <1>11, <1>12, <1>13 DEF PerPvcStep

LEMMA SweepingSpares ==
  ASSUME IInv, SteadyInv, NEW w \in Passes, SweepPod(w) \/ SweepService(w), NEW t \in SteadyBy(cfg)
  PROVE  Spares(wk'[w], t)
<1> DEFINE l == wk[w]
<1>1. /\ w \in DOMAIN wk /\ w \in Workers /\ DOMAIN l = Fields
      /\ AgentName(t) \notin l.todo /\ l.ret = "ended"
  BY Apart DEF IInv, WorkersOK, LocalOK, ShapeOK, SteadyInv, Spares, SweepPod, SweepService, At,
               SweepLabels
<1>2. CASE SweepPod(w)
  <2>1. PICK a \in l.todo :
          wk' = [wk EXCEPT ![w] = [l EXCEPT !.pc = "sweepService", !.cur = a, !.todo = @ \ {a}]]
    BY <1>2 DEF SweepPod, Become
  <2> DEFINE r == [l EXCEPT !.pc = "sweepService", !.cur = a, !.todo = @ \ {a}]
  <2>2. r.pc = "sweepService" /\ r.todo = l.todo \ {a} /\ r.ret = l.ret
    BY <1>1 DEF Fields
  <2>3. wk'[w] = r
    BY <1>1, <2>1
  <2> HIDE DEF r
  <2>4. Spares(r, t)
    BY <1>1, <2>2 DEF Spares, PvcLabels, TargetLabels, NamespaceLabels, GroupLabels, SweepLabels
  <2>5. QED
    BY <2>3, <2>4
<1>3. CASE SweepService(w)
  <2>1. wk'[w] = SweepThen(w, l, l.todo, "ended")
    BY <1>1, <1>3 DEF SweepService, Become
  <2>2. QED
    BY <1>1, <2>1, SweepSpares
<1>4. QED
  BY <1>2, <1>3

LEMMA PassKeepsLoads ==
  ASSUME NEW w, PassStep(w)
  PROVE  cfg' = cfg
BY DEF PassStep, Tick, OnConfigChange, BuildTargets, PerPvcStep, CheckDisabled, ListAgents, EnsureAgent,
       EnsureService, ResolveSecurity, GetAgent, DeleteAgent, CreateAgent, PerNamespaceStep,
       NextNamespace, LookUpClass, Classify, EnsureGroupService, GetGroupAgent, DeleteGroupAgent,
       CreateGroupAgent, ListGroupAgents, SharedStep, SweepPod, SweepService, GCPerPVCAll,
       GCNamespaceAgents, procVars

LEMMA PassStepSpares ==
  ASSUME IInv, SteadyInv, NEW w \in Passes, PassStep(w), NEW t \in SteadyBy(cfg)
  PROVE  /\ Spares(wk'[w], t)
         /\ \A x \in Passes \ {w} : wk'[x] = wk[x]
         /\ claims' = claims
         /\ wk[w].pc \notin NamespaceLabels
<1>1. w \in DOMAIN wk /\ cfg \in 1..cfg /\ Spares(wk[w], t) /\ Passes \subseteq DOMAIN wk
  BY Apart, WatchedTargets DEF IInv, ProcessOK, WorkersOK, SteadyInv
<1>2. wk[w].pc \notin NamespaceLabels
  BY <1>1 DEF Spares
<1>3. ~ PerNamespaceStep(w) /\ ~ GCPerPVCAll(w) /\ ~ GCNamespaceAgents(w)
  BY <1>2 DEF PerNamespaceStep, NextNamespace, LookUpClass, Classify, EnsureGroupService, GetGroupAgent,
       DeleteGroupAgent, CreateGroupAgent, ListGroupAgents, GCPerPVCAll, GCNamespaceAgents, At,
       NamespaceLabels, GroupLabels
<1>4. Tick(w) \/ OnConfigChange(w) \/ PerPvcStep(w) \/ SweepPod(w) \/ SweepService(w)
  BY <1>3 DEF PassStep, SharedStep
<1>5. Spares(wk'[w], t)
  <2>1. CASE Tick(w)
    BY <1>1, <2>1, BuildTargetsSpares DEF Tick
  <2>2. CASE OnConfigChange(w)
    <3>1. CASE BuildTargets(w, w)
      <4>1. w \in 1..cfg
        <5>1. w \in Versions /\ cfg \in Versions /\ ~ (w > cfg)
          BY <2>2 DEF OnConfigChange, At, IInv, LaterIdle, ProcessOK
        <5> QED
          BY <5>1, LoadsAssumption DEF Versions
      <4> QED
        BY <3>1, <4>1, BuildTargetsSpares
    <3>2. CASE Become(w, Idle)
      BY <1>1, <3>2, RestSpares DEF Become
    <3>3. QED
      BY <2>2, <3>1, <3>2 DEF OnConfigChange
  <2>3. QED
    BY <1>4, <2>1, <2>2, PerPvcStepSpares, SweepingSpares
<1>6. \E r : wk' = [wk EXCEPT ![w] = r]
  BY <1>4 DEF Tick, OnConfigChange, BuildTargets, PerPvcStep, CheckDisabled, ListAgents, EnsureAgent,
       EnsureService, ResolveSecurity, GetAgent, DeleteAgent, CreateAgent, SweepPod, SweepService, Become
<1>7. claims' = claims
  BY <1>4 DEF Tick, OnConfigChange, BuildTargets, PerPvcStep, CheckDisabled, ListAgents, EnsureAgent,
       EnsureService, ResolveSecurity, GetAgent, DeleteAgent, CreateAgent, SweepPod, SweepService,
       Answers, Fails, CreatePod, DeletePod, CreateService, DeleteService, apiVars
<1>8. QED
  BY <1>1, <1>2, <1>5, <1>6, <1>7

----------------------------------------------------------------------------
(* Steps of the others leave the passes alone, or start them anew.         *)

LEMMA OthersSpare ==
  ASSUME IInv, SteadyInv, SteadyBy(cfg) \subseteq claims', cfg' \in Versions, cfg <= cfg',
         \A w \in Passes : wk'[w] = wk[w] \/ wk'[w] = Idle \/ wk'[w] = Sleeping
  PROVE  SteadyInv'
<1>1. SteadyBy(cfg') \subseteq SteadyBy(cfg) /\ SteadyBy(cfg)' = SteadyBy(cfg')
  BY SteadyLater DEF IInv, ProcessOK, SteadyBy
<1> QED
  BY <1>1, RestSpares DEF SteadyInv

LEMMA SweeperStep ==
  ASSUME IInv, NEW w \in Sweepers,
         SweepStep(w) \/ GcRequest(w) \/ GcCancelled(w) \/ Enable(w) \/ (w = Shutdown /\ ShutdownExits)
  PROVE  claims' = claims /\ cfg' = cfg /\ \A x \in Passes : wk'[x] = wk[x]
<1>1. w \notin Passes /\ Passes \subseteq DOMAIN wk
  BY Apart DEF IInv, WorkersOK
<1>2. \E r : wk' = [wk EXCEPT ![w] = r]
  BY DEF SweepStep, SharedStep, SweepPod, SweepService, GCPerPVCAll, GCNamespaceAgents, NextNamespace,
         GcRequest, GcCancelled, Enable, ShutdownExits, Become
<1>3. claims' = claims /\ cfg' = cfg
  BY DEF SweepStep, SharedStep, SweepPod, SweepService, GCPerPVCAll, GCNamespaceAgents, NextNamespace,
         GcRequest, GcCancelled, Enable, ShutdownExits, Answers, Fails, DeletePod, DeleteService, apiVars, procVars
<1>4. QED
  BY <1>1, <1>2, <1>3

LEMMA SteadyInvInvariant == Spec => []SteadyInv
<1>1. Init => SteadyInv
  <2> SUFFICES ASSUME Init PROVE SteadyInv
    OBVIOUS
  <2>1. SteadyBy(cfg) \subseteq claims
    BY ClaimsAssumption, SteadyFacts DEF Init, ApiInit
  <2>2. \A w \in Passes : wk[w] = Idle \/ wk[w] = Sleeping
    BY Apart DEF Init
  <2>3. QED
    BY <2>1, <2>2, RestSpares DEF SteadyInv
<1>2. IInv /\ SteadyInv /\ [Next]_vars => SteadyInv'
  <2> SUFFICES ASSUME IInv, SteadyInv, [Next]_vars
               PROVE  SteadyInv'
    OBVIOUS
  <2>0. /\ SteadyBy(cfg) \subseteq claims /\ Passes \subseteq DOMAIN wk
        /\ cfg \in Workers /\ cfg \in Versions /\ cfg <= cfg
    BY Apart DEF SteadyInv, IInv, WorkersOK, ProcessOK
  <2>1. CASE ApplyNewConfig
    <3>1. cfg' = cfg + 1 /\ cfg' \in Versions /\ claims' = claims /\ wk' = wk
      BY <2>0, <2>1, LoadsAssumption DEF ApplyNewConfig, Versions
    <3> QED
      BY <2>0, <3>1, OthersSpare DEF Versions
  <2>2. CASE WatcherStep
    <3>1. claims' = claims /\ cfg' = cfg /\ (wk' = wk \/ wk' = [wk EXCEPT ![cfg] = Sleeping])
      BY <2>2 DEF WatcherStep, SetDefaults, SetOverrides, Become, apiVars
    <3>2. QED
      BY <2>0, <3>1, OthersSpare
  <2>3. ASSUME NEW w \in Passes, PassStep(w) PROVE SteadyInv'
    <3>1. cfg' = cfg
      BY <2>3, PassKeepsLoads
    <3>2. SteadyBy(cfg)' = SteadyBy(cfg)
      BY <3>1 DEF SteadyBy
    <3> QED
      BY <2>0, <2>3, <3>2, PassStepSpares DEF SteadyInv
  <2>4. ASSUME NEW w \in Handlers, GcRequest(w) \/ SweepStep(w) \/ GcCancelled(w) \/ Enable(w)
        PROVE  SteadyInv'
    BY <2>0, <2>4, SweeperStep, OthersSpare DEF Sweepers
  <2>5. CASE SweepStep(Shutdown) \/ ShutdownExits
    BY <2>0, <2>5, SweeperStep, OthersSpare DEF Sweepers
  <2>6. CASE Restart
    <3>1. \A w \in Passes : wk'[w] = Idle \/ wk'[w] = Sleeping
      BY <2>6, Apart DEF Restart, Sweepers
    <3>2. cfg' \in Versions /\ cfg <= cfg' /\ claims' = claims
      BY <2>0, <2>6 DEF Restart, Versions
    <3>3. QED
      BY <2>0, <3>1, <3>2, OthersSpare
  <2>7. CASE ClusterStep /\ UNCHANGED <<procVars, wk>>
    <3>1. SteadyBy(cfg) \subseteq claims' /\ cfg' = cfg
      BY <2>0, <2>7, SteadyFacts DEF ClusterStep, PodGone, PodFails, ClaimAdded, ClaimRemoved, procVars
    <3>2. QED
      BY <2>0, <2>7, <3>1, OthersSpare
  <2>8. CASE UNCHANGED vars
    BY <2>0, <2>8, OthersSpare DEF vars, apiVars, procVars
  <2>9. QED
    BY <2>1, <2>2, <2>3, <2>4, <2>5, <2>6, <2>7, <2>8 DEF Next
<1>3. QED
  BY <1>1, <1>2, IInvInvariant, PTL DEF Spec

----------------------------------------------------------------------------
(* Who stops a Pod.                                                        *)

LEMMA OnlyDeleteStops ==
  ASSUME ClusterOK, NEW a \in Agents, Stopped(a)
  PROVE  /\ ~ Fails /\ ~ Answers /\ pods' # pods
         /\ \A b : ~ CreateService(b) /\ ~ DeleteService(b)
         /\ \A b, spec : ~ CreatePod(b, spec)
         /\ \A b : DeletePod(b) => b = a
         /\ ~ ClusterStep
<1>1. /\ a \in DOMAIN pods /\ pods[a].phase # "absent" /\ pods[a].phase # "terminating"
      /\ pods'[a].phase = "terminating" /\ pods' # pods
      /\ DOMAIN pods[a] = {"phase", "spec"}
  BY DEF Stopped, ClusterOK, PodOK
<1>2. \A b, spec : ~ CreatePod(b, spec)
  BY <1>1 DEF CreatePod, Exists
<1>3. \A b : DeletePod(b) => b = a
  BY <1>1 DEF DeletePod
<1>4. ~ ClusterStep
  <2>1. \A b : ~ PodGone(b)
    BY <1>1 DEF PodGone, NoPod
  <2>2. \A b : ~ PodFails(b)
    BY <1>1 DEF PodFails
  <2>3. \A t : ~ ClaimAdded(t) /\ ~ ClaimRemoved(t)
    BY <1>1 DEF ClaimAdded, ClaimRemoved
  <2>4. QED
    BY <2>1, <2>2, <2>3 DEF ClusterStep
<1>5. QED
  BY <1>1, <1>2, <1>3, <1>4 DEF Fails, Answers, apiVars, CreateService, DeleteService

LEMMA OnlySweepersStop ==
  ASSUME IInv, SteadyInv, [Next]_vars, NEW t \in Target, Stopped(AgentName(t)), t \in SteadyBy(cfg)
  PROVE  \E w \in Sweepers : At(w, "sweep") /\ AgentName(t) \in wk[w].todo
<1> DEFINE a == AgentName(t)
<1>1. a \in Agents /\ t \in Target /\ ClusterOK
  BY SteadyFacts DEF IInv
<1>2. /\ ~ Fails /\ ~ Answers /\ pods' # pods
      /\ \A b : ~ CreateService(b) /\ ~ DeleteService(b)
      /\ \A b, spec : ~ CreatePod(b, spec)
      /\ \A b : DeletePod(b) => b = a
      /\ ~ ClusterStep
  BY <1>1, OnlyDeleteStops
<1>3. ~ ApplyNewConfig /\ ~ WatcherStep /\ ~ Restart /\ ~ ShutdownExits /\ ~ UNCHANGED vars
  BY <1>2 DEF ApplyNewConfig, WatcherStep, SetDefaults, SetOverrides, Restart, ShutdownExits, vars,
              apiVars
<1>4. \A w : ~ GcRequest(w) /\ ~ GcCancelled(w) /\ ~ Enable(w)
  BY <1>2 DEF GcRequest, GcCancelled, Enable, apiVars
<1>5. \A w : SharedStep(w) => At(w, "sweep") /\ a \in wk[w].todo
  BY <1>2 DEF SharedStep, SweepPod, SweepService, GCPerPVCAll, GCNamespaceAgents
<1>6. \A w : ~ NextNamespace(w)
  BY <1>2 DEF NextNamespace, apiVars
<1>7. ASSUME NEW w \in Passes PROVE ~ PassStep(w)
  <2> SUFFICES ASSUME PassStep(w) PROVE FALSE
    OBVIOUS
  <2>1. Spares(wk[w], t) /\ wk[w].pc \notin NamespaceLabels
    BY <1>7 DEF SteadyInv, Spares
  <2>2. ~ SharedStep(w)
    BY <1>5, <2>1 DEF Spares, At, SweepLabels
  <2>3. ~ PerNamespaceStep(w)
    BY <2>1 DEF PerNamespaceStep, NextNamespace, LookUpClass, Classify, EnsureGroupService,
         GetGroupAgent, DeleteGroupAgent, CreateGroupAgent, ListGroupAgents, At, NamespaceLabels,
         GroupLabels
  <2>4. ~ Tick(w) /\ ~ OnConfigChange(w)
    BY <1>2 DEF Tick, OnConfigChange, BuildTargets, apiVars
  <2>5. ~ PerPvcStep(w)
    <3>1. ~ DeleteAgent(w)
      <4> SUFFICES ASSUME DeleteAgent(w) PROVE FALSE
        OBVIOUS
      <4>1. AgentName(wk[w].cur) = a /\ wk[w].pc = "delete"
        BY <1>2 DEF DeleteAgent, At
      <4>2. wk[w].cur \in Target
        <5>1. LocalOK(wk[w], cfg) /\ cfg \in Versions
          BY <1>7, Apart DEF IInv, WorkersOK, ProcessOK
        <5>2. QED
          BY <4>1, <5>1, WatchedTargets DEF LocalOK, TargetOK, ShapeOK, TargetLabels
      <4>3. QED
        BY <1>1, <2>1, <4>1, <4>2, NamesDiffer DEF Spares
    <3>2. QED
      BY <1>2, <3>1 DEF PerPvcStep, CheckDisabled, ListAgents, EnsureAgent, EnsureService,
           ResolveSecurity, GetAgent, CreateAgent, apiVars
  <2>6. QED
    BY <2>2, <2>3, <2>4, <2>5 DEF PassStep
<1>8. \E w \in Sweepers : SharedStep(w)
  BY <1>2, <1>3, <1>4, <1>6, <1>7 DEF Next, SweepStep, Sweepers
<1>9. QED
  BY <1>5, <1>8

(* README: no restarts on config changes.  For any number of loads and      *)
(* targets, the agent of a PVC that is steady so far is only ever stopped   *)
(* by the sweep of a /gc request or of a shutdown.                         *)
THEOREM SteadyAgentsKeptTheorem == Spec => SteadyAgentsKept
<1>1. IInv /\ SteadyInv /\ [Next]_vars =>
        [\A t \in Target : Stopped(AgentName(t)) /\ t \in SteadyBy(cfg) =>
           \E w \in Sweepers : At(w, "sweep") /\ AgentName(t) \in wk[w].todo]_vars
  BY OnlySweepersStop
<1> QED
  BY <1>1, IInvInvariant, SteadyInvInvariant, PTL DEF Spec, SteadyAgentsKept

----------------------------------------------------------------------------
(* The controller implements AgentFleet.                                   *)

(* What a step of the controller can do to the Pods. *)
TouchesOnePod ==
  \E a \in Agents :
    \/ \E spec : SpecBy(cfg, a, spec) /\ CreatePod(a, spec)
    \/ DeletePod(a) \/ PodGone(a) \/ PodFails(a)

LEMMA CreatesFromLoads ==
  ASSUME IInv, NEW w \in Passes, CreateAgent(w) \/ CreateGroupAgent(w), pods' # pods
  PROVE  TouchesOnePod
<1> DEFINE l == wk[w]
<1>1. w \in Workers /\ LocalOK(l, cfg) /\ cfg \in Versions /\ defaults \in 1..cfg
  BY Apart DEF IInv, WorkersOK, ProcessOK
<1>2. CASE CreateAgent(w)
  <2> DEFINE spec == [hash |-> l.want, runs |-> PvcRuns(l.def, l.ovr, defaults, l.cur)]
  <2>1. CreatePod(AgentName(l.cur), spec)
    BY <1>2 DEF CreateAgent, Fails
  <2>2. l.pc = "create" /\ l.cur \in WatchedBy(cfg)
    BY <1>1, <1>2 DEF CreateAgent, At, LocalOK, TargetOK, ShapeOK, TargetLabels
  <2>3. l.cur \in Target /\ PvcSpecBy(cfg, l.cur, spec)
    BY <1>1, <2>2, WatchedTargets, PvcSpecMade
  <2>4. AgentName(l.cur) \in Agents /\ SpecBy(cfg, AgentName(l.cur), spec)
    BY <2>3, NamesAreAgents, SpecsOfPvc
  <2> QED
    BY <2>1, <2>4 DEF TouchesOnePod
<1>3. CASE CreateGroupAgent(w)
  <2> DEFINE spec == [hash |-> l.want,
                      runs |-> GroupRuns(GroupPvcs(l.groups, l.cur), l.cur, defaults)]
  <2>1. CreatePod(GroupAgent(w), spec)
    BY <1>3 DEF CreateGroupAgent, Fails
  <2>2. /\ l.pc = "createGroup"
        /\ ShapeOK(l, cfg) /\ GroupsOK(l, cfg) /\ l.cur \in GroupKeys(l.groups)
    BY <1>1, <1>3 DEF CreateGroupAgent, At, LocalOK, GroupsOK, GroupLabels
  <2>3. l.ns \in Namespaces /\ l.cur \in Keys
    BY <1>1, <2>2, GroupFacts
  <2>4. GroupSpecBy(cfg, l.ns, l.cur, spec)
    BY <1>1, <2>2, GroupSpecMade
  <2>5. GroupAgent(w) \in Agents /\ SpecBy(cfg, GroupAgent(w), spec)
    BY <2>3, <2>4, NamesAreAgents, SpecsOfGroup DEF GroupAgent
  <2> QED
    BY <2>1, <2>5 DEF TouchesOnePod
<1> QED
  BY <1>2, <1>3

LEMMA DeletesAnAgent ==
  ASSUME IInv, NEW w \in Workers, DeleteAgent(w) \/ DeleteGroupAgent(w) \/ SweepPod(w), pods' # pods
  PROVE  TouchesOnePod
<1> DEFINE l == wk[w]
<1>1. LocalOK(l, cfg) /\ cfg \in Versions
  BY DEF IInv, WorkersOK, ProcessOK
<1>2. CASE DeleteAgent(w)
  <2>1. DeletePod(AgentName(l.cur))
    BY <1>2 DEF DeleteAgent, Fails
  <2>2. l.cur \in Target
    BY <1>1, <1>2, WatchedTargets DEF DeleteAgent, At, LocalOK, TargetOK, ShapeOK, TargetLabels
  <2> QED
    BY <2>1, <2>2, NamesAreAgents DEF TouchesOnePod
<1>3. CASE DeleteGroupAgent(w)
  <2>1. DeletePod(GroupAgent(w))
    BY <1>3 DEF DeleteGroupAgent, Fails
  <2>2. ShapeOK(l, cfg) /\ GroupsOK(l, cfg) /\ l.cur \in GroupKeys(l.groups)
    BY <1>1, <1>3 DEF DeleteGroupAgent, At, LocalOK, GroupsOK, GroupLabels
  <2>3. l.ns \in Namespaces /\ l.cur \in Keys
    BY <1>1, <2>2, GroupFacts
  <2> QED
    BY <2>1, <2>3, NamesAreAgents DEF TouchesOnePod, GroupAgent
<1>4. CASE SweepPod(w)
  <2>1. \E a \in l.todo : DeletePod(a)
    BY <1>4 DEF SweepPod, Fails
  <2>2. l.todo \subseteq Agents
    BY <1>1, <1>4 DEF SweepPod, At, LocalOK, SweepOK, SweepLabels
  <2> QED
    BY <2>1, <2>2 DEF TouchesOnePod
<1> QED
  BY <1>2, <1>3, <1>4

LEMMA PassTouches ==
  ASSUME IInv, NEW w \in Passes, PassStep(w), pods' # pods
  PROVE  TouchesOnePod /\ Collecting' = Collecting
<1>1. w \in Workers /\ w \notin Sweepers /\ Sweepers \subseteq DOMAIN wk
  BY Apart DEF IInv, WorkersOK, Workers
<1>2. \/ CreateAgent(w) \/ CreateGroupAgent(w)
      \/ DeleteAgent(w) \/ DeleteGroupAgent(w) \/ SweepPod(w)
  BY DEF PassStep, Tick, OnConfigChange, BuildTargets, PerPvcStep, CheckDisabled, ListAgents,
         EnsureAgent, EnsureService, ResolveSecurity, GetAgent, PerNamespaceStep, NextNamespace,
         LookUpClass, Classify, EnsureGroupService, GetGroupAgent, ListGroupAgents, SharedStep,
         SweepService, GCPerPVCAll, GCNamespaceAgents, Answers, Fails, CreateService, DeleteService,
         apiVars
<1>3. TouchesOnePod
  BY <1>1, <1>2, CreatesFromLoads, DeletesAnAgent
<1>4. \E r : wk' = [wk EXCEPT ![w] = r]
  BY <1>2 DEF CreateAgent, CreateGroupAgent, DeleteAgent, DeleteGroupAgent, SweepPod, Become
<1>5. \A x \in Sweepers : wk'[x] = wk[x]
  BY <1>1, <1>4
<1> QED
  BY <1>3, <1>5 DEF Collecting, At

LEMMA SweepTouches ==
  ASSUME IInv, NEW w \in Sweepers, SweepStep(w), pods' # pods
  PROVE  TouchesOnePod /\ Collecting' = Collecting /\ cfg' = cfg
<1>1. w \in Workers /\ w \in DOMAIN wk
  BY DEF IInv, WorkersOK, Workers
<1>2. SweepPod(w)
  BY DEF SweepStep, SharedStep, SweepService, GCPerPVCAll, GCNamespaceAgents, NextNamespace, Answers,
         Fails, DeleteService, apiVars
<1>3. wk[w].pc = "sweep" /\ cfg' = cfg /\ DOMAIN wk[w] = Fields
  BY <1>1, <1>2 DEF SweepPod, At, procVars, IInv, WorkersOK, LocalOK, ShapeOK
<1>4. PICK a : wk' = [wk EXCEPT ![w] = [wk[w] EXCEPT !.pc = "sweepService", !.cur = a, !.todo = @ \ {a}]]
  BY <1>2 DEF SweepPod, Become
<1>5. wk'[w].pc = "sweepService"
  BY <1>1, <1>3, <1>4 DEF Fields
<1>6. Collecting /\ Collecting'
  BY <1>3, <1>5 DEF Collecting, At
<1> QED
  BY <1>1, <1>2, <1>3, <1>6, DeletesAnAgent

(* A step leaves the Pods alone and applies at most one load, or it applies *)
(* none and touches one Pod.                                               *)
LEMMA PodsStep ==
  ASSUME IInv, [Next]_vars
  PROVE  \/ pods' = pods /\ cfg' \in {cfg, cfg + 1} \cap 1..Loads
         \/ TouchesOnePod /\ cfg' = cfg /\ Collecting' = Collecting
<1>0. cfg \in Versions /\ cfg \in 1..Loads
  BY DEF IInv, ProcessOK, Versions
<1>1. CASE ApplyNewConfig
  BY <1>0, <1>1, LoadsAssumption DEF ApplyNewConfig
<1>2. CASE WatcherStep
  BY <1>0, <1>2 DEF WatcherStep, SetDefaults, SetOverrides, apiVars
<1>3. ASSUME NEW w \in Passes, PassStep(w)
      PROVE  \/ pods' = pods /\ cfg' = cfg
             \/ TouchesOnePod /\ cfg' = cfg /\ Collecting' = Collecting
  BY <1>3, PassKeepsLoads, PassTouches
<1>4. ASSUME NEW w \in Handlers, GcRequest(w) \/ SweepStep(w) \/ GcCancelled(w) \/ Enable(w)
      PROVE  \/ pods' = pods /\ cfg' = cfg
             \/ TouchesOnePod /\ cfg' = cfg /\ Collecting' = Collecting
  <2>1. w \in Sweepers
    BY DEF Sweepers
  <2>2. cfg' = cfg
    BY <1>4, <2>1, SweeperStep
  <2>3. CASE SweepStep(w)
    BY <2>1, <2>2, <2>3, SweepTouches
  <2>4. CASE GcRequest(w) \/ GcCancelled(w) \/ Enable(w)
    BY <2>2, <2>4 DEF GcRequest, GcCancelled, Enable, apiVars
  <2> QED
    BY <1>4, <2>3, <2>4
<1>5. CASE SweepStep(Shutdown)
  <2>1. Shutdown \in Sweepers
    BY DEF Sweepers
  <2> QED
    BY <1>0, <1>5, <2>1, SweeperStep, SweepTouches
<1>6. CASE ShutdownExits
  BY <1>0, <1>6 DEF ShutdownExits, apiVars, procVars
<1>7. CASE Restart
  BY <1>7 DEF Restart, Versions
<1>8. CASE ClusterStep /\ UNCHANGED <<procVars, wk>>
  <2>1. cfg' = cfg /\ Collecting' = Collecting
    BY <1>8 DEF procVars, Collecting, At
  <2>2. (\E a \in Agents : PodGone(a) \/ PodFails(a)) \/ pods' = pods
    BY <1>8 DEF ClusterStep, ClaimAdded, ClaimRemoved
  <2> QED
    BY <1>0, <2>1, <2>2 DEF TouchesOnePod
<1>9. CASE UNCHANGED vars
  BY <1>0, <1>9 DEF vars, apiVars, procVars
<1> QED
  BY <1>0, <1>1, <1>2, <1>3, <1>4, <1>5, <1>6, <1>7, <1>8, <1>9 DEF Next

(* A Pod is its phase and its spec: to terminate a terminating Pod is no    *)
(* change.                                                                 *)
PodsAreRecords ==
  pods = [a \in Agents |-> [phase |-> pods[a].phase, spec |-> pods[a].spec]]

LEMMA RecordsInvariant == Spec => []PodsAreRecords
<1>1. Init => PodsAreRecords
  BY DEF Init, ApiInit, PodsAreRecords, NoPod
<1>2. IInv /\ PodsAreRecords /\ [Next]_vars => PodsAreRecords'
  <2> SUFFICES ASSUME IInv, PodsAreRecords, TouchesOnePod
               PROVE  PodsAreRecords'
    BY PodsStep DEF PodsAreRecords
  <2>1. PICK a \in Agents : \/ \E spec : SpecBy(cfg, a, spec) /\ CreatePod(a, spec)
                            \/ DeletePod(a) \/ PodGone(a) \/ PodFails(a)
    BY DEF TouchesOnePod
  <2>2. /\ DOMAIN pods = Agents
        /\ \A b \in Agents : pods[b] = [phase |-> pods[b].phase, spec |-> pods[b].spec]
    BY DEF PodsAreRecords
  <2>3. ASSUME NEW phase, NEW spec, pods' = [pods EXCEPT ![a] = [phase |-> phase, spec |-> spec]]
        PROVE  PodsAreRecords'
    <3>1. \A b \in Agents : pods'[b] = [phase |-> pods'[b].phase, spec |-> pods'[b].spec]
      BY <2>2, <2>3
    <3> QED
      BY <2>2, <2>3, <3>1 DEF PodsAreRecords
  <2>4. CASE pods' = pods
    BY <2>4 DEF PodsAreRecords
  <2>5. CASE \E spec : SpecBy(cfg, a, spec) /\ CreatePod(a, spec)
    BY <2>3, <2>4, <2>5 DEF CreatePod
  <2>6. CASE DeletePod(a) \/ PodFails(a)
    <3>1. PICK phase : pods' = pods \/ pods' = [pods EXCEPT ![a] = [pods[a] EXCEPT !.phase = phase]]
      BY <2>6 DEF DeletePod, PodFails
    <3>2. [pods[a] EXCEPT !.phase = phase] = [phase |-> phase, spec |-> pods[a].spec]
      BY <2>2
    <3> QED
      BY <2>3, <2>4, <3>1, <3>2
  <2>7. CASE PodGone(a)
    BY <2>3, <2>7 DEF PodGone, NoPod
  <2> QED
    BY <2>1, <2>5, <2>6, <2>7
<1> QED
  BY <1>1, <1>2, IInvInvariant, PTL DEF Spec

LEMMA StepImplementsFleet ==
  ASSUME IInv, SteadyInv, PodsAreRecords, [Next]_vars
  PROVE  [Fleet!Next]_Fleet!vars
<1>0. Collecting' \in BOOLEAN /\ cfg \in 1..Loads
  BY DEF Collecting, IInv, ProcessOK, Versions
<1>1. CASE pods' = pods /\ cfg' \in {cfg, cfg + 1} \cap 1..Loads
  <2>1. Fleet!Load
    BY <1>0, <1>1 DEF Fleet!Load
  <2> QED
    BY <2>1 DEF Fleet!Next
<1>2. CASE TouchesOnePod /\ cfg' = cfg /\ Collecting' = Collecting
  <2>1. CASE pods' = pods
    BY <1>0, <1>1, <1>2, <2>1
  <2>2. CASE pods' # pods
    <3>1. PICK a \in Agents : \/ \E spec : SpecBy(cfg, a, spec) /\ CreatePod(a, spec)
                              \/ DeletePod(a) \/ PodGone(a) \/ PodFails(a)
      BY <1>2 DEF TouchesOnePod
    <3>2. /\ a \in DOMAIN pods /\ DOMAIN pods[a] = {"phase", "spec"} /\ pods[a].phase \in Phases
      BY DEF IInv, ClusterOK, PodOK
    <3>3. ASSUME NEW spec, SpecBy(cfg, a, spec), CreatePod(a, spec)
          PROVE  Fleet!Create(a)
      <4>1. pods[a].phase = "absent" /\ pods' = [pods EXCEPT ![a] = [phase |-> "up", spec |-> spec]]
        BY <2>2, <3>3 DEF CreatePod, Exists
      <4>2. pods'[a].phase = "up" /\ pods'[a].spec = spec
        BY <3>2, <4>1
      <4> QED
        BY <1>2, <3>3, <4>1, <4>2 DEF Fleet!Create, Fleet!Running
    <3>4. CASE DeletePod(a)
      <4>1. pods[a].phase # "absent" /\ pods' = [pods EXCEPT ![a].phase = "terminating"]
        BY <2>2, <3>4 DEF DeletePod, Exists
      <4>2. pods[a].phase # "terminating"
        <5> SUFFICES ASSUME pods[a].phase = "terminating" PROVE FALSE
          OBVIOUS
        <5>1. pods[a] = [phase |-> pods[a].phase, spec |-> pods[a].spec]
          BY DEF PodsAreRecords
        <5>2. [pods[a] EXCEPT !.phase = "terminating"] = pods[a]
          BY <5>1
        <5>3. [pods EXCEPT ![a] = pods[a]] = pods
          BY DEF PodsAreRecords
        <5> QED
          BY <2>2, <4>1, <5>2, <5>3
      <4>3. pods[a].phase \in {"up", "failed"} /\ pods'[a].phase = "terminating"
        BY <3>2, <4>1, <4>2 DEF Phases
      <4>4. a \in SteadyAgents(cfg) => Collecting
        <5> SUFFICES ASSUME NEW t \in SteadyBy(cfg), a = AgentName(t) PROVE Collecting
          BY DEF SteadyAgents
        <5>1. t \in Target /\ Stopped(AgentName(t))
          BY <4>3, SteadyFacts DEF Stopped
        <5>2. PICK w \in Sweepers : At(w, "sweep")
          BY <5>1, OnlySweepersStop
        <5> QED
          BY <5>2 DEF Collecting, At
      <4> QED
        BY <1>2, <4>1, <4>3, <4>4 DEF Fleet!Stop, Fleet!Next
    <3>5. CASE PodGone(a)
      BY <1>2, <3>5 DEF PodGone, NoPod, Fleet!Gone, Fleet!Nobody, Fleet!Next
    <3>6. CASE PodFails(a)
      BY <1>2, <3>6 DEF PodFails, Fleet!Fail, Fleet!Next
    <3> QED
      BY <3>1, <3>3, <3>4, <3>5, <3>6 DEF Fleet!Next
  <2> QED
    BY <2>1, <2>2
<1> QED
  BY <1>1, <1>2, PodsStep

(* Whatever goroutines, loads, failures and restarts bring it about, the    *)
(* controller's agents are a fleet: made from applied loads, never changed  *)
(* in place, and kept where all loads agree.                               *)
THEOREM FleetImplemented == Spec => ImplementsFleet
<1>1. Init => Fleet!Init
  <2> SUFFICES ASSUME Init PROVE Fleet!Init
    OBVIOUS
  <2>1. \A w \in Sweepers : wk[w] = Idle
    <3>1. \A w \in Sweepers : w \in Workers /\ w # 1
      BY Apart, LoadsAssumption DEF Workers, Versions, Sweepers
    <3> QED
      BY <3>1 DEF Init
  <2>2. Collecting = FALSE
    BY <2>1 DEF Collecting, At, Idle
  <2>3. pods = [a \in Agents |-> IF a \in Leftover THEN [phase |-> "up", spec |-> NoSpec] ELSE NoPod]
    BY DEF Init, ApiInit, NoPod
  <2> QED
    BY <2>2, <2>3 DEF Init, NoPod, Fleet!Init, Fleet!Running, Fleet!Nobody
<1>2. IInv /\ SteadyInv /\ PodsAreRecords /\ [Next]_vars => [Fleet!Next]_Fleet!vars
  BY StepImplementsFleet
<1> QED
  BY <1>1, <1>2, IInvInvariant, SteadyInvInvariant, RecordsInvariant, PTL DEF Spec, ImplementsFleet, Fleet!Spec
=============================================================================
