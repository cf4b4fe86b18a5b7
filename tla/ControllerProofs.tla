-------------------------- MODULE ControllerProofs --------------------------
(***************************************************************************)
(* Proofs about the controller, for any cluster, any sequence of loads and  *)
(* any number of passes and GC requests that overlap.                      *)
(*                                                                         *)
(* The inductive invariant says of each goroutine what its local variables  *)
(* hold at each step (LocalOK), and of each Pod where its spec comes from   *)
(* (MadeBy).  Both are about the number of loads applied so far and can     *)
(* only become true as it grows, so a goroutine's locals stay good whatever *)
(* the others do, and a step has to be looked at for its own goroutine and  *)
(* for the one Pod it touches.                                             *)
(***************************************************************************)
EXTENDS ControllerProperties, TLAPS

(* Agent a with this spec was left behind or made from loads 1..c. *)
MadeBy(c, a, spec) ==
  \/ a \in Leftover /\ spec = NoSpec
  \/ \E t \in WatchedBy(c) : a = AgentName(t) /\ PvcSpecBy(c, t, spec)
  \/ \E ns \in Namespaces, key \in Keys :
       a = NamespaceAgentGroupName(ns, key) /\ GroupSpecBy(c, ns, key, spec)

----------------------------------------------------------------------------
(* The local variables of a goroutine.                                     *)

Fields == {"pc", "targets", "seen", "todo", "cur", "def", "ovr", "want", "namespaces", "ns",
           "groups", "ret"}

TargetLabels == {"service", "resolve", "get", "delete", "create"}
GroupLabels == {"getGroup", "deleteGroup", "createGroup"}
SweepLabels == {"sweep", "sweepService"}

ShapeOK(l, c) ==
  /\ DOMAIN l = Fields
  /\ l.pc \in Labels
  /\ l.targets \subseteq WatchedBy(c)
  /\ l.seen \subseteq Target
  /\ l.namespaces \subseteq {t[1] : t \in l.targets}

(* In the loop over the targets of agent-per-pvc. *)
TargetOK(l, c) ==
  /\ l.pc \in TargetLabels \cup {"reconcile", "list", "ensure"} => l.namespaces = {} /\ l.groups = {}
  /\ l.pc = "ensure" => l.todo \subseteq l.targets /\ l.todo # {}
  /\ l.pc \in TargetLabels => l.todo \subseteq l.targets /\ l.cur \in l.targets
  /\ l.pc \in {"resolve", "get", "delete", "create"} => l.def \in 1..c
  /\ l.pc \in {"get", "delete", "create"} => l.ovr \in 1..c
  /\ l.pc \in {"delete", "create"} => \E e \in 1..c : l.want = PvcHash(l.def, l.ovr, e, l.cur)

(* In a sweep. *)
SweepOK(l) ==
  l.pc \in SweepLabels =>
    /\ l.todo \subseteq Agents
    /\ l.pc = "sweepService" => l.cur \in Agents
    /\ l.ret \in {"ended", "namespace", "lookup"}

(* In the loop over the namespaces: every PVC of a group is a target of the *)
(* namespace with the group's profile.                                     *)
GroupsOK(l, c) ==
  /\ \A g \in l.groups :
       /\ g[1] \in Members(l)
       /\ g[2] \in ProfilesBy(c, g[1])
  /\ l.pc \in {"gcPerPvc", "namespace", "gcNamespaces"} \cup SweepLabels => l.groups = {}
  /\ l.pc \in SweepLabels /\ l.ret = "lookup" => Members(l) # {}
  /\ l.pc = "lookup" => Members(l) \ {g[1] : g \in l.groups} # {}
  /\ l.pc = "classify" => l.cur \in Members(l) /\ l.def \in 1..c
  /\ l.pc \in GroupLabels \cup {"group"} => l.todo \subseteq GroupKeys(l.groups)
  /\ l.pc \in GroupLabels =>
       /\ l.cur \in GroupKeys(l.groups)
       /\ \E e \in 1..c : l.want = GroupHash(GroupPvcs(l.groups, l.cur), l.cur, e)

LocalOK(l, c) == ShapeOK(l, c) /\ TargetOK(l, c) /\ SweepOK(l) /\ GroupsOK(l, c)

----------------------------------------------------------------------------

PodOK(a, pod, c) ==
  /\ DOMAIN pod = {"phase", "spec"}
  /\ pod.phase \in Phases
  /\ pod.phase # "absent" => MadeBy(c, a, pod.spec)

ClusterOK ==
  /\ claims \subseteq Target
  /\ services \subseteq Agents
  /\ budget \in [Disturbances -> Nat]
  /\ DOMAIN pods = Agents
  /\ \A a \in Agents : PodOK(a, pods[a], cfg)

ProcessOK ==
  /\ cfg \in Versions
  /\ defaults \in 1..cfg /\ overrides \in 1..cfg
  /\ disabled \in BOOLEAN

WorkersOK ==
  /\ DOMAIN wk = Workers
  /\ \A w \in Workers : LocalOK(wk[w], cfg)

(* The goroutine of a load runs only once the load has been applied. *)
LaterIdle == \A w \in Versions : w > cfg => At(w, "idle")

IInv == ClusterOK /\ ProcessOK /\ WorkersOK /\ LaterIdle /\ DisabledOnlyDuringGc

----------------------------------------------------------------------------
(* More loads, more that they can have given.                              *)

LEMMA LaterLoads ==
  ASSUME NEW c \in Nat, NEW d \in Nat, c <= d
  PROVE  /\ 1..c \subseteq 1..d
         /\ WatchedBy(c) \subseteq WatchedBy(d)
         /\ \A t : ProfilesBy(c, t) \subseteq ProfilesBy(d, t)
         /\ \A ns, key : ShareBy(c, ns, key) \subseteq ShareBy(d, ns, key)
<1>1. 1..c \subseteq 1..d
  OBVIOUS
<1>2. WatchedBy(c) \subseteq WatchedBy(d)
  BY <1>1 DEF WatchedBy
<1>3. \A t : ProfilesBy(c, t) \subseteq ProfilesBy(d, t)
  BY <1>1 DEF ProfilesBy
<1>4. QED
  BY <1>1, <1>2, <1>3 DEF ShareBy

LEMMA MadeLater ==
  ASSUME NEW c \in Nat, NEW d \in Nat, c <= d, NEW a, NEW spec, MadeBy(c, a, spec)
  PROVE  MadeBy(d, a, spec)
<1>1. ASSUME NEW ns, NEW key, GroupSpecBy(c, ns, key, spec)
      PROVE  GroupSpecBy(d, ns, key, spec)
  <2>1. PICK mounted \in (SUBSET ShareBy(c, ns, key)) \ {{}} :
          /\ \E e \in 1..c : spec.hash = GroupHash(mounted, key, e)
          /\ \E f \in 1..c : spec.runs = GroupRuns(mounted, key, f)
    BY <1>1 DEF GroupSpecBy
  <2>2. mounted \in (SUBSET ShareBy(d, ns, key)) \ {{}} /\ 1..c \subseteq 1..d
    BY LaterLoads
  <2>3. QED
    BY <2>1, <2>2 DEF GroupSpecBy
<1>2. ASSUME NEW t \in WatchedBy(c), PvcSpecBy(c, t, spec)
      PROVE  t \in WatchedBy(d) /\ PvcSpecBy(d, t, spec)
  <2>1. t \in WatchedBy(d) /\ 1..c \subseteq 1..d
    BY LaterLoads
  <2>2. QED
    BY <1>2, <2>1 DEF PvcSpecBy
<1>3. QED
  BY <1>1, <1>2 DEF MadeBy

LEMMA LocalsStayOK ==
  ASSUME NEW c \in Nat, NEW d \in Nat, c <= d, NEW l, LocalOK(l, c)
  PROVE  LocalOK(l, d)
<1>1. /\ 1..c \subseteq 1..d
      /\ WatchedBy(c) \subseteq WatchedBy(d)
      /\ \A t : ProfilesBy(c, t) \subseteq ProfilesBy(d, t)
  BY LaterLoads
<1>2. ShapeOK(l, d)
  BY <1>1 DEF LocalOK, ShapeOK
<1>3. TargetOK(l, d)
  BY <1>1 DEF LocalOK, TargetOK
<1>4. SweepOK(l)
  BY DEF LocalOK
<1>5. GroupsOK(l, d)
  BY <1>1 DEF LocalOK, GroupsOK
<1>6. QED
  BY <1>2, <1>3, <1>4, <1>5 DEF LocalOK

LEMMA WatchedTargets ==
  ASSUME NEW c \in Versions
  PROVE  /\ c \in Nat /\ 1..c \subseteq Versions /\ c \in 1..c
         /\ WatchedBy(c) \subseteq Target
<1>1. c \in Nat /\ 1..c \subseteq Versions /\ c \in 1..c
  BY LoadsAssumption DEF Versions
<1>2. QED
  BY <1>1, WatchedAssumption DEF WatchedBy

----------------------------------------------------------------------------
(* Where a goroutine can go.                                               *)

LEMMA RestOK ==
  ASSUME NEW c, NEW w
  PROVE  LocalOK(Idle, c) /\ LocalOK(Sleeping, c) /\ LocalOK(Ended(w), c)
<1>1. ASSUME NEW label \in {"idle", "sleep", "enable"}
      PROVE  LocalOK([Idle EXCEPT !.pc = label], c)
  BY DEF LocalOK, ShapeOK, TargetOK, SweepOK, GroupsOK, Idle, Fields, Labels, TargetLabels,
         GroupLabels, SweepLabels
<1>2. Idle = [Idle EXCEPT !.pc = "idle"]
  BY DEF Idle
<1>3. QED
  BY <1>1, <1>2 DEF Sleeping, Ended

LEMMA ResumeOK ==
  ASSUME NEW c, NEW w, NEW l, ShapeOK(l, c), NEW label \in {"ended", "namespace", "lookup"},
         label # "ended" => l.groups = {},
         label = "lookup" => Members(l) # {}
  PROVE  LocalOK(Resume(w, l, label), c)
<1>1. CASE label = "ended"
  BY <1>1, RestOK DEF Resume
<1>2. CASE label # "ended"
  <2> DEFINE r == [l EXCEPT !.pc = label, !.todo = {}, !.cur = None, !.ret = "idle"]
  <2>1. /\ DOMAIN r = Fields /\ r.pc = label /\ r.targets = l.targets /\ r.seen = l.seen
        /\ r.namespaces = l.namespaces /\ r.ns = l.ns /\ r.groups = {} /\ r.todo = {}
    BY <1>2 DEF ShapeOK, Fields
  <2>2. Members(r) = Members(l)
    BY <2>1 DEF Members
  <2> HIDE DEF r
  <2>3. LocalOK(r, c)
    BY <1>2, <2>1, <2>2 DEF LocalOK, ShapeOK, TargetOK, SweepOK, GroupsOK, Labels, TargetLabels,
                            GroupLabels, SweepLabels
  <2>4. QED
    BY <1>2, <2>3 DEF Resume, r
<1>3. QED
  BY <1>1, <1>2

LEMMA SweepThenOK ==
  ASSUME NEW c, NEW w, NEW l, ShapeOK(l, c), l.groups = {},
         NEW label \in {"ended", "namespace", "lookup"},
         label = "lookup" => Members(l) # {},
         NEW agents \in SUBSET Agents
  PROVE  LocalOK(SweepThen(w, l, agents, label), c)
<1>1. CASE agents = {}
  BY <1>1, ResumeOK DEF SweepThen
<1>2. CASE agents # {}
  <2> DEFINE r == [l EXCEPT !.pc = "sweep", !.todo = agents, !.cur = None, !.ret = label]
  <2>1. /\ DOMAIN r = Fields /\ r.pc = "sweep" /\ r.targets = l.targets /\ r.seen = l.seen
        /\ r.namespaces = l.namespaces /\ r.ns = l.ns /\ r.groups = {} /\ r.todo = agents
        /\ r.ret = label
    BY DEF ShapeOK, Fields
  <2>2. Members(r) = Members(l)
    BY <2>1 DEF Members
  <2> HIDE DEF r
  <2>3. LocalOK(r, c)
    BY <2>1, <2>2 DEF LocalOK, ShapeOK, TargetOK, SweepOK, GroupsOK, Labels, TargetLabels,
                      GroupLabels, SweepLabels
  <2>4. QED
    BY <1>2, <2>3 DEF SweepThen, r
<1>3. QED
  BY <1>1, <1>2

LEMMA NextTargetOK ==
  ASSUME NEW c, NEW w, NEW l, ShapeOK(l, c), l.todo \subseteq l.targets,
         l.namespaces = {}, l.groups = {}
  PROVE  LocalOK(NextTarget(w, l), c)
<1> DEFINE fresh == [l EXCEPT !.cur = None, !.def = 0, !.ovr = 0, !.want = NoHash]
           next == [fresh EXCEPT !.pc = "ensure"]
           last == [fresh EXCEPT !.targets = {}, !.seen = {}]
           stale == {AgentName(t) : t \in l.seen \ l.targets}
<1>1. CASE l.todo # {}
  <2>1. /\ DOMAIN next = Fields /\ next.pc = "ensure" /\ next.targets = l.targets
        /\ next.seen = l.seen /\ next.namespaces = {} /\ next.groups = {} /\ next.todo = l.todo
    BY DEF ShapeOK, Fields
  <2> HIDE DEF next
  <2>2. LocalOK(next, c)
    BY <1>1, <2>1 DEF LocalOK, ShapeOK, TargetOK, SweepOK, GroupsOK, Labels, TargetLabels,
                      GroupLabels, SweepLabels
  <2>3. QED
    BY <1>1, <2>2 DEF NextTarget, next
<1>2. CASE l.todo = {}
  <2>1. /\ DOMAIN last = Fields /\ last.pc = l.pc /\ last.targets = {} /\ last.seen = {}
        /\ last.namespaces = {} /\ last.groups = {}
    BY DEF ShapeOK, Fields
  <2>2. stale \subseteq Agents
    BY DEF ShapeOK, Agents, PvcAgents
  <2> HIDE DEF last, stale
  <2>3. ShapeOK(last, c)
    BY <2>1 DEF ShapeOK
  <2>4. LocalOK(SweepThen(w, last, stale, "ended"), c)
    BY <2>1, <2>2, <2>3, SweepThenOK
  <2>5. QED
    BY <1>2, <2>4 DEF NextTarget, last, stale
<1>3. QED
  BY <1>1, <1>2

----------------------------------------------------------------------------
(* What a call does to the cluster.                                        *)

LEMMA NamesAreAgents ==
  /\ \A t \in Target : AgentName(t) \in Agents
  /\ \A ns \in Namespaces, key \in Keys \cup {LegacyKey} : NamespaceAgentGroupName(ns, key) \in Agents
  BY DEF Agents, PvcAgents, GroupAgents

LEMMA SpendOK ==
  ASSUME budget \in [Disturbances -> Nat], NEW kind \in Disturbances, Spend(kind)
  PROVE  budget' \in [Disturbances -> Nat]
  BY DEF Spend

LEMMA FailsOK ==
  ASSUME ClusterOK, Fails, cfg' = cfg
  PROVE  ClusterOK'
<1>1. budget' \in [Disturbances -> Nat]
  BY SpendOK DEF ClusterOK, Fails, Disturbances
<1>2. QED
  BY <1>1 DEF ClusterOK, Fails

LEMMA AnswersOK ==
  ASSUME ClusterOK, Answers, cfg' = cfg
  PROVE  ClusterOK'
  BY DEF ClusterOK, Answers, apiVars

(* One Pod changes, to one that is good for its name. *)
LEMMA OnePodOK ==
  ASSUME ClusterOK, NEW a \in Agents, NEW pod, PodOK(a, pod, cfg), cfg' = cfg,
         pods' = [pods EXCEPT ![a] = pod],
         claims' = claims, services' = services, budget' \in [Disturbances -> Nat]
  PROVE  ClusterOK'
<1>1. DOMAIN pods' = Agents /\ pods'[a] = pod /\ \A b \in Agents \ {a} : pods'[b] = pods[b]
  BY DEF ClusterOK
<1>2. \A b \in Agents : PodOK(b, pods'[b], cfg)
  BY <1>1 DEF ClusterOK
<1>3. QED
  BY <1>1, <1>2 DEF ClusterOK

LEMMA CreatePodOK ==
  ASSUME ClusterOK, NEW a \in Agents, NEW spec, MadeBy(cfg, a, spec), CreatePod(a, spec), cfg' = cfg
  PROVE  ClusterOK'
<1>1. CASE Exists(a)
  BY <1>1 DEF CreatePod, ClusterOK
<1>2. CASE ~ Exists(a)
  <2>1. PodOK(a, [phase |-> "up", spec |-> spec], cfg)
    BY DEF PodOK, Phases
  <2>2. pods' = [pods EXCEPT ![a] = [phase |-> "up", spec |-> spec]]
    BY <1>2 DEF CreatePod
  <2>3. budget' \in [Disturbances -> Nat] /\ claims' = claims /\ services' = services
    BY DEF CreatePod, ClusterOK
  <2>4. QED
    BY <2>1, <2>2, <2>3, OnePodOK
<1>3. QED
  BY <1>1, <1>2

(* A Pod changes its phase and keeps its spec. *)
LEMMA PhaseOK ==
  ASSUME ClusterOK, NEW a \in Agents, Exists(a), NEW phase \in Phases, cfg' = cfg,
         pods' = [pods EXCEPT ![a].phase = phase],
         claims' = claims, services' = services, budget' \in [Disturbances -> Nat]
  PROVE  ClusterOK'
<1> DEFINE pod == [pods[a] EXCEPT !.phase = phase]
<1>1. PodOK(a, pods[a], cfg) /\ pods[a].phase # "absent"
  BY DEF ClusterOK, Exists
<1>2. PodOK(a, pod, cfg)
  BY <1>1 DEF PodOK
<1>3. pods' = [pods EXCEPT ![a] = pod]
  BY DEF ClusterOK
<1> HIDE DEF pod
<1>4. QED
  BY <1>2, <1>3, OnePodOK

LEMMA DeletePodOK ==
  ASSUME ClusterOK, NEW a \in Agents, DeletePod(a), cfg' = cfg
  PROVE  ClusterOK'
<1>1. CASE Exists(a)
  <2>1. pods' = [pods EXCEPT ![a].phase = "terminating"]
    BY <1>1 DEF DeletePod
  <2>2. budget' \in [Disturbances -> Nat] /\ claims' = claims /\ services' = services
    BY DEF DeletePod, ClusterOK
  <2>3. "terminating" \in Phases
    BY DEF Phases
  <2>4. QED
    BY <1>1, <2>1, <2>2, <2>3, PhaseOK
<1>2. CASE ~ Exists(a)
  BY <1>2 DEF DeletePod, ClusterOK
<1>3. QED
  BY <1>1, <1>2

LEMMA ServiceOK ==
  ASSUME ClusterOK, NEW a \in Agents, CreateService(a) \/ DeleteService(a), cfg' = cfg
  PROVE  ClusterOK'
  BY DEF ClusterOK, CreateService, DeleteService

LEMMA ClusterStepOK ==
  ASSUME ClusterOK, ClusterStep, cfg' = cfg
  PROVE  ClusterOK'
<1>1. ASSUME NEW a \in Agents, PodGone(a) PROVE ClusterOK'
  <2>1. PodOK(a, NoPod, cfg)
    BY DEF PodOK, NoPod, Phases
  <2>2. budget' \in [Disturbances -> Nat]
    BY <1>1 DEF PodGone, ClusterOK
  <2>3. QED
    BY <1>1, <2>1, <2>2, OnePodOK DEF PodGone
<1>2. ASSUME NEW a \in Agents, PodFails(a) PROVE ClusterOK'
  <2>1. budget' \in [Disturbances -> Nat]
    BY <1>2, SpendOK DEF PodFails, ClusterOK, Disturbances
  <2>2. Exists(a) /\ "failed" \in Phases
    BY <1>2 DEF PodFails, Exists, Phases
  <2>3. QED
    BY <1>2, <2>1, <2>2, PhaseOK DEF PodFails
<1>3. ASSUME NEW t \in Target, ClaimAdded(t) \/ ClaimRemoved(t) PROVE ClusterOK'
  <2>1. budget' \in [Disturbances -> Nat]
    BY <1>3, SpendOK DEF ClaimAdded, ClaimRemoved, ClusterOK, Disturbances
  <2>2. QED
    BY <1>3, <2>1 DEF ClaimAdded, ClaimRemoved, ClusterOK
<1>4. QED
  BY <1>1, <1>2, <1>3 DEF ClusterStep

----------------------------------------------------------------------------
(* The steps of a pass.  Each leaves the cluster good and its goroutine     *)
(* with good local variables.                                              *)

Moves(w) ==
  /\ ClusterOK'
  /\ UNCHANGED procVars
  /\ \E l : LocalOK(l, cfg) /\ Become(w, l)

LEMMA SweepPodOK ==
  ASSUME IInv, NEW w \in Workers, SweepPod(w)
  PROVE  Moves(w)
<1>1. UNCHANGED procVars /\ cfg' = cfg /\ wk[w].pc = "sweep" /\ LocalOK(wk[w], cfg) /\ ClusterOK
  BY DEF SweepPod, At, procVars, IInv, WorkersOK
<1>2. PICK a \in wk[w].todo :
        /\ DeletePod(a) \/ Fails
        /\ Become(w, [wk[w] EXCEPT !.pc = "sweepService", !.cur = a, !.todo = @ \ {a}])
  BY DEF SweepPod
<1> DEFINE l == wk[w]
           r == [wk[w] EXCEPT !.pc = "sweepService", !.cur = a, !.todo = @ \ {a}]
<1>3. l.todo \subseteq Agents /\ l.ret \in {"ended", "namespace", "lookup"}
      /\ DOMAIN l = Fields
  BY <1>1 DEF LocalOK, SweepOK, ShapeOK, SweepLabels
<1>4. ClusterOK'
  BY <1>1, <1>2, <1>3, DeletePodOK, FailsOK
<1>5. /\ DOMAIN r = Fields /\ r.pc = "sweepService" /\ r.targets = l.targets /\ r.seen = l.seen
      /\ r.namespaces = l.namespaces /\ r.ns = l.ns /\ r.groups = l.groups
      /\ r.todo = l.todo \ {a} /\ r.cur = a /\ r.ret = l.ret
  BY <1>3 DEF Fields
<1>6. Members(r) = Members(l)
  BY <1>5 DEF Members
<1> HIDE DEF r
<1>7. LocalOK(r, cfg)
  BY <1>1, <1>3, <1>5, <1>6 DEF LocalOK, ShapeOK, TargetOK, SweepOK, GroupsOK, Labels, TargetLabels,
                               GroupLabels, SweepLabels
<1>8. QED
  BY <1>1, <1>2, <1>4, <1>7 DEF Moves, r

LEMMA SweepServiceOK ==
  ASSUME IInv, NEW w \in Workers, SweepService(w)
  PROVE  Moves(w)
<1> DEFINE l == wk[w]
<1>1. UNCHANGED procVars /\ cfg' = cfg /\ l.pc = "sweepService" /\ LocalOK(l, cfg) /\ ClusterOK
  BY DEF SweepService, At, procVars, IInv, WorkersOK
<1>2. /\ l.todo \subseteq Agents /\ l.cur \in Agents /\ l.ret \in {"ended", "namespace", "lookup"}
      /\ l.groups = {}
      /\ l.ret = "lookup" => Members(l) # {}
      /\ ShapeOK(l, cfg)
  BY <1>1 DEF LocalOK, SweepOK, GroupsOK, SweepLabels
<1>3. ClusterOK'
  BY <1>1, <1>2, ServiceOK, FailsOK DEF SweepService
<1>4. LocalOK(SweepThen(w, l, l.todo, l.ret), cfg)
  BY <1>2, SweepThenOK
<1>5. QED
  BY <1>1, <1>3, <1>4 DEF Moves, SweepService

LEMMA GCPerPVCAllOK ==
  ASSUME IInv, NEW w \in Workers, GCPerPVCAll(w)
  PROVE  Moves(w)
<1> DEFINE l == wk[w]
           found == {a \in PvcAgents : Exists(a)}
<1>1. UNCHANGED procVars /\ cfg' = cfg /\ l.pc = "gcPerPvc" /\ LocalOK(l, cfg) /\ ClusterOK
  BY DEF GCPerPVCAll, At, procVars, IInv, WorkersOK
<1>2. ClusterOK'
  BY <1>1, AnswersOK, FailsOK DEF GCPerPVCAll
<1>3. l.groups = {} /\ ShapeOK(l, cfg)
  BY <1>1 DEF LocalOK, GroupsOK
<1>4. found \subseteq Agents
  BY DEF Agents
<1>5. LocalOK(SweepThen(w, l, found, "namespace"), cfg) /\ LocalOK(Resume(w, l, "namespace"), cfg)
  BY <1>3, <1>4, SweepThenOK, ResumeOK
<1>6. QED
  BY <1>1, <1>2, <1>5 DEF Moves, GCPerPVCAll

LEMMA GCNamespaceAgentsOK ==
  ASSUME IInv, NEW w \in Workers, GCNamespaceAgents(w)
  PROVE  Moves(w)
<1> DEFINE l == wk[w]
           keep == {t[1] : t \in wk[w].targets}
           stale == {a \in GroupAgents : Exists(a) /\ a[2] \notin keep}
<1>1. UNCHANGED procVars /\ cfg' = cfg /\ l.pc = "gcNamespaces" /\ LocalOK(l, cfg) /\ ClusterOK
  BY DEF GCNamespaceAgents, At, procVars, IInv, WorkersOK
<1>2. ClusterOK'
  BY <1>1, AnswersOK, FailsOK DEF GCNamespaceAgents
<1>3. l.groups = {} /\ ShapeOK(l, cfg)
  BY <1>1 DEF LocalOK, GroupsOK
<1>4. stale \subseteq Agents
  BY DEF Agents
<1>5. LocalOK(SweepThen(w, l, stale, "ended"), cfg) /\ LocalOK(Ended(w), cfg)
  BY <1>3, <1>4, SweepThenOK, RestOK
<1>6. QED
  BY <1>1, <1>2, <1>5 DEF Moves, GCNamespaceAgents

LEMMA SharedStepOK ==
  ASSUME IInv, NEW w \in Workers, SharedStep(w)
  PROVE  Moves(w)
  BY SweepPodOK, SweepServiceOK, GCPerPVCAllOK, GCNamespaceAgentsOK DEF SharedStep

LEMMA NextNamespaceOK ==
  ASSUME IInv, NEW w \in Workers, NextNamespace(w)
  PROVE  Moves(w)
<1> DEFINE l == wk[w]
<1>1. UNCHANGED <<apiVars, procVars>> /\ cfg' = cfg /\ l.pc = "namespace" /\ LocalOK(l, cfg)
      /\ ClusterOK /\ ClusterOK'
  BY AnswersOK DEF NextNamespace, At, procVars, IInv, WorkersOK, Answers
<1>2. l.groups = {} /\ ShapeOK(l, cfg) /\ DOMAIN l = Fields /\ cfg \in Versions
  BY <1>1 DEF LocalOK, GroupsOK, ShapeOK, IInv, ProcessOK
<1>3. CASE l.namespaces = {}
  <2> DEFINE r == [l EXCEPT !.pc = "gcNamespaces"]
  <2>1. /\ DOMAIN r = Fields /\ r.pc = "gcNamespaces" /\ r.targets = l.targets /\ r.seen = l.seen
        /\ r.namespaces = {} /\ r.groups = {}
    BY <1>2, <1>3 DEF Fields
  <2> HIDE DEF r
  <2>2. LocalOK(r, cfg)
    BY <1>2, <2>1 DEF LocalOK, ShapeOK, TargetOK, SweepOK, GroupsOK, Labels, TargetLabels,
                      GroupLabels, SweepLabels
  <2>3. QED
    BY <1>1, <1>3, <2>2 DEF Moves, NextNamespace, r
<1>4. CASE l.namespaces # {}
  <2>1. PICK ns \in l.namespaces :
          Become(w, SweepThen(w, [l EXCEPT !.namespaces = @ \ {ns}, !.ns = ns],
                              {NamespaceAgentName(ns)}, "lookup"))
    BY <1>4 DEF NextNamespace
  <2> DEFINE r == [l EXCEPT !.namespaces = @ \ {ns}, !.ns = ns]
  <2>2. /\ DOMAIN r = Fields /\ r.pc = l.pc /\ r.targets = l.targets /\ r.seen = l.seen
        /\ r.namespaces = l.namespaces \ {ns} /\ r.groups = {} /\ r.ns = ns
    BY <1>2 DEF Fields
  <2> HIDE DEF r
  <2>3. ShapeOK(r, cfg)
    BY <1>2, <2>2 DEF ShapeOK
  <2>4. PICK t \in l.targets : t[1] = ns
    BY <1>2 DEF ShapeOK
  <2>5. t \in Members(r)
    BY <2>2, <2>4 DEF Members
  <2>6. ns \in Namespaces
    BY <1>2, <2>4, WatchedTargets DEF ShapeOK, Target
  <2>7. {NamespaceAgentName(ns)} \subseteq Agents
    BY <2>6, NamesAreAgents DEF NamespaceAgentName
  <2>8. LocalOK(SweepThen(w, r, {NamespaceAgentName(ns)}, "lookup"), cfg)
    BY <2>2, <2>3, <2>5, <2>7, SweepThenOK
  <2>9. QED
    BY <1>1, <2>1, <2>8 DEF Moves, r
<1>5. QED
  BY <1>3, <1>4

(* agent-per-pvc. *)

LEMMA CheckDisabledOK ==
  ASSUME IInv, NEW w \in Workers, CheckDisabled(w)
  PROVE  Moves(w)
<1> DEFINE l == wk[w]
           r == [l EXCEPT !.pc = "list"]
<1>1. UNCHANGED <<apiVars, procVars>> /\ cfg' = cfg /\ l.pc = "reconcile" /\ LocalOK(l, cfg)
      /\ ClusterOK'
  BY AnswersOK DEF CheckDisabled, At, procVars, IInv, WorkersOK, Answers
<1>2. DOMAIN l = Fields
  BY <1>1 DEF LocalOK, ShapeOK
<1>3. /\ DOMAIN r = Fields /\ r.pc = "list" /\ r.targets = l.targets /\ r.seen = l.seen
      /\ r.namespaces = l.namespaces /\ r.groups = l.groups
  BY <1>2 DEF Fields
<1> HIDE DEF r
<1>4. LocalOK(r, cfg)
  BY <1>1, <1>3 DEF LocalOK, ShapeOK, TargetOK, SweepOK, GroupsOK, Labels, TargetLabels,
                    GroupLabels, SweepLabels
<1>5. QED
  BY <1>1, <1>4, RestOK DEF Moves, CheckDisabled, r

LEMMA ListAgentsOK ==
  ASSUME IInv, NEW w \in Workers, ListAgents(w)
  PROVE  Moves(w)
<1> DEFINE l == wk[w]
           seen == {t \in Target : Exists(AgentName(t))}
           r == [l EXCEPT !.seen = seen, !.todo = l.targets]
<1>1. UNCHANGED procVars /\ cfg' = cfg /\ l.pc = "list" /\ LocalOK(l, cfg) /\ ClusterOK
  BY DEF ListAgents, At, procVars, IInv, WorkersOK
<1>2. ClusterOK'
  BY <1>1, AnswersOK, FailsOK DEF ListAgents
<1>3. DOMAIN l = Fields /\ l.namespaces = {} /\ l.groups = {} /\ ShapeOK(l, cfg)
  BY <1>1 DEF LocalOK, ShapeOK, TargetOK
<1>4. /\ DOMAIN r = Fields /\ r.pc = l.pc /\ r.targets = l.targets /\ r.seen = seen
      /\ r.namespaces = {} /\ r.groups = {} /\ r.todo = l.targets
  BY <1>3 DEF Fields
<1>5. seen \subseteq Target
  OBVIOUS
<1> HIDE DEF r, seen
<1>6. LocalOK(NextTarget(w, r), cfg)
  BY <1>3, <1>4, <1>5, NextTargetOK DEF ShapeOK
<1>7. QED
  BY <1>1, <1>2, <1>6, RestOK DEF Moves, ListAgents, r, seen

LEMMA EnsureAgentOK ==
  ASSUME IInv, NEW w \in Workers, EnsureAgent(w)
  PROVE  Moves(w)
<1> DEFINE l == wk[w]
           t == First(wk[w].todo)
           skip == [l EXCEPT !.todo = @ \ {t}]
           r == [l EXCEPT !.pc = "service", !.cur = t, !.todo = @ \ {t}]
<1>1. UNCHANGED <<apiVars, procVars>> /\ cfg' = cfg /\ l.pc = "ensure" /\ LocalOK(l, cfg)
      /\ ClusterOK'
  BY AnswersOK DEF EnsureAgent, At, procVars, IInv, WorkersOK, Answers
<1>2. DOMAIN l = Fields /\ l.namespaces = {} /\ l.groups = {} /\ ShapeOK(l, cfg)
      /\ l.todo \subseteq l.targets /\ l.todo # {}
  BY <1>1 DEF LocalOK, ShapeOK, TargetOK
<1>3. t \in l.targets
  BY <1>2 DEF First
<1>4. /\ DOMAIN skip = Fields /\ skip.pc = l.pc /\ skip.targets = l.targets /\ skip.seen = l.seen
      /\ skip.namespaces = {} /\ skip.groups = {} /\ skip.todo = l.todo \ {t}
      /\ DOMAIN r = Fields /\ r.pc = "service" /\ r.targets = l.targets /\ r.seen = l.seen
      /\ r.namespaces = {} /\ r.groups = {} /\ r.todo = l.todo \ {t} /\ r.cur = t
  BY <1>2 DEF Fields
<1>5. Become(w, IF disabled THEN NextTarget(w, skip) ELSE r)
  BY DEF EnsureAgent
<1> HIDE DEF r, skip, t
<1>6. LocalOK(NextTarget(w, skip), cfg)
  BY <1>2, <1>4, NextTargetOK DEF ShapeOK
<1>7. LocalOK(r, cfg)
  BY <1>2, <1>3, <1>4 DEF LocalOK, ShapeOK, TargetOK, SweepOK, GroupsOK, Labels, TargetLabels,
                          GroupLabels, SweepLabels
<1>8. QED
  BY <1>1, <1>5, <1>6, <1>7 DEF Moves

LEMMA EnsureServiceOK ==
  ASSUME IInv, NEW w \in Workers, EnsureService(w)
  PROVE  Moves(w)
<1> DEFINE l == wk[w]
           r == [l EXCEPT !.pc = "resolve", !.def = defaults]
<1>1. UNCHANGED procVars /\ cfg' = cfg /\ l.pc = "service" /\ LocalOK(l, cfg) /\ ClusterOK
      /\ cfg \in Versions /\ defaults \in 1..cfg
  BY DEF EnsureService, At, procVars, IInv, WorkersOK, ProcessOK
<1>2. DOMAIN l = Fields /\ l.namespaces = {} /\ l.groups = {} /\ ShapeOK(l, cfg)
      /\ l.todo \subseteq l.targets /\ l.cur \in l.targets
  BY <1>1 DEF LocalOK, ShapeOK, TargetOK, TargetLabels
<1>3. AgentName(l.cur) \in Agents
  BY <1>1, <1>2, WatchedTargets, NamesAreAgents DEF ShapeOK
<1>4. ClusterOK'
  BY <1>1, <1>3, ServiceOK, FailsOK DEF EnsureService
<1>5. /\ DOMAIN r = Fields /\ r.pc = "resolve" /\ r.targets = l.targets /\ r.seen = l.seen
      /\ r.namespaces = {} /\ r.groups = {} /\ r.todo = l.todo /\ r.cur = l.cur
      /\ r.def = defaults
  BY <1>2 DEF Fields
<1>6. Become(w, r)
  BY DEF EnsureService
<1> HIDE DEF r
<1>7. LocalOK(r, cfg)
  BY <1>1, <1>2, <1>5 DEF LocalOK, ShapeOK, TargetOK, SweepOK, GroupsOK, Labels, TargetLabels,
                          GroupLabels, SweepLabels
<1>8. QED
  BY <1>1, <1>4, <1>6, <1>7 DEF Moves

LEMMA ResolveSecurityOK ==
  ASSUME IInv, NEW w \in Workers, ResolveSecurity(w)
  PROVE  Moves(w)
<1> DEFINE l == wk[w]
           r == [l EXCEPT !.pc = "get", !.ovr = overrides]
<1>1. UNCHANGED <<apiVars, procVars>> /\ cfg' = cfg /\ l.pc = "resolve" /\ LocalOK(l, cfg)
      /\ ClusterOK' /\ overrides \in 1..cfg
  BY AnswersOK DEF ResolveSecurity, At, procVars, IInv, WorkersOK, ProcessOK, Answers
<1>2. DOMAIN l = Fields /\ l.namespaces = {} /\ l.groups = {} /\ ShapeOK(l, cfg)
      /\ l.todo \subseteq l.targets /\ l.cur \in l.targets /\ l.def \in 1..cfg
  BY <1>1 DEF LocalOK, ShapeOK, TargetOK, TargetLabels
<1>3. /\ DOMAIN r = Fields /\ r.pc = "get" /\ r.targets = l.targets /\ r.seen = l.seen
      /\ r.namespaces = {} /\ r.groups = {} /\ r.todo = l.todo /\ r.cur = l.cur
      /\ r.def = l.def /\ r.ovr = overrides
  BY <1>2 DEF Fields
<1>4. Become(w, r)
  BY DEF ResolveSecurity
<1> HIDE DEF r
<1>5. LocalOK(r, cfg)
  BY <1>1, <1>2, <1>3 DEF LocalOK, ShapeOK, TargetOK, SweepOK, GroupsOK, Labels, TargetLabels,
                          GroupLabels, SweepLabels
<1>6. QED
  BY <1>1, <1>4, <1>5 DEF Moves

(* What holds at delete and create: the hash is one for the target. *)
LEMMA WantingOK ==
  ASSUME NEW c, NEW l, ShapeOK(l, c), l.namespaces = {}, l.groups = {},
         l.todo \subseteq l.targets, l.cur \in l.targets,
         l.def \in 1..c, l.ovr \in 1..c,
         NEW e \in 1..c, NEW hash, hash = PvcHash(l.def, l.ovr, e, l.cur),
         NEW label \in {"delete", "create"}
  PROVE  LocalOK([l EXCEPT !.want = hash, !.pc = label], c)
<1> DEFINE r == [l EXCEPT !.want = hash, !.pc = label]
<1>1. /\ DOMAIN r = Fields /\ r.pc = label /\ r.targets = l.targets /\ r.seen = l.seen
      /\ r.namespaces = {} /\ r.groups = {} /\ r.todo = l.todo /\ r.cur = l.cur
      /\ r.want = hash /\ r.def = l.def /\ r.ovr = l.ovr
  BY DEF ShapeOK, Fields
<1> HIDE DEF r
<1>2. LocalOK(r, c)
  BY <1>1 DEF LocalOK, ShapeOK, TargetOK, SweepOK, GroupsOK, Labels, TargetLabels,
              GroupLabels, SweepLabels
<1>3. QED
  BY <1>2 DEF r

LEMMA GetAgentOK ==
  ASSUME IInv, NEW w \in Workers, GetAgent(w)
  PROVE  Moves(w)
<1> DEFINE l == wk[w]
           hash == PvcHash(l.def, l.ovr, defaults, l.cur)
<1>1. UNCHANGED procVars /\ cfg' = cfg /\ l.pc = "get" /\ LocalOK(l, cfg) /\ ClusterOK
      /\ defaults \in 1..cfg
  BY DEF GetAgent, At, procVars, IInv, WorkersOK, ProcessOK
<1>2. ClusterOK'
  BY <1>1, AnswersOK, FailsOK DEF GetAgent
<1>3. DOMAIN l = Fields /\ l.namespaces = {} /\ l.groups = {} /\ ShapeOK(l, cfg)
      /\ l.todo \subseteq l.targets /\ l.cur \in l.targets /\ l.def \in 1..cfg /\ l.ovr \in 1..cfg
  BY <1>1 DEF LocalOK, ShapeOK, TargetOK, TargetLabels
<1>5. \A label : [[l EXCEPT !.want = hash] EXCEPT !.pc = label]
                  = [l EXCEPT !.want = hash, !.pc = label]
  OBVIOUS
<1>6. \/ Become(w, NextTarget(w, l))
      \/ \E label \in {"delete", "create"} :
           Become(w, [[l EXCEPT !.want = hash] EXCEPT !.pc = label])
  BY DEF GetAgent
<1> HIDE DEF l
<1>7. LocalOK(NextTarget(w, l), cfg)
  BY <1>3, NextTargetOK
<1>8. \A label \in {"delete", "create"} : LocalOK([l EXCEPT !.want = hash, !.pc = label], cfg)
  BY <1>1, <1>3, WantingOK
<1> HIDE DEF hash
<1>9. QED
  BY <1>1, <1>2, <1>5, <1>6, <1>7, <1>8 DEF Moves

LEMMA DeleteAgentOK ==
  ASSUME IInv, NEW w \in Workers, DeleteAgent(w)
  PROVE  Moves(w)
<1> DEFINE l == wk[w]
<1>1. UNCHANGED procVars /\ cfg' = cfg /\ l.pc = "delete" /\ LocalOK(l, cfg) /\ ClusterOK
      /\ cfg \in Versions
  BY DEF DeleteAgent, At, procVars, IInv, WorkersOK, ProcessOK
<1>2. DOMAIN l = Fields /\ l.namespaces = {} /\ l.groups = {} /\ ShapeOK(l, cfg)
      /\ l.todo \subseteq l.targets /\ l.cur \in l.targets /\ l.def \in 1..cfg /\ l.ovr \in 1..cfg
      /\ \E e \in 1..cfg : l.want = PvcHash(l.def, l.ovr, e, l.cur)
  BY <1>1 DEF LocalOK, ShapeOK, TargetOK, TargetLabels
<1>3. AgentName(l.cur) \in Agents
  BY <1>1, <1>2, WatchedTargets, NamesAreAgents DEF ShapeOK
<1>4. ClusterOK'
  BY <1>1, <1>3, DeletePodOK, FailsOK DEF DeleteAgent
<1>5. [l EXCEPT !.pc = "create"] = [l EXCEPT !.want = l.want, !.pc = "create"]
  BY <1>2 DEF Fields
<1>6. Become(w, [l EXCEPT !.pc = "create"])
  BY DEF DeleteAgent
<1> HIDE DEF l
<1>7. LocalOK([l EXCEPT !.want = l.want, !.pc = "create"], cfg)
  BY <1>2, WantingOK
<1>8. QED
  BY <1>1, <1>4, <1>5, <1>6, <1>7 DEF Moves

(* At create, whatever load r.Defaults is read from. *)
LEMMA PvcSpecMade ==
  ASSUME NEW c, NEW l, LocalOK(l, c), l.pc = "create", NEW f \in 1..c
  PROVE  PvcSpecBy(c, l.cur, [hash |-> l.want, runs |-> PvcRuns(l.def, l.ovr, f, l.cur)])
<1>1. /\ l.cur \in WatchedBy(c) /\ l.def \in 1..c /\ l.ovr \in 1..c
      /\ \E e \in 1..c : l.want = PvcHash(l.def, l.ovr, e, l.cur)
  BY DEF LocalOK, ShapeOK, TargetOK, TargetLabels
<1>2. QED
  BY <1>1 DEF PvcSpecBy

LEMMA CreateAgentOK ==
  ASSUME IInv, NEW w \in Workers, CreateAgent(w)
  PROVE  Moves(w)
<1> DEFINE l == wk[w]
           spec == [hash |-> l.want, runs |-> PvcRuns(l.def, l.ovr, defaults, l.cur)]
<1>1. UNCHANGED procVars /\ cfg' = cfg /\ l.pc = "create" /\ LocalOK(l, cfg) /\ ClusterOK
      /\ cfg \in Versions /\ defaults \in 1..cfg
  BY DEF CreateAgent, At, procVars, IInv, WorkersOK, ProcessOK
<1>2. DOMAIN l = Fields /\ l.namespaces = {} /\ l.groups = {} /\ ShapeOK(l, cfg)
      /\ l.todo \subseteq l.targets /\ l.cur \in l.targets /\ l.def \in 1..cfg /\ l.ovr \in 1..cfg
      /\ \E e \in 1..cfg : l.want = PvcHash(l.def, l.ovr, e, l.cur)
  BY <1>1 DEF LocalOK, ShapeOK, TargetOK, TargetLabels
<1>3. AgentName(l.cur) \in Agents
  BY <1>1, <1>2, WatchedTargets, NamesAreAgents DEF ShapeOK
<1>4. MadeBy(cfg, AgentName(l.cur), spec)
  BY <1>1, <1>2, PvcSpecMade DEF MadeBy, ShapeOK
<1>5. ClusterOK'
  BY <1>1, <1>3, <1>4, CreatePodOK, FailsOK DEF CreateAgent
<1>6. Become(w, NextTarget(w, l))
  BY DEF CreateAgent
<1> HIDE DEF l
<1>7. LocalOK(NextTarget(w, l), cfg)
  BY <1>2, NextTargetOK
<1>8. QED
  BY <1>1, <1>5, <1>6, <1>7 DEF Moves

LEMMA PerPvcStepOK ==
  ASSUME IInv, NEW w \in Workers, PerPvcStep(w)
  PROVE  Moves(w)
  BY CheckDisabledOK, ListAgentsOK, EnsureAgentOK, EnsureServiceOK, ResolveSecurityOK, GetAgentOK,
     DeleteAgentOK, CreateAgentOK DEF PerPvcStep

(* agent-per-namespace. *)

LEMMA LookUpClassOK ==
  ASSUME IInv, NEW w \in Workers, LookUpClass(w)
  PROVE  Moves(w)
<1> DEFINE l == wk[w]
           t == First(Members(l) \ {g[1] : g \in l.groups})
           r(outcome) == [l EXCEPT !.pc = "classify", !.cur = t, !.def = defaults, !.ret = outcome]
<1>1. UNCHANGED procVars /\ cfg' = cfg /\ l.pc = "lookup" /\ LocalOK(l, cfg) /\ ClusterOK
      /\ defaults \in 1..cfg
  BY DEF LookUpClass, At, procVars, IInv, WorkersOK, ProcessOK
<1>2. ClusterOK'
  BY <1>1, AnswersOK, FailsOK DEF LookUpClass
<1>3. DOMAIN l = Fields /\ ShapeOK(l, cfg) /\ GroupsOK(l, cfg)
      /\ Members(l) \ {g[1] : g \in l.groups} # {}
  BY <1>1 DEF LocalOK, ShapeOK, GroupsOK
<1>4. t \in Members(l)
  BY <1>3 DEF First
<1>5. \E outcome : Become(w, r(outcome))
  BY DEF LookUpClass
<1>6. ASSUME NEW outcome
      PROVE  LocalOK(r(outcome), cfg)
  <2> DEFINE q == r(outcome)
  <2>1. /\ DOMAIN q = Fields /\ q.pc = "classify" /\ q.targets = l.targets /\ q.seen = l.seen
        /\ q.namespaces = l.namespaces /\ q.groups = l.groups /\ q.ns = l.ns
        /\ q.cur = t /\ q.def = defaults
    BY <1>3 DEF Fields
  <2>2. Members(q) = Members(l)
    BY <2>1 DEF Members
  <2> HIDE DEF q, t
  <2>3. LocalOK(q, cfg)
    BY <1>1, <1>3, <1>4, <2>1, <2>2 DEF LocalOK, ShapeOK, TargetOK, SweepOK, GroupsOK, Labels,
                                       TargetLabels, GroupLabels, SweepLabels
  <2>4. QED
    BY <2>3 DEF q
<1> HIDE DEF r
<1>7. QED
  BY <1>1, <1>2, <1>5, <1>6 DEF Moves

LEMMA ProfileIn ==
  ASSUME NEW c, NEW d \in 1..c, NEW o \in 1..c, NEW t, NEW known \in BOOLEAN
  PROVE  Profile(d, o, t, known) \in ProfilesBy(c, t)
  BY DEF ProfilesBy

LEMMA ClassifyOK ==
  ASSUME IInv, NEW w \in Workers, Classify(w)
  PROVE  Moves(w)
<1> DEFINE l == wk[w]
           t == l.cur
           key == Profile(l.def, overrides, t, l.ret = "known")
           groups == l.groups \cup {<<t, key>>}
           joined == [l EXCEPT !.groups = groups, !.cur = None, !.def = 0, !.ret = "idle"]
           done == [joined EXCEPT !.pc = "group", !.todo = GroupKeys(groups)]
           more == [joined EXCEPT !.pc = "lookup"]
<1>1. UNCHANGED <<apiVars, procVars>> /\ cfg' = cfg /\ l.pc = "classify" /\ LocalOK(l, cfg)
      /\ ClusterOK' /\ overrides \in 1..cfg
  BY AnswersOK DEF Classify, At, procVars, IInv, WorkersOK, ProcessOK, Answers
<1>2. DOMAIN l = Fields /\ ShapeOK(l, cfg) /\ GroupsOK(l, cfg) /\ t \in Members(l) /\ l.def \in 1..cfg
  BY <1>1 DEF LocalOK, ShapeOK, GroupsOK
<1>3. key \in ProfilesBy(cfg, t)
  BY <1>1, <1>2, ProfileIn
<1>4. Become(w, IF {g[1] : g \in groups} = Members(l) THEN done ELSE more)
  BY DEF Classify
<1>5. /\ DOMAIN done = Fields /\ done.pc = "group" /\ done.targets = l.targets /\ done.seen = l.seen
      /\ done.namespaces = l.namespaces /\ done.groups = groups /\ done.ns = l.ns
      /\ done.todo = GroupKeys(groups)
      /\ DOMAIN more = Fields /\ more.pc = "lookup" /\ more.targets = l.targets /\ more.seen = l.seen
      /\ more.namespaces = l.namespaces /\ more.groups = groups /\ more.ns = l.ns
  BY <1>2 DEF Fields
<1>6. Members(done) = Members(l) /\ Members(more) = Members(l)
  BY <1>5 DEF Members
<1>7. \A g \in groups : g[1] \in Members(l) /\ g[2] \in ProfilesBy(cfg, g[1])
  BY <1>2, <1>3 DEF GroupsOK
<1> HIDE DEF done, more, groups
<1>8. LocalOK(done, cfg)
  BY <1>2, <1>5, <1>6, <1>7 DEF LocalOK, ShapeOK, TargetOK, SweepOK, GroupsOK, Labels,
                                TargetLabels, GroupLabels, SweepLabels
<1>9. ASSUME {g[1] : g \in groups} # Members(l)
      PROVE  LocalOK(more, cfg)
  <2>1. Members(l) \ {g[1] : g \in groups} # {}
    BY <1>7, <1>9
  <2>2. QED
    BY <1>2, <1>5, <1>6, <1>7, <2>1 DEF LocalOK, ShapeOK, TargetOK, SweepOK, GroupsOK, Labels,
                                       TargetLabels, GroupLabels, SweepLabels
<1>10. QED
  BY <1>1, <1>4, <1>8, <1>9 DEF Moves

(* A key in use: its namespace and its PVCs. *)
LEMMA GroupFacts ==
  ASSUME NEW c \in Versions, NEW l, ShapeOK(l, c), GroupsOK(l, c), NEW key \in GroupKeys(l.groups)
  PROVE  /\ l.ns \in Namespaces /\ key \in Keys
         /\ GroupPvcs(l.groups, key) \in (SUBSET ShareBy(c, l.ns, key)) \ {{}}
<1>1. PICK g \in l.groups : g[2] = key
  BY DEF GroupKeys
<1>2. /\ g[1] \in l.targets /\ g[1][1] = l.ns
      /\ key \in ProfilesBy(c, g[1])
  BY <1>1 DEF GroupsOK, Members
<1>3. g[1] \in Target
  BY <1>2, WatchedTargets DEF ShapeOK
<1>4. l.ns \in Namespaces
  BY <1>2, <1>3 DEF Target
<1>5. key \in Keys
  BY <1>2, <1>3, WatchedTargets, ProfileAssumption DEF ProfilesBy
<1>6. g[1] \in GroupPvcs(l.groups, key)
  BY <1>1 DEF GroupPvcs
<1>7. ASSUME NEW h \in l.groups, h[2] = key
      PROVE  h[1] \in ShareBy(c, l.ns, key)
  BY <1>7 DEF GroupsOK, Members, ShapeOK, ShareBy
<1>8. GroupPvcs(l.groups, key) \subseteq ShareBy(c, l.ns, key)
  BY <1>7 DEF GroupPvcs
<1>9. QED
  BY <1>4, <1>5, <1>6, <1>8

(* The steps from group to group keep what the groups are. *)
LEMMA GroupLocalOK ==
  ASSUME NEW c, NEW l, NEW r, ShapeOK(l, c), GroupsOK(l, c), l.pc \in GroupLabels \cup {"group"},
         DOMAIN r = Fields, r.targets = l.targets, r.seen = l.seen, r.namespaces = l.namespaces,
         r.groups = l.groups, r.ns = l.ns, r.todo \subseteq l.todo,
         r.pc \in GroupLabels \cup {"group", "listGroups"},
         r.pc \in GroupLabels =>
           /\ r.cur \in GroupKeys(l.groups)
           /\ \E e \in 1..c : r.want = GroupHash(GroupPvcs(l.groups, r.cur), r.cur, e)
  PROVE  LocalOK(r, c)
<1>1. Members(r) = Members(l)
  BY DEF Members
<1>2. ShapeOK(r, c) /\ TargetOK(r, c) /\ SweepOK(r)
  BY DEF ShapeOK, TargetOK, SweepOK, Labels, TargetLabels, GroupLabels, SweepLabels
<1>3. r.todo \subseteq GroupKeys(r.groups)
  BY DEF GroupsOK
<1>4. GroupsOK(r, c)
  BY <1>1, <1>3 DEF GroupsOK, GroupLabels, SweepLabels
<1>5. QED
  BY <1>2, <1>4 DEF LocalOK

LEMMA NextGroupOK ==
  ASSUME NEW c, NEW l, ShapeOK(l, c), GroupsOK(l, c), l.pc \in GroupLabels
  PROVE  LocalOK(NextGroup(l), c)
<1> DEFINE r == NextGroup(l)
<1>1. /\ DOMAIN r = Fields /\ r.pc \in {"group", "listGroups"} /\ r.targets = l.targets
      /\ r.seen = l.seen /\ r.namespaces = l.namespaces /\ r.groups = l.groups /\ r.ns = l.ns
      /\ r.todo = l.todo
  BY DEF NextGroup, ShapeOK, Fields
<1> HIDE DEF r
<1>2. r.pc \notin GroupLabels
  BY <1>1 DEF GroupLabels
<1>3. LocalOK(r, c)
  BY <1>1, <1>2, GroupLocalOK
<1>4. QED
  BY <1>3 DEF r

LEMMA EnsureGroupServiceOK ==
  ASSUME IInv, NEW w \in Workers, EnsureGroupService(w)
  PROVE  Moves(w)
<1> DEFINE l == wk[w]
<1>1. UNCHANGED procVars /\ cfg' = cfg /\ l.pc = "group" /\ LocalOK(l, cfg) /\ ClusterOK
      /\ cfg \in Versions /\ defaults \in 1..cfg
  BY DEF EnsureGroupService, At, procVars, IInv, WorkersOK, ProcessOK
<1>2. PICK key \in l.todo :
        /\ CreateService(NamespaceAgentGroupName(l.ns, key)) \/ Fails
        /\ Become(w, [l EXCEPT !.pc = "getGroup", !.cur = key, !.todo = @ \ {key},
                        !.want = GroupHash(GroupPvcs(l.groups, key), key, defaults)])
  BY DEF EnsureGroupService
<1> DEFINE r == [l EXCEPT !.pc = "getGroup", !.cur = key, !.todo = @ \ {key},
                   !.want = GroupHash(GroupPvcs(l.groups, key), key, defaults)]
<1>3. DOMAIN l = Fields /\ ShapeOK(l, cfg) /\ GroupsOK(l, cfg) /\ key \in GroupKeys(l.groups)
  BY <1>1 DEF LocalOK, ShapeOK, GroupsOK
<1>4. NamespaceAgentGroupName(l.ns, key) \in Agents
  BY <1>1, <1>3, GroupFacts, NamesAreAgents
<1>5. ClusterOK'
  BY <1>1, <1>2, <1>4, ServiceOK, FailsOK
<1>6. /\ DOMAIN r = Fields /\ r.pc = "getGroup" /\ r.targets = l.targets /\ r.seen = l.seen
      /\ r.namespaces = l.namespaces /\ r.groups = l.groups /\ r.ns = l.ns
      /\ r.todo = l.todo \ {key} /\ r.cur = key
      /\ r.want = GroupHash(GroupPvcs(l.groups, key), key, defaults)
  BY <1>3 DEF Fields
<1>7. Become(w, r)
  BY <1>2
<1> HIDE DEF r, l
<1>8. LocalOK(r, cfg)
  BY <1>1, <1>3, <1>6, GroupLocalOK DEF GroupLabels
<1>9. QED
  BY <1>1, <1>5, <1>7, <1>8 DEF Moves

LEMMA GetGroupAgentOK ==
  ASSUME IInv, NEW w \in Workers, GetGroupAgent(w)
  PROVE  Moves(w)
<1> DEFINE l == wk[w]
           r(label) == [l EXCEPT !.pc = label]
<1>1. UNCHANGED procVars /\ cfg' = cfg /\ l.pc = "getGroup" /\ LocalOK(l, cfg) /\ ClusterOK
  BY DEF GetGroupAgent, At, procVars, IInv, WorkersOK
<1>2. ClusterOK'
  BY <1>1, AnswersOK, FailsOK DEF GetGroupAgent
<1>3. /\ DOMAIN l = Fields /\ ShapeOK(l, cfg) /\ GroupsOK(l, cfg) /\ l.pc \in GroupLabels
      /\ l.cur \in GroupKeys(l.groups)
      /\ \E e \in 1..cfg : l.want = GroupHash(GroupPvcs(l.groups, l.cur), l.cur, e)
  BY <1>1 DEF LocalOK, ShapeOK, GroupsOK, GroupLabels
<1>4. Become(w, NextGroup(l)) \/ \E label \in {"deleteGroup", "createGroup"} : Become(w, r(label))
  BY DEF GetGroupAgent
<1>5. ASSUME NEW label \in {"deleteGroup", "createGroup"}
      PROVE  LocalOK(r(label), cfg)
  <2> DEFINE q == r(label)
  <2>1. /\ DOMAIN q = Fields /\ q.pc = label /\ q.targets = l.targets /\ q.seen = l.seen
        /\ q.namespaces = l.namespaces /\ q.groups = l.groups /\ q.ns = l.ns
        /\ q.todo = l.todo /\ q.cur = l.cur /\ q.want = l.want
    BY <1>3 DEF Fields
  <2> HIDE DEF q, l
  <2>2. LocalOK(q, cfg)
    BY <1>3, <2>1, GroupLocalOK DEF GroupLabels
  <2>3. QED
    BY <2>2 DEF q
<1> HIDE DEF r, l
<1>6. LocalOK(NextGroup(l), cfg)
  BY <1>3, NextGroupOK
<1>7. QED
  BY <1>1, <1>2, <1>4, <1>5, <1>6 DEF Moves

LEMMA DeleteGroupAgentOK ==
  ASSUME IInv, NEW w \in Workers, DeleteGroupAgent(w)
  PROVE  Moves(w)
<1> DEFINE l == wk[w]
           q == [l EXCEPT !.pc = "createGroup"]
<1>1. UNCHANGED procVars /\ cfg' = cfg /\ l.pc = "deleteGroup" /\ LocalOK(l, cfg) /\ ClusterOK
      /\ cfg \in Versions
  BY DEF DeleteGroupAgent, At, procVars, IInv, WorkersOK, ProcessOK
<1>2. /\ DOMAIN l = Fields /\ ShapeOK(l, cfg) /\ GroupsOK(l, cfg) /\ l.pc \in GroupLabels
      /\ l.cur \in GroupKeys(l.groups)
      /\ \E e \in 1..cfg : l.want = GroupHash(GroupPvcs(l.groups, l.cur), l.cur, e)
  BY <1>1 DEF LocalOK, ShapeOK, GroupsOK, GroupLabels
<1>3. GroupAgent(w) \in Agents
  BY <1>1, <1>2, GroupFacts, NamesAreAgents DEF GroupAgent
<1>4. ClusterOK'
  BY <1>1, <1>3, DeletePodOK, FailsOK DEF DeleteGroupAgent
<1>5. /\ DOMAIN q = Fields /\ q.pc = "createGroup" /\ q.targets = l.targets /\ q.seen = l.seen
      /\ q.namespaces = l.namespaces /\ q.groups = l.groups /\ q.ns = l.ns
      /\ q.todo = l.todo /\ q.cur = l.cur /\ q.want = l.want
  BY <1>2 DEF Fields
<1>6. Become(w, q)
  BY DEF DeleteGroupAgent
<1> HIDE DEF q, l
<1>7. LocalOK(q, cfg)
  BY <1>2, <1>5, GroupLocalOK DEF GroupLabels
<1>8. QED
  BY <1>1, <1>4, <1>6, <1>7 DEF Moves

LEMMA GroupSpecMade ==
  ASSUME NEW c \in Versions, NEW l, LocalOK(l, c), l.pc = "createGroup", NEW f \in 1..c
  PROVE  GroupSpecBy(c, l.ns, l.cur,
           [hash |-> l.want, runs |-> GroupRuns(GroupPvcs(l.groups, l.cur), l.cur, f)])
<1>1. /\ ShapeOK(l, c) /\ GroupsOK(l, c) /\ l.cur \in GroupKeys(l.groups)
      /\ \E e \in 1..c : l.want = GroupHash(GroupPvcs(l.groups, l.cur), l.cur, e)
  BY DEF LocalOK, GroupsOK, GroupLabels
<1>2. GroupPvcs(l.groups, l.cur) \in (SUBSET ShareBy(c, l.ns, l.cur)) \ {{}}
  BY <1>1, GroupFacts
<1>3. QED
  BY <1>1, <1>2 DEF GroupSpecBy

LEMMA CreateGroupAgentOK ==
  ASSUME IInv, NEW w \in Workers, CreateGroupAgent(w)
  PROVE  Moves(w)
<1> DEFINE l == wk[w]
           spec == [hash |-> l.want, runs |-> GroupRuns(GroupPvcs(l.groups, l.cur), l.cur, defaults)]
<1>1. UNCHANGED procVars /\ cfg' = cfg /\ l.pc = "createGroup" /\ LocalOK(l, cfg) /\ ClusterOK
      /\ cfg \in Versions /\ defaults \in 1..cfg
  BY DEF CreateGroupAgent, At, procVars, IInv, WorkersOK, ProcessOK
<1>2. /\ ShapeOK(l, cfg) /\ GroupsOK(l, cfg) /\ l.pc \in GroupLabels
      /\ l.cur \in GroupKeys(l.groups)
      /\ \E e \in 1..cfg : l.want = GroupHash(GroupPvcs(l.groups, l.cur), l.cur, e)
  BY <1>1 DEF LocalOK, GroupsOK, GroupLabels
<1>3. /\ l.ns \in Namespaces /\ l.cur \in Keys
      /\ GroupPvcs(l.groups, l.cur) \in (SUBSET ShareBy(cfg, l.ns, l.cur)) \ {{}}
  BY <1>1, <1>2, GroupFacts
<1>4. GroupAgent(w) \in Agents
  BY <1>3, NamesAreAgents DEF GroupAgent
<1>5. GroupSpecBy(cfg, l.ns, l.cur, spec)
  BY <1>1, GroupSpecMade
<1>6. MadeBy(cfg, GroupAgent(w), spec)
  BY <1>3, <1>5 DEF MadeBy, GroupAgent
<1>7. ClusterOK'
  BY <1>1, <1>4, <1>6, CreatePodOK, FailsOK DEF CreateGroupAgent
<1>8. Become(w, NextGroup(l))
  BY DEF CreateGroupAgent
<1>9. LocalOK(NextGroup(l), cfg)
  BY <1>2, NextGroupOK
<1>10. QED
  BY <1>1, <1>7, <1>8, <1>9 DEF Moves

LEMMA ListGroupAgentsOK ==
  ASSUME IInv, NEW w \in Workers, ListGroupAgents(w)
  PROVE  Moves(w)
<1> DEFINE l == wk[w]
           r == [l EXCEPT !.ns = None, !.groups = {}]
           stale == {a \in GroupAgents :
                       Exists(a) /\ a[2] = wk[w].ns /\ a[3] \notin GroupKeys(wk[w].groups)}
<1>1. UNCHANGED procVars /\ cfg' = cfg /\ LocalOK(l, cfg) /\ ClusterOK
  BY DEF ListGroupAgents, At, procVars, IInv, WorkersOK
<1>2. ClusterOK'
  BY <1>1, AnswersOK, FailsOK DEF ListGroupAgents
<1>3. DOMAIN l = Fields /\ ShapeOK(l, cfg)
  BY <1>1 DEF LocalOK, ShapeOK
<1>4. /\ DOMAIN r = Fields /\ r.pc = l.pc /\ r.targets = l.targets /\ r.seen = l.seen
      /\ r.namespaces = l.namespaces /\ r.groups = {}
  BY <1>3 DEF Fields
<1>5. stale \subseteq Agents
  BY DEF Agents
<1>6. Become(w, SweepThen(w, r, stale, "namespace")) \/ Become(w, Resume(w, r, "namespace"))
  BY DEF ListGroupAgents
<1> HIDE DEF r, stale
<1>7. ShapeOK(r, cfg)
  BY <1>3, <1>4 DEF ShapeOK
<1>8. LocalOK(SweepThen(w, r, stale, "namespace"), cfg) /\ LocalOK(Resume(w, r, "namespace"), cfg)
  BY <1>4, <1>5, <1>7, SweepThenOK, ResumeOK
<1>9. QED
  BY <1>1, <1>2, <1>6, <1>8 DEF Moves

LEMMA PerNamespaceStepOK ==
  ASSUME IInv, NEW w \in Workers, PerNamespaceStep(w)
  PROVE  Moves(w)
  BY NextNamespaceOK, LookUpClassOK, ClassifyOK, EnsureGroupServiceOK, GetGroupAgentOK,
     DeleteGroupAgentOK, CreateGroupAgentOK, ListGroupAgentsOK DEF PerNamespaceStep

----------------------------------------------------------------------------
(* The goroutines.                                                         *)

LEMMA StartOK ==
  ASSUME NEW c \in Versions, NEW v \in 1..c, NEW targets \in SUBSET Watched(v)
  PROVE  LocalOK(Start(targets, v), c)
<1>1. targets \subseteq WatchedBy(c)
  BY DEF WatchedBy
<1>2. CASE Mode(v) = "agent-per-pvc"
  <2> DEFINE r == [Idle EXCEPT !.pc = "reconcile", !.targets = targets]
  <2>1. /\ DOMAIN r = Fields /\ r.pc = "reconcile" /\ r.targets = targets /\ r.seen = {}
        /\ r.namespaces = {} /\ r.groups = {}
    BY DEF Idle, Fields
  <2> HIDE DEF r
  <2>2. LocalOK(r, c)
    BY <1>1, <2>1 DEF LocalOK, ShapeOK, TargetOK, SweepOK, GroupsOK, Labels, TargetLabels,
                      GroupLabels, SweepLabels
  <2>3. QED
    BY <1>2, <2>2 DEF Start, r
<1>3. CASE Mode(v) # "agent-per-pvc"
  <2> DEFINE r == [Idle EXCEPT !.pc = "gcPerPvc", !.targets = targets,
                                !.namespaces = {t[1] : t \in targets}]
  <2>1. /\ DOMAIN r = Fields /\ r.pc = "gcPerPvc" /\ r.targets = targets /\ r.seen = {}
        /\ r.namespaces = {t[1] : t \in targets} /\ r.groups = {}
    BY DEF Idle, Fields
  <2> HIDE DEF r
  <2>2. LocalOK(r, c)
    BY <1>1, <2>1 DEF LocalOK, ShapeOK, TargetOK, SweepOK, GroupsOK, Labels, TargetLabels,
                      GroupLabels, SweepLabels
  <2>3. QED
    BY <1>3, <2>2 DEF Start, r
<1>4. QED
  BY <1>2, <1>3

LEMMA BuildTargetsOK ==
  ASSUME IInv, NEW w \in Workers, NEW v \in 1..cfg, BuildTargets(w, v)
  PROVE  Moves(w)
<1> DEFINE found == Watched(v) \cap claims
<1>1. UNCHANGED procVars /\ cfg' = cfg /\ cfg \in Versions /\ ClusterOK
  BY DEF BuildTargets, procVars, IInv, ProcessOK
<1>2. ClusterOK'
  BY <1>1, AnswersOK, FailsOK DEF BuildTargets
<1>3. \A targets \in SUBSET found : LocalOK(Start(targets, v), cfg)
  BY <1>1, StartOK
<1>4. (\E targets \in SUBSET found : Become(w, Start(targets, v))) \/ Become(w, Idle)
  <2>1. found \in SUBSET found /\ \A t : found \ {t} \in SUBSET found
    OBVIOUS
  <2>2. QED
    BY <2>1 DEF BuildTargets
<1> HIDE DEF found
<1>5. QED
  BY <1>1, <1>2, <1>3, <1>4, RestOK DEF Moves

LEMMA Apart ==
  /\ Passes \cap Sweepers = {}
  /\ Handlers \subseteq Workers /\ Shutdown \in Workers /\ Passes \subseteq Workers
  /\ Shutdown \notin Handlers /\ Shutdown \notin Versions /\ Versions \cap Handlers = {}
  /\ Versions \subseteq Passes /\ Versions \subseteq Nat
  /\ Handlers \cap Passes = {}
  BY WorkersAssumption, LoadsAssumption DEF Passes, Sweepers, Workers, Versions

(* A step of one goroutine keeps everything but what its own kind decides.  *)
LEMMA MovesOK ==
  ASSUME IInv, NEW w \in Workers, Moves(w)
  PROVE  /\ ClusterOK' /\ ProcessOK' /\ WorkersOK'
         /\ \A x \in Workers \ {w} : wk'[x] = wk[x]
         /\ cfg' = cfg /\ disabled' = disabled
<1>1. PICK l : LocalOK(l, cfg) /\ wk' = [wk EXCEPT ![w] = l]
  BY DEF Moves, Become
<1>2. cfg' = cfg /\ disabled' = disabled /\ ProcessOK'
  BY DEF Moves, procVars, IInv, ProcessOK
<1>3. DOMAIN wk' = Workers /\ wk'[w] = l /\ \A x \in Workers \ {w} : wk'[x] = wk[x]
  BY <1>1 DEF IInv, WorkersOK
<1>4. WorkersOK'
  BY <1>1, <1>2, <1>3 DEF IInv, WorkersOK
<1>5. QED
  BY <1>2, <1>3, <1>4 DEF Moves

LEMMA PassStepOK ==
  ASSUME IInv, NEW w \in Passes, PassStep(w)
  PROVE  IInv'
<1>1. w \in Workers /\ cfg \in 1..cfg /\ cfg \in Nat /\ w \notin Handlers
  BY Apart, WatchedTargets DEF IInv, ProcessOK
<1>2. w \in Versions => w \in 1..cfg
  <2>1. CASE w \in Tickers
    BY <2>1, WorkersAssumption
  <2>2. CASE w \notin Tickers
    <3>1. wk[w].pc # "idle"
      BY <2>2 DEF PassStep, OnConfigChange, PerPvcStep, PerNamespaceStep, SharedStep, At,
        CheckDisabled, ListAgents, EnsureAgent, EnsureService, ResolveSecurity, GetAgent, DeleteAgent,
        CreateAgent, NextNamespace, LookUpClass, Classify, EnsureGroupService, GetGroupAgent,
        DeleteGroupAgent, CreateGroupAgent, ListGroupAgents, SweepPod, SweepService, GCPerPVCAll,
        GCNamespaceAgents
    <3>2. QED
      BY <1>1, <3>1 DEF IInv, LaterIdle, At, Versions
  <2>3. QED
    BY <2>1, <2>2
<1>3. Moves(w)
  <2>1. CASE Tick(w)
    BY <1>1, <2>1, BuildTargetsOK DEF Tick
  <2>2. CASE OnConfigChange(w)
    <3>1. CASE BuildTargets(w, w)
      BY <1>1, <1>2, <2>2, <3>1, BuildTargetsOK DEF OnConfigChange
    <3>2. CASE Become(w, Idle) /\ UNCHANGED <<apiVars, procVars>>
      BY <3>2, RestOK, AnswersOK DEF Moves, IInv, Answers, procVars
    <3>3. QED
      BY <2>2, <3>1, <3>2 DEF OnConfigChange
  <2>3. QED
    BY <1>1, <2>1, <2>2, PerPvcStepOK, PerNamespaceStepOK, SharedStepOK DEF PassStep
<1>4. /\ ClusterOK' /\ ProcessOK' /\ WorkersOK' /\ cfg' = cfg /\ disabled' = disabled
      /\ \A x \in Workers \ {w} : wk'[x] = wk[x]
  BY <1>1, <1>3, MovesOK
<1>5. LaterIdle'
  <2> SUFFICES ASSUME NEW x \in Versions, x > cfg
               PROVE  wk'[x].pc = "idle"
    BY <1>4 DEF LaterIdle, At
  <2>1. x # w /\ x \in Workers
    BY <1>1, <1>2, Apart
  <2>2. QED
    BY <1>4, <2>1 DEF IInv, LaterIdle, At
<1>6. DisabledOnlyDuringGc'
  BY <1>1, <1>4, Apart DEF IInv, DisabledOnlyDuringGc, At
<1>7. QED
  BY <1>4, <1>5, <1>6 DEF IInv

(* A /gc handler that sweeps does not finish: it still has to switch       *)
(* reconciliation on again.                                                *)
LEMMA SweepStaysBusy ==
  ASSUME IInv, NEW w \in Handlers, SweepStep(w)
  PROVE  wk'[w].pc # "idle"
<1> DEFINE l == wk[w]
<1>1. w \in Workers /\ DOMAIN wk = Workers
  BY Apart DEF IInv, WorkersOK
<1>2. LocalOK(l, cfg) /\ DOMAIN l = Fields
  BY <1>1 DEF IInv, WorkersOK, LocalOK, ShapeOK
<1>3. Ended(w).pc # "idle"
  BY DEF Ended, Idle
<1>4. ASSUME NEW r, DOMAIN r = Fields, NEW label \in {"ended", "namespace", "lookup"}, NEW agents
      PROVE  Resume(w, r, label).pc # "idle" /\ SweepThen(w, r, agents, label).pc # "idle"
  BY <1>3, <1>4 DEF Resume, SweepThen, Fields
<1>5. CASE SweepPod(w)
  BY <1>1, <1>2, <1>5 DEF SweepPod, Become, Fields
<1>6. CASE SweepService(w)
  <2>1. l.ret \in {"ended", "namespace", "lookup"}
    BY <1>2, <1>6 DEF LocalOK, SweepOK, SweepService, At, SweepLabels
  <2>2. QED
    BY <1>1, <1>2, <1>4, <1>6, <2>1 DEF SweepService, Become
<1>7. CASE GCPerPVCAll(w)
  BY <1>1, <1>2, <1>4, <1>7 DEF GCPerPVCAll, Become
<1>8. CASE GCNamespaceAgents(w)
  BY <1>1, <1>2, <1>3, <1>4, <1>8 DEF GCNamespaceAgents, Become
<1>9. CASE NextNamespace(w)
  <2>1. CASE l.namespaces = {}
    BY <1>1, <1>2, <1>9, <2>1 DEF NextNamespace, Become, Fields
  <2>2. CASE l.namespaces # {}
    <3>1. PICK ns \in l.namespaces :
            Become(w, SweepThen(w, [l EXCEPT !.namespaces = @ \ {ns}, !.ns = ns],
                                {NamespaceAgentName(ns)}, "lookup"))
      BY <1>9, <2>2 DEF NextNamespace
    <3>2. DOMAIN [l EXCEPT !.namespaces = @ \ {ns}, !.ns = ns] = Fields
      BY <1>2
    <3>3. QED
      BY <1>1, <1>4, <3>1, <3>2 DEF Become
  <2>3. QED
    BY <2>1, <2>2
<1>10. QED
  BY <1>5, <1>6, <1>7, <1>8, <1>9 DEF SweepStep, SharedStep

LEMMA SweepStepOK ==
  ASSUME IInv, NEW w \in Sweepers, SweepStep(w)
  PROVE  IInv'
<1>1. w \in Workers /\ w \notin Passes
  BY Apart DEF Sweepers
<1>2. Moves(w)
  BY <1>1, SharedStepOK, NextNamespaceOK DEF SweepStep
<1>3. /\ ClusterOK' /\ ProcessOK' /\ WorkersOK' /\ cfg' = cfg /\ disabled' = disabled
      /\ \A x \in Workers \ {w} : wk'[x] = wk[x]
  BY <1>1, <1>2, MovesOK
<1>4. LaterIdle'
  BY <1>1, <1>3, Apart DEF IInv, LaterIdle, At
<1>5. DisabledOnlyDuringGc'
  <2>1. CASE w \in Handlers
    BY <2>1, SweepStaysBusy DEF DisabledOnlyDuringGc, At
  <2>2. CASE w \notin Handlers
    BY <1>3, <2>2, Apart DEF IInv, DisabledOnlyDuringGc, At
  <2>3. QED
    BY <2>1, <2>2
<1>6. QED
  BY <1>3, <1>4, <1>5 DEF IInv

(* One goroutine gets new locals, nothing else but disabled changes. *)
LEMMA LocalsReplacedOK ==
  ASSUME IInv, NEW w \in Workers, NEW l, LocalOK(l, cfg), wk' = [wk EXCEPT ![w] = l], cfg' = cfg,
         w \in Versions /\ w > cfg => l.pc = "idle"
  PROVE  WorkersOK' /\ LaterIdle' /\ wk'[w] = l /\ \A x \in Workers \ {w} : wk'[x] = wk[x]
<1>1. DOMAIN wk' = Workers /\ wk'[w] = l /\ \A x \in Workers \ {w} : wk'[x] = wk[x]
  BY DEF IInv, WorkersOK
<1>2. WorkersOK'
  BY <1>1 DEF IInv, WorkersOK
<1>3. LaterIdle'
  BY <1>1, Apart DEF IInv, LaterIdle, At
<1>4. QED
  BY <1>1, <1>2, <1>3

LEMMA HandlerStepOK ==
  ASSUME IInv, NEW w \in Handlers, GcRequest(w) \/ GcCancelled(w) \/ Enable(w)
  PROVE  IInv'
<1>1. w \in Workers /\ w \notin Versions
  BY Apart
<1>2. CASE GcRequest(w)
  <2> DEFINE r == [Idle EXCEPT !.pc = "gcPerPvc"]
  <2>1. /\ DOMAIN r = Fields /\ r.pc = "gcPerPvc" /\ r.targets = {} /\ r.seen = {}
        /\ r.namespaces = {} /\ r.groups = {}
    BY DEF Idle, Fields
  <2>2. wk' = [wk EXCEPT ![w] = r] /\ cfg' = cfg
    BY <1>2 DEF GcRequest, Become
  <2> HIDE DEF r
  <2>3. LocalOK(r, cfg)
    BY <2>1 DEF LocalOK, ShapeOK, TargetOK, SweepOK, GroupsOK, Labels, TargetLabels,
                GroupLabels, SweepLabels
  <2>4. WorkersOK' /\ LaterIdle' /\ wk'[w] = r
    BY <1>1, <2>2, <2>3, LocalsReplacedOK
  <2>5. budget' \in [Disturbances -> Nat]
    BY <1>2, SpendOK DEF GcRequest, IInv, ClusterOK, Disturbances
  <2>6. ClusterOK' /\ ProcessOK'
    BY <1>2, <2>5 DEF GcRequest, IInv, ClusterOK, ProcessOK
  <2>7. DisabledOnlyDuringGc'
    BY <2>1, <2>4 DEF DisabledOnlyDuringGc, At
  <2>8. QED
    BY <2>4, <2>6, <2>7 DEF IInv
<1>3. CASE GcCancelled(w)
  <2>1. /\ wk' = [wk EXCEPT ![w] = Ended(w)] /\ cfg' = cfg /\ UNCHANGED <<apiVars, procVars>>
        /\ UNCHANGED procVars
    BY <1>3 DEF GcCancelled, Become, procVars
  <2>2. WorkersOK' /\ LaterIdle' /\ wk'[w] = Ended(w)
    BY <1>1, <2>1, RestOK, LocalsReplacedOK
  <2>3. ClusterOK' /\ ProcessOK'
    BY <2>1, AnswersOK DEF Answers, procVars, IInv, ProcessOK
  <2>4. Ended(w).pc # "idle"
    BY DEF Ended, Idle
  <2>5. DisabledOnlyDuringGc'
    BY <2>2, <2>4 DEF DisabledOnlyDuringGc, At
  <2>6. QED
    BY <2>2, <2>3, <2>5 DEF IInv
<1>4. CASE Enable(w)
  <2>1. /\ wk' = [wk EXCEPT ![w] = Idle] /\ cfg' = cfg /\ disabled' = FALSE
        /\ UNCHANGED <<apiVars, cfg, defaults, overrides>>
    BY <1>4 DEF Enable, Become
  <2>2. WorkersOK' /\ LaterIdle'
    BY <1>1, <2>1, RestOK, LocalsReplacedOK
  <2>3. ClusterOK' /\ ProcessOK' /\ DisabledOnlyDuringGc'
    BY <2>1, AnswersOK DEF Answers, IInv, ProcessOK, DisabledOnlyDuringGc
  <2>4. QED
    BY <2>2, <2>3 DEF IInv
<1>5. QED
  BY <1>2, <1>3, <1>4

LEMMA ShutdownExitsOK ==
  ASSUME IInv, ShutdownExits
  PROVE  IInv'
<1>1. Shutdown \in Workers /\ Shutdown \notin Versions /\ Shutdown \notin Handlers
  BY Apart
<1>2. /\ wk' = [wk EXCEPT ![Shutdown] = Idle] /\ UNCHANGED <<apiVars, procVars>>
      /\ UNCHANGED procVars /\ cfg' = cfg /\ disabled' = disabled
  BY DEF ShutdownExits, Become, procVars
<1>3. WorkersOK' /\ LaterIdle' /\ \A x \in Workers \ {Shutdown} : wk'[x] = wk[x]
  BY <1>1, <1>2, RestOK, LocalsReplacedOK
<1>4. ClusterOK' /\ ProcessOK'
  BY <1>2, AnswersOK DEF Answers, procVars, IInv, ProcessOK
<1>5. DisabledOnlyDuringGc'
  BY <1>1, <1>2, <1>3, Apart DEF IInv, DisabledOnlyDuringGc, At
<1>6. QED
  BY <1>3, <1>4, <1>5 DEF IInv

(* A load is applied, or the process restarts: what was good stays good. *)
LEMMA LoadedOK ==
  ASSUME IInv, cfg' \in Versions, cfg <= cfg', claims' = claims, pods' = pods, services' = services,
         NEW kind \in Disturbances, Spend(kind)
  PROVE  /\ ClusterOK'
         /\ \A w \in Workers : LocalOK(wk[w], cfg')
<1>1. cfg \in Nat /\ cfg' \in Nat
  BY Apart DEF IInv, ProcessOK
<1>2. \A w \in Workers : LocalOK(wk[w], cfg')
  BY <1>1, LocalsStayOK DEF IInv, WorkersOK
<1>3. \A a \in Agents : PodOK(a, pods[a], cfg')
  BY <1>1, MadeLater DEF IInv, ClusterOK, PodOK
<1>4. budget' \in [Disturbances -> Nat]
  BY SpendOK DEF IInv, ClusterOK
<1>5. QED
  BY <1>2, <1>3, <1>4 DEF IInv, ClusterOK

LEMMA ApplyNewConfigOK ==
  ASSUME IInv, ApplyNewConfig
  PROVE  IInv'
<1>1. cfg \in Nat /\ cfg \in Versions /\ cfg' = cfg + 1 /\ cfg' \in Versions
  BY LoadsAssumption DEF ApplyNewConfig, IInv, ProcessOK, Versions
<1>2. ClusterOK' /\ \A w \in Workers : LocalOK(wk[w], cfg')
  BY <1>1, LoadedOK DEF ApplyNewConfig, Disturbances
<1>3. WorkersOK'
  BY <1>2 DEF ApplyNewConfig, IInv, WorkersOK
<1>4. ProcessOK'
  BY <1>1 DEF ApplyNewConfig, IInv, ProcessOK
<1>5. LaterIdle'
  BY <1>1, Apart DEF ApplyNewConfig, IInv, LaterIdle, At
<1>6. DisabledOnlyDuringGc'
  BY DEF ApplyNewConfig, IInv, DisabledOnlyDuringGc, At
<1>7. QED
  BY <1>2, <1>3, <1>4, <1>5, <1>6 DEF IInv

LEMMA WatcherStepOK ==
  ASSUME IInv, WatcherStep
  PROVE  IInv'
<1>1. cfg \in Nat /\ cfg \in Versions /\ cfg \in 1..cfg /\ cfg \in Workers /\ cfg \notin Handlers
  BY Apart, WatchedTargets DEF IInv, ProcessOK
<1>2. CASE SetDefaults
  BY <1>1, <1>2, AnswersOK DEF SetDefaults, Answers, IInv, ProcessOK, WorkersOK, LaterIdle, At,
                              DisabledOnlyDuringGc
<1>3. CASE SetOverrides
  <2>1. wk' = [wk EXCEPT ![cfg] = Sleeping] /\ cfg' = cfg /\ disabled' = disabled
    BY <1>3 DEF SetOverrides, Become
  <2>2. WorkersOK' /\ LaterIdle' /\ \A x \in Workers \ {cfg} : wk'[x] = wk[x]
    <3>1. ~ (cfg > cfg) /\ LocalOK(Sleeping, cfg)
      BY <1>1, RestOK
    <3>2. PICK w \in Workers : w = cfg
      BY <1>1
    <3>3. w \in Versions /\ w > cfg => Sleeping.pc = "idle"
      BY <3>1, <3>2
    <3>4. QED
      BY <2>1, <3>1, <3>2, <3>3, LocalsReplacedOK
  <2>3. ClusterOK' /\ ProcessOK'
    BY <1>1, <1>3, AnswersOK DEF SetOverrides, Answers, IInv, ProcessOK
  <2>4. DisabledOnlyDuringGc'
    BY <1>1, <2>1, <2>2, Apart DEF IInv, DisabledOnlyDuringGc, At
  <2>5. QED
    BY <2>2, <2>3, <2>4 DEF IInv
<1>4. QED
  BY <1>2, <1>3 DEF WatcherStep

LEMMA RestartOK ==
  ASSUME IInv, Restart
  PROVE  IInv'
<1>1. PICK v \in {cfg, cfg + 1} \cap Versions, sigterm \in BOOLEAN :
        /\ cfg' = v /\ defaults' = v /\ overrides' = v
        /\ wk' = [w \in Workers |->
                    IF w = v THEN Sleeping
                    ELSE IF w = Shutdown /\ sigterm THEN [Idle EXCEPT !.pc = "gcPerPvc"]
                    ELSE Idle]
  BY DEF Restart
<1>2. cfg \in Nat /\ v \in Versions /\ v \in Nat /\ cfg <= v /\ v \in 1..v
  BY Apart, WatchedTargets DEF IInv, ProcessOK
<1>3. ClusterOK'
  BY <1>1, <1>2, LoadedOK DEF Restart, Disturbances
<1>4. ProcessOK'
  BY <1>1, <1>2 DEF Restart, ProcessOK
<1>5. LocalOK([Idle EXCEPT !.pc = "gcPerPvc"], v)
  <2> DEFINE r == [Idle EXCEPT !.pc = "gcPerPvc"]
  <2>1. /\ DOMAIN r = Fields /\ r.pc = "gcPerPvc" /\ r.targets = {} /\ r.seen = {}
        /\ r.namespaces = {} /\ r.groups = {}
    BY DEF Idle, Fields
  <2> HIDE DEF r
  <2>2. LocalOK(r, v)
    BY <2>1 DEF LocalOK, ShapeOK, TargetOK, SweepOK, GroupsOK, Labels, TargetLabels,
                GroupLabels, SweepLabels
  <2>3. QED
    BY <2>2 DEF r
<1>6. WorkersOK'
  BY <1>1, <1>5, RestOK DEF WorkersOK
<1>7. LaterIdle'
  <2> SUFFICES ASSUME NEW w \in Versions, w > v
               PROVE  wk'[w].pc = "idle"
    BY <1>1 DEF LaterIdle, At
  <2>1. w \in Workers /\ w # Shutdown /\ w # v
    BY <1>2, Apart
  <2>2. QED
    BY <1>1, <2>1 DEF Idle
<1>8. DisabledOnlyDuringGc'
  BY DEF Restart, DisabledOnlyDuringGc
<1>9. QED
  BY <1>3, <1>4, <1>6, <1>7, <1>8 DEF IInv

LEMMA InitOK == Init => IInv
<1> SUFFICES ASSUME Init PROVE IInv
  OBVIOUS
<1>1. cfg = 1 /\ 1 \in Versions /\ 1 \in 1..1
  BY LoadsAssumption DEF Init, Versions
<1>2. \A a \in Agents : PodOK(a, pods[a], cfg)
  <2> SUFFICES ASSUME NEW a \in Agents PROVE PodOK(a, pods[a], cfg)
    OBVIOUS
  <2>1. pods[a] = IF a \in Leftover THEN [NoPod EXCEPT !.phase = "up"] ELSE NoPod
    BY DEF Init, ApiInit
  <2>2. CASE a \in Leftover
    BY <2>1, <2>2 DEF PodOK, NoPod, Phases, MadeBy
  <2>3. CASE a \notin Leftover
    BY <2>1, <2>3 DEF PodOK, NoPod, Phases
  <2>4. QED
    BY <2>2, <2>3
<1>3. ClusterOK
  BY <1>2, ClaimsAssumption, BudgetAssumption, LeftoverAssumption DEF Init, ApiInit, ClusterOK
<1>4. ProcessOK
  BY <1>1 DEF Init, ProcessOK
<1>5. WorkersOK
  BY RestOK DEF Init, WorkersOK
<1>6. LaterIdle
  <2> SUFFICES ASSUME NEW w \in Versions, w > cfg
               PROVE  wk[w].pc = "idle"
    BY DEF LaterIdle, At
  <2>1. w \in Workers /\ w # 1
    BY <1>1, Apart
  <2>2. QED
    BY <2>1 DEF Init, Idle
<1>7. DisabledOnlyDuringGc
  BY DEF Init, DisabledOnlyDuringGc
<1>8. QED
  BY <1>3, <1>4, <1>5, <1>6, <1>7 DEF IInv

LEMMA IInvInvariant == Spec => []IInv
<1>1. Init => IInv
  BY InitOK
<1>2. IInv /\ [Next]_vars => IInv'
  <2> SUFFICES ASSUME IInv, [Next]_vars
               PROVE  IInv'
    OBVIOUS
  <2>1. CASE ApplyNewConfig \/ WatcherStep
    BY <2>1, ApplyNewConfigOK, WatcherStepOK
  <2>2. ASSUME NEW w \in Passes, PassStep(w) PROVE IInv'
    BY <2>2, PassStepOK
  <2>3. ASSUME NEW w \in Handlers, GcRequest(w) \/ SweepStep(w) \/ GcCancelled(w) \/ Enable(w)
        PROVE  IInv'
    BY <2>3, HandlerStepOK, SweepStepOK DEF Sweepers
  <2>4. CASE SweepStep(Shutdown) \/ ShutdownExits
    BY <2>4, SweepStepOK, ShutdownExitsOK DEF Sweepers
  <2>5. CASE Restart
    BY <2>5, RestartOK
  <2>6. CASE ClusterStep /\ UNCHANGED <<procVars, wk>>
    BY <2>6, ClusterStepOK DEF procVars, IInv, ProcessOK, WorkersOK, LaterIdle, At,
                              DisabledOnlyDuringGc
  <2>7. CASE UNCHANGED vars
    BY <2>7, AnswersOK DEF vars, Answers, procVars, IInv, ProcessOK, WorkersOK, LaterIdle, At,
                          DisabledOnlyDuringGc
  <2>8. QED
    BY <2>1, <2>2, <2>3, <2>4, <2>5, <2>6, <2>7 DEF Next
<1>3. QED
  BY <1>1, <1>2, PTL DEF Spec

----------------------------------------------------------------------------
(* The results.                                                            *)

(* The state keeps its types, whatever passes overlap and whatever fails. *)
THEOREM ControllerTypeOK == Spec => []TypeOK
<1>1. IInv => TypeOK
  <2> SUFFICES ASSUME IInv PROVE TypeOK
    OBVIOUS
  <2>1. cfg \in Versions /\ defaults \in Versions /\ overrides \in Versions /\ disabled \in BOOLEAN
    BY WatchedTargets DEF IInv, ProcessOK
  <2>2. DOMAIN Idle = Fields
    BY DEF Idle, Fields
  <2>3. ASSUME NEW w \in Workers
        PROVE  /\ DOMAIN wk[w] = DOMAIN Idle /\ wk[w].pc \in Labels
               /\ wk[w].targets \subseteq Target /\ wk[w].namespaces \subseteq Namespaces
    <3>1. ShapeOK(wk[w], cfg)
      BY DEF IInv, WorkersOK, LocalOK
    <3>2. wk[w].targets \subseteq Target
      BY <2>1, <3>1, WatchedTargets DEF ShapeOK
    <3>3. wk[w].namespaces \subseteq Namespaces
      BY <3>1, <3>2 DEF ShapeOK, Target
    <3>4. QED
      BY <2>2, <3>1, <3>2, <3>3 DEF ShapeOK
  <2>4. QED
    BY <2>1, <2>3 DEF IInv, ClusterOK, PodOK, WorkersOK, TypeOK
<1>2. QED
  BY <1>1, IInvInvariant, PTL

(* The specs of an agent's name are those of its PVC or its group.          *)
LEMMA SpecsOfPvc ==
  ASSUME NEW c, NEW t \in Target
  PROVE  \A spec : SpecBy(c, AgentName(t), spec) <=> PvcSpecBy(c, t, spec)
<1>1. AgentName(t) \in PvcAgents /\ <<AgentName(t)[2], AgentName(t)[3]>> = t
  BY DEF PvcAgents, AgentName, Target
<1> QED
  BY <1>1 DEF SpecBy

LEMMA SpecsOfGroup ==
  ASSUME NEW c, NEW ns, NEW key
  PROVE  \A spec : SpecBy(c, NamespaceAgentGroupName(ns, key), spec) <=> GroupSpecBy(c, ns, key, spec)
<1> DEFINE a == NamespaceAgentGroupName(ns, key)
<1>1. a \notin PvcAgents /\ a[2] = ns /\ a[3] = key
  BY DEF PvcAgents, AgentName, NamespaceAgentGroupName
<1> HIDE DEF a
<1> QED
  BY <1>1 DEF SpecBy, a

LEMMA SpecsMade ==
  ASSUME NEW c \in Versions, NEW a, NEW spec, MadeBy(c, a, spec)
  PROVE  (a \in Leftover /\ spec = NoSpec) \/ SpecBy(c, a, spec)
<1>1. ASSUME NEW t \in WatchedBy(c), a = AgentName(t), PvcSpecBy(c, t, spec)
      PROVE  SpecBy(c, a, spec)
  <2>1. t \in Target
    BY WatchedTargets
  <2> QED
    BY <1>1, <2>1, SpecsOfPvc
<1>2. ASSUME NEW ns, NEW key, a = NamespaceAgentGroupName(ns, key), GroupSpecBy(c, ns, key, spec)
      PROVE  SpecBy(c, a, spec)
  BY <1>2, SpecsOfGroup
<1> QED
  BY <1>1, <1>2 DEF MadeBy

(* No overlap, restart or failed call lets an agent run that the loads      *)
(* applied so far do not explain.                                          *)
THEOREM AgentsFromAppliedConfigTheorem == Spec => []AgentsFromAppliedConfig
<1>1. IInv => AgentsFromAppliedConfig
  <2> SUFFICES ASSUME IInv, NEW a \in Agents, Exists(a)
               PROVE  LeftBehind(a) \/ SpecBy(cfg, a, pods[a].spec)
    BY DEF AgentsFromAppliedConfig
  <2>1. cfg \in Versions /\ MadeBy(cfg, a, pods[a].spec)
    BY DEF IInv, ProcessOK, ClusterOK, PodOK, Exists
  <2> QED
    BY <2>1, SpecsMade DEF LeftBehind
<1>2. QED
  BY <1>1, IInvInvariant, PTL

(* Reconciliation is off only while a /gc request is being served. *)
THEOREM DisabledOnlyDuringGcTheorem == Spec => []DisabledOnlyDuringGc
<1>1. IInv => DisabledOnlyDuringGc
  BY DEF IInv
<1>2. QED
  BY <1>1, IInvInvariant, PTL
=============================================================================
