------------------------ MODULE SecurityReloadProofs ------------------------
(***************************************************************************)
(* Proofs about the security settings, for every set of configurations and *)
(* claims.  The argument: whatever Pod is running, its context is the one   *)
(* its stored hash was computed with; so a pass that leaves a Pod alone     *)
(* because the hashes agree leaves one with the context it wants, provided  *)
(* the hash determines the context.                                        *)
(***************************************************************************)
EXTENDS SecurityReload, TLAPS, FiniteSetTheorems, SequenceTheorems, Induction

(* The least element of a non-empty set of naturals. *)
LEMMA MinOfNaturals ==
  ASSUME NEW S \in SUBSET Nat, S # {}
  PROVE  Min(S) \in S /\ \A i \in S : Min(S) <= i
<1>1. \E x \in S : \A y \in S : x <= y
  BY Least
<1> QED
  BY <1>1 DEF Min
----------------------------------------------------------------------------
(* The hash determines the settings, but for ids that are absent or 0.     *)

(* Resolving the settings of a PVC gives settings. *)
LEMMA FirstOfSettings ==
  ASSUME NEW c \in Configs, NEW hits \in SUBSET (DOMAIN c.overrides)
  PROVE  FirstOf(c.defaults, c.overrides, hits) \in Settings
<1>1. CASE hits = {}
  BY <1>1, ConfigsAssumption DEF FirstOf
<1>2. CASE hits # {}
  <2>1. Min(hits) \in DOMAIN c.overrides
    BY <1>2, MinOfNaturals, ConfigsAssumption
  <2>2. c.defaults \in Settings /\ c.overrides[Min(hits)].sec \in Settings
    BY <2>1, ConfigsAssumption
  <2>3. QED
    BY <1>2, <2>2 DEF FirstOf, MergeSecurity, Settings
<1>3. QED
  BY <1>1, <1>2

LEMMA SameDigest ==
  ASSUME NEW a, NEW b, OrZero(a) = OrZero(b)
  PROVE  b \in Same(a)
BY DEF OrZero, Same

(* sec with the ids of other. *)
WithIds(sec, other) ==
  [runAsUser |-> other.runAsUser, runAsGroup |-> other.runAsGroup, fsGroup |-> other.fsGroup,
   supplementalGroups |-> sec.supplementalGroups, readOnly |-> sec.readOnly]

SameIds(sec, other) ==
  /\ OrZero(sec.runAsUser) = OrZero(other.runAsUser)
  /\ OrZero(sec.runAsGroup) = OrZero(other.runAsGroup)
  /\ OrZero(sec.fsGroup) = OrZero(other.fsGroup)

LEMMA WithIdsAlike ==
  ASSUME NEW sec \in Settings, NEW other \in Settings, SameIds(sec, other)
  PROVE  /\ WithIds(sec, other) \in Alike(sec)
         /\ WithIds(sec, other).runAsUser = other.runAsUser
         /\ WithIds(sec, other).runAsGroup = other.runAsGroup
         /\ WithIds(sec, other).fsGroup = other.fsGroup
         /\ WithIds(sec, other).supplementalGroups = sec.supplementalGroups
         /\ WithIds(sec, other).readOnly = sec.readOnly
<1>1. /\ other.runAsUser \in Same(sec.runAsUser)
      /\ other.runAsGroup \in Same(sec.runAsGroup)
      /\ other.fsGroup \in Same(sec.fsGroup)
  BY SameDigest DEF SameIds
<1>2. WithIds(sec, other) \in Alike(sec)
  BY <1>1 DEF Alike, WithIds, Settings
<1>3. QED
  BY <1>2 DEF WithIds, Settings

(* Equal hashes, equal Pods: a Pod made from other has the context of       *)
(* settings like sec.                                                      *)
LEMMA HashDeterminesPod ==
  ASSUME NEW g, NEW sec \in Settings, NEW h, NEW other \in Settings,
         SpecHash(g, sec) = SpecHash(h, other)
  PROVE  \E s \in Alike(sec) : PvcPod(h, other) = PvcPod(g, s)
<1>1. /\ SameIds(sec, other)
      /\ sec.readOnly = other.readOnly
      /\ MergeSupplemental(g, sec.supplementalGroups)
           = MergeSupplemental(h, other.supplementalGroups)
  BY DEF SpecHash, SameIds
<1>2. PvcPod(h, other) = PvcPod(g, WithIds(sec, other))
  BY <1>1, WithIdsAlike DEF PvcPod
<1>3. QED
  BY <1>1, <1>2, WithIdsAlike
----------------------------------------------------------------------------
(* agent-per-pvc.                                                          *)

Resolved(c, t) ==
  ResolveSecurityForStorageClass(c.defaults, c.overrides, t[2], DiscoveredClass(Claims[t]))

(* The agent that a pass under configuration c creates for t. *)
AgentOf(c, t) ==
  [hash |-> PvcSpecHash(c.defaults.supplementalGroups, Resolved(c, t)),
   pod  |-> PvcPod(c.defaults.supplementalGroups, Resolved(c, t))]

(* Every agent was created under some configuration, and after a pass every *)
(* target's agent has the hash of the one in force.                        *)
AgentsInv ==
  /\ cfg \in Configs
  /\ settled \in BOOLEAN
  /\ DOMAIN agents = DOMAIN Claims
  /\ \A t \in DOMAIN Claims : agents[t] = NoPod \/ \E c \in Configs : agents[t] = AgentOf(c, t)
  /\ settled /\ cfg.mode = "agent-per-pvc" =>
       \A t \in Targets : agents[t] # NoPod /\ agents[t].hash = AgentOf(cfg, t).hash

LEMMA AgentIsAPod ==
  ASSUME NEW c, NEW t
  PROVE  AgentOf(c, t) # NoPod
<1>1. AgentOf(c, t).hash # NoPod.hash
  BY DEF AgentOf, NoPod, PvcSpecHash, SpecHash
<1>2. QED
  BY <1>1

(* PerPvcPass, target by target. *)
LEMMA EnsuredAgent ==
  ASSUME AgentsInv, PerPvcPass, NEW t \in DOMAIN Claims
  PROVE  /\ t \notin Targets => agents'[t] = NoPod
         /\ t \in Targets => agents'[t] = Ensured(agents[t], AgentOf(cfg, t).hash,
                                                   AgentOf(cfg, t).pod)
  BY DEF AgentsInv, PerPvcPass, AgentOf, Resolved, PvcSecurity, DefaultGroups

LEMMA AgentsInvInvariant == Spec => []AgentsInv
<1>1. Init => AgentsInv
  BY DEF Init, AgentsInv
<1>2. AgentsInv /\ [Next]_vars => AgentsInv'
  <2> SUFFICES ASSUME AgentsInv, [Next]_vars
               PROVE  AgentsInv'
    OBVIOUS
  <2>1. CASE Reload
    BY <2>1 DEF Reload, AgentsInv
  <2>2. CASE PerPvcPass
    <3>1. cfg' = cfg /\ settled' = TRUE /\ DOMAIN agents' = DOMAIN Claims /\ Targets' = Targets
      BY <2>2 DEF PerPvcPass, Targets
    <3>2. ASSUME NEW t \in Targets
          PROVE  \/ agents'[t] = AgentOf(cfg, t)
                 \/ agents'[t] = agents[t] /\ agents[t] # NoPod
                      /\ agents[t].hash = AgentOf(cfg, t).hash
      <4>1. t \in DOMAIN Claims
        BY DEF Targets, BuildTargets
      <4>2. agents'[t] = Ensured(agents[t], AgentOf(cfg, t).hash, AgentOf(cfg, t).pod)
        BY <2>2, <4>1, EnsuredAgent
      <4>3. QED
        BY <4>2 DEF Ensured, AgentOf
    <3>3. ASSUME NEW t \in DOMAIN Claims
          PROVE  agents'[t] = NoPod \/ \E c \in Configs : agents'[t] = AgentOf(c, t)
      BY <2>2, <3>2, EnsuredAgent DEF AgentsInv
    <3>4. ASSUME NEW t \in Targets
          PROVE  agents'[t] # NoPod /\ agents'[t].hash = AgentOf(cfg, t).hash
      BY <3>2, AgentIsAPod
    <3>5. \A t : AgentOf(cfg', t) = AgentOf(cfg, t)
      BY <3>1
    <3>6. QED
      BY <3>1, <3>3, <3>4, <3>5 DEF AgentsInv
  <2>3. CASE PerNamespacePass
    BY <2>3 DEF PerNamespacePass, AgentsInv
  <2>4. CASE UNCHANGED vars
    BY <2>4 DEF vars, AgentsInv, Targets
  <2>5. QED
    BY <2>1, <2>2, <2>3, <2>4 DEF Next
<1>3. QED
  BY <1>1, <1>2, PTL DEF Spec

LEMMA ResolvedSettings ==
  ASSUME NEW c \in Configs, NEW t
  PROVE  Resolved(c, t) \in Settings
<1>1. ExactHits(c.overrides, t[2], DiscoveredClass(Claims[t])) \subseteq DOMAIN c.overrides
  BY DEF ExactHits
<1>2. QED
  BY <1>1, FirstOfSettings DEF Resolved, ResolveSecurityForStorageClass

(* Every edit of the settings reaches the agents, but for an id that goes   *)
(* from absent to 0 or back: EditReachesAgent holds for all configurations  *)
(* and claims.                                                             *)
THEOREM EditReachesAgentTheorem == Spec => []EditReachesAgent
<1>1. AgentsInv => EditReachesAgent
  <2> SUFFICES ASSUME AgentsInv, settled, cfg.mode = "agent-per-pvc", NEW t \in Targets
               PROVE  /\ agents[t] # NoPod
                      /\ \E s \in Alike(Resolved(cfg, t)) : agents[t].pod = PvcPod(DefaultGroups, s)
    BY DEF EditReachesAgent, Resolved, PvcSecurity
  <2>1. t \in DOMAIN Claims /\ cfg \in Configs
    BY DEF Targets, BuildTargets, AgentsInv
  <2>2. agents[t] # NoPod /\ agents[t].hash = AgentOf(cfg, t).hash
    BY DEF AgentsInv
  <2>3. PICK c \in Configs : agents[t] = AgentOf(c, t)
    BY <2>1, <2>2 DEF AgentsInv
  <2> DEFINE g == cfg.defaults.supplementalGroups
             h == c.defaults.supplementalGroups
  <2>4. SpecHash(g, Resolved(cfg, t)) = SpecHash(h, Resolved(c, t))
    BY <2>2, <2>3 DEF AgentOf, PvcSpecHash
  <2>5. agents[t].pod = PvcPod(h, Resolved(c, t))
    BY <2>3 DEF AgentOf
  <2> HIDE DEF g, h
  <2>6. \E s \in Alike(Resolved(cfg, t)) : PvcPod(h, Resolved(c, t)) = PvcPod(g, s)
    BY <2>1, <2>4, ResolvedSettings, HashDeterminesPod
  <2>7. QED
    BY <2>2, <2>5, <2>6 DEF g, DefaultGroups
<1>2. QED
  BY <1>1, AgentsInvInvariant, PTL

(* An id whose digest changes and whose value in the Pod does not is one    *)
(* that is absent and the default.                                         *)
LEMMA OnlyTheDefault ==
  ASSUME NEW a \in Nat \cup {Nil}, NEW b \in Nat \cup {Nil},
         PickInt(a) = PickInt(b), OrZero(a) # OrZero(b)
  PROVE  {OrZero(a), OrZero(b)} = {0, DefaultId}
<1>1. CASE a = Nil
  BY <1>1 DEF PickInt, OrZero
<1>2. CASE b = Nil
  BY <1>2 DEF PickInt, OrZero
<1>3. CASE a # Nil /\ b # Nil
  BY <1>3 DEF PickInt, OrZero
<1>4. QED
  BY <1>1, <1>2, <1>3

(* An agent that is replaced has another context than the one before, lists *)
(* its groups in another order, or was asked for with the default id written *)
(* out in one of the two requests: for all configurations and claims.       *)
THEOREM NoNeedlessRestartTheorem == Spec => NoNeedlessRestart
<1> DEFINE Justified(old, new) ==
             \/ ~SameContext(old.pod, new.pod)
             \/ old.pod.supplementalGroups # new.pod.supplementalGroups
             \/ DefaultWrittenOut(old.hash, new.hash)
<1>1. ASSUME NEW c \in Configs, NEW d \in Configs, NEW t \in DOMAIN Claims,
             AgentOf(c, t).hash # AgentOf(d, t).hash
      PROVE  Justified(AgentOf(c, t), AgentOf(d, t))
  <2> DEFINE old == Resolved(c, t)
             new == Resolved(d, t)
             g == c.defaults.supplementalGroups
             h == d.defaults.supplementalGroups
  <2>1. old \in Settings /\ new \in Settings
    BY ResolvedSettings
  <2>2. /\ AgentOf(c, t) = [hash |-> SpecHash(g, old), pod |-> PvcPod(g, old)]
        /\ AgentOf(d, t) = [hash |-> SpecHash(h, new), pod |-> PvcPod(h, new)]
    BY DEF AgentOf, PvcSpecHash
  <2> HIDE DEF old, new, g, h
  <2>3. SUFFICES ASSUME SameContext(PvcPod(g, old), PvcPod(h, new)),
                        PvcPod(g, old).supplementalGroups = PvcPod(h, new).supplementalGroups
                 PROVE  DefaultWrittenOut(SpecHash(g, old), SpecHash(h, new))
    BY <2>2
  <2>4. /\ PickInt(old.runAsUser) = PickInt(new.runAsUser)
        /\ PickInt(old.runAsGroup) = PickInt(new.runAsGroup)
        /\ old.fsGroup = new.fsGroup
        /\ old.readOnly = new.readOnly
        /\ MergeSupplemental(g, old.supplementalGroups)
             = MergeSupplemental(h, new.supplementalGroups)
    BY <2>3 DEF SameContext, PvcPod
  <2>5. SpecHash(g, old) # SpecHash(h, new)
    BY <1>1, <2>2
  <2>6. \/ OrZero(old.runAsUser) # OrZero(new.runAsUser)
        \/ OrZero(old.runAsGroup) # OrZero(new.runAsGroup)
    BY <2>4, <2>5 DEF SpecHash
  <2>7. /\ old.runAsUser \in Nat \cup {Nil} /\ new.runAsUser \in Nat \cup {Nil}
        /\ old.runAsGroup \in Nat \cup {Nil} /\ new.runAsGroup \in Nat \cup {Nil}
    BY <2>1 DEF Settings
  <2>8. \/ {OrZero(old.runAsUser), OrZero(new.runAsUser)} = {0, DefaultId}
        \/ {OrZero(old.runAsGroup), OrZero(new.runAsGroup)} = {0, DefaultId}
    BY <2>4, <2>6, <2>7, OnlyTheDefault
  <2>9. /\ SpecHash(g, old)[1] = OrZero(old.runAsUser) /\ SpecHash(g, old)[2] = OrZero(old.runAsGroup)
        /\ SpecHash(h, new)[1] = OrZero(new.runAsUser) /\ SpecHash(h, new)[2] = OrZero(new.runAsGroup)
    BY DEF SpecHash
  <2>10. \E i \in {1, 2} : {SpecHash(g, old)[i], SpecHash(h, new)[i]} = {0, DefaultId}
    BY <2>8, <2>9
  <2>11. {1, 2} = 1 .. 2
    OBVIOUS
  <2>12. QED
    BY <2>10, <2>11 DEF DefaultWrittenOut
<1>2. ASSUME AgentsInv, [Next]_vars, NEW t \in DOMAIN Claims,
             agents[t] # NoPod, agents'[t] # NoPod, agents'[t] # agents[t]
      PROVE  Justified(agents[t], agents'[t])
  <2>1. CASE PerPvcPass
    <3>1. /\ agents'[t] = Ensured(agents[t], AgentOf(cfg, t).hash, AgentOf(cfg, t).pod)
          /\ cfg \in Configs
      BY <1>2, <2>1, EnsuredAgent DEF AgentsInv
    <3>2. agents'[t] = AgentOf(cfg, t) /\ agents[t].hash # AgentOf(cfg, t).hash
      BY <1>2, <3>1 DEF Ensured, AgentOf
    <3>3. PICK c \in Configs : agents[t] = AgentOf(c, t)
      BY <1>2 DEF AgentsInv
    <3>4. Justified(AgentOf(c, t), AgentOf(cfg, t))
      BY <1>1, <3>1, <3>2, <3>3
    <3>5. QED
      BY <3>2, <3>3, <3>4
  <2>2. CASE PerNamespacePass
    BY <1>2, <2>2 DEF PerNamespacePass
  <2>3. CASE Reload \/ UNCHANGED vars
    BY <1>2, <2>3 DEF Reload, vars
  <2>4. QED
    BY <1>2, <2>1, <2>2, <2>3 DEF Next
<1>3. AgentsInv /\ [Next]_vars =>
        [\A t \in DOMAIN Claims :
           agents[t] # NoPod /\ agents'[t] # NoPod /\ agents'[t] # agents[t]
             => Justified(agents[t], agents'[t])]_vars
  BY <1>2
<1>4. QED
  BY <1>3, AgentsInvInvariant, PTL DEF Spec, NoNeedlessRestart

----------------------------------------------------------------------------
(* agent-per-namespace.                                                    *)

GroupKeys == {ProfileKey(GroupSecurity(t)) : t \in Targets}
GroupHash(key) == GroupSpecHash(GroupMembers(key), DefaultGroups, GroupSettings(key))

(* The hash of a group agent tells what it mounts and whether it is        *)
(* read-only; after a pass the groups and hashes are those of cfg.         *)
GroupsInv ==
  /\ \A key \in DOMAIN groups :
       /\ groups[key].pod.mounts \subseteq DOMAIN Claims
       /\ groups[key].pod.mounts = groups[key].hash[1]
       /\ groups[key].pod.context.readOnly = groups[key].hash[2][4]
  /\ settled /\ cfg.mode = "agent-per-namespace" =>
       /\ \A t \in DOMAIN Claims : agents[t] = NoPod
       /\ DOMAIN groups = GroupKeys
       /\ \A key \in GroupKeys : groups[key].hash = GroupHash(key)

LEMMA GroupsInvInvariant == Spec => []GroupsInv
<1>1. Init => GroupsInv
  BY DEF Init, GroupsInv
<1>2. GroupsInv /\ [Next]_vars => GroupsInv'
  <2> SUFFICES ASSUME GroupsInv, [Next]_vars
               PROVE  GroupsInv'
    OBVIOUS
  <2>1. CASE Reload
    BY <2>1 DEF Reload, GroupsInv
  <2>2. CASE PerPvcPass
    BY <2>2 DEF PerPvcPass, GroupsInv
  <2>3. CASE PerNamespacePass
    <3>1. /\ cfg' = cfg
          /\ \A t \in DOMAIN Claims : agents'[t] = NoPod
          /\ DOMAIN groups' = GroupKeys
      BY <2>3 DEF PerNamespacePass, GroupKeys
    <3>2. GroupKeys' = GroupKeys /\ \A key : GroupHash(key)' = GroupHash(key)
      BY <3>1 DEF GroupKeys, GroupHash, GroupMembers, GroupSettings, GroupSecurity,
                  DefaultGroups, Targets
    <3>3. ASSUME NEW key \in GroupKeys
          PROVE  \/ groups'[key] = [hash |-> GroupHash(key), pod |-> GroupPodWithMounts(key)]
                 \/ key \in DOMAIN groups /\ groups'[key] = groups[key]
                      /\ groups[key].hash = GroupHash(key)
      BY <2>3 DEF PerNamespacePass, GroupKeys, GroupHash, Ensured
    <3>4. ASSUME NEW key \in GroupKeys
          PROVE  /\ groups'[key].hash = GroupHash(key)
                 /\ groups'[key].pod.mounts \subseteq DOMAIN Claims
                 /\ groups'[key].pod.mounts = groups'[key].hash[1]
                 /\ groups'[key].pod.context.readOnly = groups'[key].hash[2][4]
      <4>1. GroupMembers(key) \subseteq DOMAIN Claims
        BY DEF GroupMembers, Targets, BuildTargets
      <4>2. CASE groups'[key] = [hash |-> GroupHash(key), pod |-> GroupPodWithMounts(key)]
        BY <4>1, <4>2 DEF GroupHash, GroupPodWithMounts, GroupPod, GroupSpecHash, SpecHash
      <4>3. CASE key \in DOMAIN groups /\ groups'[key] = groups[key]
                   /\ groups[key].hash = GroupHash(key)
        BY <4>3 DEF GroupsInv
      <4>4. QED
        BY <3>3, <4>2, <4>3
    <3>5. QED
      BY <3>1, <3>2, <3>4 DEF GroupsInv
  <2>4. CASE UNCHANGED vars
    <3>1. cfg' = cfg /\ settled' = settled /\ agents' = agents /\ groups' = groups
      BY <2>4 DEF vars
    <3>2. GroupKeys' = GroupKeys /\ \A key : GroupHash(key)' = GroupHash(key)
      BY <3>1 DEF GroupKeys, GroupHash, GroupMembers, GroupSettings, GroupSecurity,
                  DefaultGroups, Targets
    <3>3. QED
      BY <3>1, <3>2 DEF GroupsInv
  <2>5. QED
    BY <2>1, <2>2, <2>3, <2>4 DEF Next
<1>3. QED
  BY <1>1, <1>2, PTL DEF Spec

(* Types of the state, for all configurations and claims. *)
THEOREM TypeOKTheorem == Spec => []TypeOK
<1>1. AgentsInv /\ GroupsInv => TypeOK
  BY DEF AgentsInv, GroupsInv, TypeOK
<1>2. QED
  BY <1>1, AgentsInvInvariant, GroupsInvInvariant, PTL

(* A PVC is mounted by at most one group agent, and by no agent of its own. *)
THEOREM MountedOnceTheorem == Spec => []MountedOnce
<1>1. GroupsInv => MountedOnce
  <2> SUFFICES ASSUME GroupsInv, settled, cfg.mode = "agent-per-namespace",
                      NEW t \in DOMAIN Claims
               PROVE  /\ Cardinality({key \in DOMAIN groups : t \in groups[key].pod.mounts}) <= 1
                      /\ agents[t] = NoPod
    BY DEF MountedOnce
  <2> DEFINE mounting == {key \in DOMAIN groups : t \in groups[key].pod.mounts}
             own == ProfileKey(GroupSecurity(t))
  <2>1. ASSUME NEW key \in mounting PROVE key = own
    BY DEF GroupsInv, GroupHash, GroupSpecHash, GroupMembers
  <2>2. mounting \in SUBSET {own}
    BY <2>1
  <2>3. IsFiniteSet({own}) /\ Cardinality({own}) = 1
    BY FS_Singleton
  <2>4. Cardinality(mounting) <= 1
    BY <2>2, <2>3, FS_Subset
  <2>5. QED
    BY <2>4 DEF GroupsInv
<1>2. QED
  BY <1>1, GroupsInvInvariant, PTL

----------------------------------------------------------------------------
(* The settings of a group and those of its PVCs.                          *)

LEMMA AddNewAdds ==
  ASSUME NEW E, NEW acc \in Seq(E), NEW x \in E
  PROVE  AddNew(acc, x) \in Seq(E) /\ ToSet(AddNew(acc, x)) = ToSet(acc) \cup {x}
<1>1. CASE Contains(acc, x)
  BY <1>1 DEF AddNew, Contains, ToSet
<1>2. CASE ~Contains(acc, x)
  <2> DEFINE next == Append(acc, x)
  <2>1. /\ next \in Seq(E) /\ Len(next) = Len(acc) + 1
        /\ \A i \in 1 .. Len(acc) : next[i] = acc[i]
    BY AppendProperties
  <2>2. next[Len(acc) + 1] = x
    BY AppendProperties
  <2> HIDE DEF next
  <2>3. ToSet(next) = ToSet(acc) \cup {x}
    <3>1. DOMAIN next = 1 .. Len(acc) + 1 /\ DOMAIN acc = 1 .. Len(acc) /\ Len(acc) \in Nat
      BY <2>1
    <3>2. ASSUME NEW i \in DOMAIN next PROVE next[i] \in ToSet(acc) \cup {x}
      BY <2>1, <2>2, <3>1 DEF ToSet
    <3>3. ASSUME NEW i \in DOMAIN acc PROVE acc[i] \in ToSet(next)
      BY <2>1, <3>1 DEF ToSet
    <3>4. x \in ToSet(next)
      BY <2>2, <3>1 DEF ToSet
    <3> QED
      BY <3>2, <3>3, <3>4 DEF ToSet
  <2> QED
    BY <1>2, <2>1, <2>3 DEF AddNew, next
<1> QED
  BY <1>1, <1>2

(* Merging two lists of groups loses none and adds none.                   *)
LEMMA MergeSupplementalSet ==
  ASSUME NEW E, NEW a \in Seq(E), NEW b \in Seq(E)
  PROVE  /\ MergeSupplemental(a, b) \in Seq(E)
         /\ ToSet(MergeSupplemental(a, b)) = ToSet(a) \cup ToSet(b)
<1> DEFINE all == a \o b
           N == Len(all)
           T == Seq(E)
           step == [k \in 1 .. N |-> [acc \in T |-> AddNew(acc, all[k])]]
           Is(f) == f = [k \in 0 .. N |-> IF k = 0 THEN <<>> ELSE AddNew(f[k - 1], all[k])]
           merged == CHOOSE f : Is(f)
<1>1. /\ all \in Seq(E) /\ N \in Nat /\ \A k \in 1 .. N : all[k] \in E
      /\ N = Len(a) + Len(b) /\ Len(a) \in Nat /\ Len(b) \in Nat
  OBVIOUS
<1>2. step \in [1 .. N -> [T -> T]] /\ <<>> \in T
  <2> HIDE DEF N, all
  <2>1. ASSUME NEW k \in 1 .. N, NEW acc \in T PROVE AddNew(acc, all[k]) \in T
    BY <1>1, AddNewAdds
  <2> QED
    BY <2>1
<1>3. PICK g : Iterates(g, T, N, <<>>, step)
  <2> HIDE DEF step, N, T
  <2> QED
    BY <1>1, <1>2, Iteration
<1>4. /\ g \in [0 .. N -> T] /\ g[0] = <<>>
      /\ \A k \in 1 .. N : g[k] = AddNew(g[k - 1], all[k])
  <2> HIDE DEF T, all, N
  <2>1. /\ g \in [0 .. N -> T] /\ g[0] = <<>>
        /\ \A k \in 1 .. N : g[k] = step[k][g[k - 1]]
    BY <1>3 DEF Iterates
  <2>2. ASSUME NEW k \in 1 .. N PROVE g[k - 1] \in T
    BY <1>1, <2>1
  <2> QED
    BY <2>1, <2>2
<1>5. Is(g)
  <2> HIDE DEF all
  <2> QED
    BY <1>1, <1>4
<1>6. Is(merged)
  <2> HIDE DEF Is
  <2> QED
    BY <1>5
<1>7. MergeSupplemental(a, b) = IF b = <<>> THEN a ELSE merged[N]
  BY DEF MergeSupplemental
<1>8. merged[0] = <<>> /\ \A k \in 1 .. N : merged[k] = AddNew(merged[k - 1], all[k])
  <2> HIDE DEF merged, all, N
  <2> QED
    BY <1>1, <1>6
<1> DEFINE S == {k \in Nat : k <= N => /\ merged[k] \in Seq(E)
                                        /\ ToSet(merged[k]) = {all[i] : i \in 1 .. k}}
<1>9. 0 \in S
  <2> HIDE DEF merged, all
  <2>1. merged[0] \in Seq(E) /\ ToSet(merged[0]) = {}
    BY <1>8 DEF ToSet
  <2> QED
    BY <2>1
<1>10. ASSUME NEW k \in Nat, k \in S
       PROVE  k + 1 \in S
  <2> HIDE DEF merged, all
  <2> SUFFICES ASSUME k + 1 <= N
               PROVE  /\ merged[k + 1] \in Seq(E)
                      /\ ToSet(merged[k + 1]) = {all[i] : i \in 1 .. k + 1}
    OBVIOUS
  <2>1. merged[k] \in Seq(E) /\ ToSet(merged[k]) = {all[i] : i \in 1 .. k} /\ all[k + 1] \in E
    BY <1>1, <1>10
  <2>2. merged[k + 1] = AddNew(merged[k], all[k + 1])
    BY <1>1, <1>8
  <2>3. merged[k + 1] \in Seq(E) /\ ToSet(merged[k + 1]) = ToSet(merged[k]) \cup {all[k + 1]}
    BY <2>1, <2>2, AddNewAdds
  <2>4. 1 .. k + 1 = (1 .. k) \cup {k + 1}
    OBVIOUS
  <2> QED
    BY <2>1, <2>3, <2>4
<1>11. Nat \subseteq S
  <2> HIDE DEF S
  <2> QED
    BY <1>9, <1>10, SetInduction
<1>12. merged[N] \in Seq(E) /\ ToSet(merged[N]) = {all[i] : i \in 1 .. N}
  <2> HIDE DEF merged, all, N, S
  <2>1. N \in S /\ N <= N
    BY <1>1, <1>11
  <2> QED
    BY <2>1 DEF S
<1>13. {all[i] : i \in 1 .. N} = ToSet(a) \cup ToSet(b)
  <2>1. DOMAIN a = 1 .. Len(a) /\ DOMAIN b = 1 .. Len(b)
    OBVIOUS
  <2>2. ASSUME NEW i \in 1 .. N PROVE all[i] \in ToSet(a) \cup ToSet(b)
    <3>1. CASE i <= Len(a)
      <4>1. i \in DOMAIN a /\ all[i] = a[i]
        BY <1>1, <2>1, <3>1, ConcatProperties
      <4> QED
        BY <4>1 DEF ToSet
    <3>2. CASE i > Len(a)
      <4>1. i - Len(a) \in DOMAIN b /\ all[i] = b[i - Len(a)]
        BY <1>1, <2>1, <3>2, ConcatProperties
      <4> QED
        BY <4>1 DEF ToSet
    <3> QED
      BY <1>1, <3>1, <3>2
  <2>3. ASSUME NEW i \in DOMAIN a PROVE a[i] \in {all[j] : j \in 1 .. N}
    <3>1. i \in 1 .. N /\ all[i] = a[i]
      BY <1>1, <2>1, ConcatProperties
    <3> QED
      BY <3>1
  <2>4. ASSUME NEW i \in DOMAIN b PROVE b[i] \in {all[j] : j \in 1 .. N}
    <3>1. Len(a) + i \in 1 .. N /\ all[Len(a) + i] = b[i]
      BY <1>1, <2>1, ConcatProperties
    <3> QED
      BY <3>1
  <2> QED
    BY <2>2, <2>3, <2>4 DEF ToSet
<1>14. CASE b = <<>>
  <2>1. ToSet(b) = {}
    BY <1>14 DEF ToSet
  <2> QED
    BY <1>7, <1>14, <2>1
<1>15. CASE b # <<>>
  <2> HIDE DEF merged, all
  <2> QED
    BY <1>7, <1>12, <1>13, <1>15
<1> QED
  BY <1>14, <1>15

LEMMA SameBagSameSet ==
  ASSUME NEW a, NEW b, ToBag(a) = ToBag(b)
  PROVE  ToSet(a) = ToSet(b)
<1>1. DOMAIN ToBag(a) = ToSet(a) /\ DOMAIN ToBag(b) = ToSet(b)
  BY DEF ToBag, ToSet, Range
<1> QED
  BY <1>1

LEMMA GroupSecuritySettings ==
  ASSUME cfg \in Configs, NEW t
  PROVE  GroupSecurity(t) \in Settings
<1>1. GlobHits(cfg.overrides, t[2], LookedUpClass(Claims[t])) \subseteq DOMAIN cfg.overrides
  BY DEF GlobHits
<1> QED
  BY <1>1, FirstOfSettings DEF GroupSecurity, GroupEffective

(* A group agent was created from the settings other; it is kept for a      *)
(* group whose settings b have the same hash, and serves a PVC whose        *)
(* settings a have the same key: its context is that of settings like a.    *)
LEMMA KeyAndHashDetermineContext ==
  ASSUME NEW g \in Seq(Nat), NEW a \in Settings, NEW b \in Settings, ProfileKey(a) = ProfileKey(b),
         NEW h, NEW other \in Settings, SpecHash(g, b) = SpecHash(h, other)
  PROVE  \E s \in Alike(a) : SameContext(GroupPod(h, other), GroupPod(g, s))
<1> DEFINE s == WithIds(a, other)
           gs == MergeSupplemental(g, a.supplementalGroups)
           ho == MergeSupplemental(h, other.supplementalGroups)
<1>1. /\ SameIds(a, other)
      /\ a.readOnly = other.readOnly
      /\ ToBag(a.supplementalGroups) = ToBag(b.supplementalGroups)
      /\ ho = MergeSupplemental(g, b.supplementalGroups)
  BY DEF ProfileKey, SpecHash, SameIds
<1>2. /\ s \in Alike(a)
      /\ s.runAsUser = other.runAsUser /\ s.runAsGroup = other.runAsGroup
      /\ s.fsGroup = other.fsGroup /\ s.readOnly = other.readOnly
      /\ s.supplementalGroups = a.supplementalGroups
  BY <1>1, WithIdsAlike
<1> HIDE DEF s
<1>3. gs \in Seq(Nat) /\ ho \in Seq(Nat) /\ ToSet(gs) = ToSet(ho)
  <2>1. /\ a.supplementalGroups \in Seq(Nat) /\ b.supplementalGroups \in Seq(Nat)
        /\ ToSet(a.supplementalGroups) = ToSet(b.supplementalGroups)
    BY <1>1, SameBagSameSet DEF Settings
  <2>2. gs \in Seq(Nat) /\ ToSet(gs) = ToSet(g) \cup ToSet(a.supplementalGroups)
    BY <2>1, MergeSupplementalSet
  <2>3. ho \in Seq(Nat) /\ ToSet(ho) = ToSet(g) \cup ToSet(b.supplementalGroups)
    BY <1>1, <2>1, MergeSupplementalSet
  <2> QED
    BY <2>1, <2>2, <2>3, Zenon
<1>4. ToSet(GroupPod(h, other).supplementalGroups) = ToSet(GroupPod(g, s).supplementalGroups)
  <2>1. CASE other.fsGroup = Nil
    BY <1>2, <1>3, <2>1 DEF GroupPod
  <2>2. CASE other.fsGroup # Nil
    <3> DEFINE own == <<other.fsGroup>>
    <3>1. other.fsGroup \in Nat
      BY <2>2 DEF Settings
    <3>2. own \in Seq(Nat)
      BY <3>1
    <3>3. /\ GroupPod(h, other).supplementalGroups = MergeSupplemental(ho, own)
          /\ GroupPod(g, s).supplementalGroups = MergeSupplemental(gs, own)
      BY <1>2, <2>2 DEF GroupPod
    <3> HIDE DEF gs, ho, own
    <3>4. ToSet(MergeSupplemental(gs, own)) = ToSet(gs) \cup ToSet(own)
      BY <1>3, <3>2, MergeSupplementalSet
    <3>5. ToSet(MergeSupplemental(ho, own)) = ToSet(ho) \cup ToSet(own)
      BY <1>3, <3>2, MergeSupplementalSet
    <3> QED
      BY <1>3, <3>3, <3>4, <3>5, Zenon
  <2> QED
    BY <2>1, <2>2
<1>5. [GroupPod(h, other) EXCEPT !.supplementalGroups = <<>>]
        = [GroupPod(g, s) EXCEPT !.supplementalGroups = <<>>]
  BY <1>2 DEF GroupPod
<1> QED
  BY <1>2, <1>4, <1>5 DEF SameContext

(* The settings of a group are those of one of its PVCs.                   *)
LEMMA GroupSettingsOfKey ==
  ASSUME NEW key \in GroupKeys
  PROVE  \E t \in Targets : GroupSettings(key) = GroupSecurity(t) /\ ProfileKey(GroupSecurity(t)) = key
<1> DEFINE S == {i \in DOMAIN Listed : Listed[i] \in GroupMembers(key)}
<1>1. PICK t \in Targets : ProfileKey(GroupSecurity(t)) = key
  BY DEF GroupKeys
<1>2. t \in DOMAIN Claims
  BY DEF Targets, BuildTargets
<1>3. S # {} /\ S \subseteq Nat
  BY <1>1, <1>2, ListedAssumption DEF GroupMembers
<1>4. Min(S) \in S
  BY <1>3, MinOfNaturals
<1> QED
  BY <1>4 DEF GroupSettings, GroupMembers

(* Whatever group agent is there, it was created from settings that some    *)
(* configuration gave, and its hash and context are theirs.                *)
ContextsInv ==
  \A key \in DOMAIN groups :
    \E g, sec : /\ sec \in Settings
                /\ groups[key].hash[2] = SpecHash(g, sec)
                /\ groups[key].pod.context = GroupPod(g, sec)

LEMMA ContextsInvInvariant == Spec => []ContextsInv
<1>1. Init => ContextsInv
  BY DEF Init, ContextsInv
<1>2. AgentsInv /\ ContextsInv /\ [Next]_vars => ContextsInv'
  <2> SUFFICES ASSUME AgentsInv, ContextsInv, [Next]_vars
               PROVE  ContextsInv'
    OBVIOUS
  <2>1. CASE UNCHANGED groups
    BY <2>1 DEF ContextsInv
  <2>2. CASE PerNamespacePass
    <3> SUFFICES ASSUME NEW key \in DOMAIN groups'
                 PROVE  \E g, sec : /\ sec \in Settings
                                    /\ groups'[key].hash[2] = SpecHash(g, sec)
                                    /\ groups'[key].pod.context = GroupPod(g, sec)
      BY DEF ContextsInv
    <3>1. /\ key \in GroupKeys
          /\ \/ groups'[key] = [hash |-> GroupHash(key), pod |-> GroupPodWithMounts(key)]
             \/ key \in DOMAIN groups /\ groups'[key] = groups[key]
      BY <2>2 DEF PerNamespacePass, GroupKeys, GroupHash, Ensured
    <3>2. GroupSettings(key) \in Settings
      BY <3>1, GroupSettingsOfKey, GroupSecuritySettings DEF AgentsInv
    <3>3. CASE groups'[key] = [hash |-> GroupHash(key), pod |-> GroupPodWithMounts(key)]
      <4>1. /\ groups'[key].hash[2] = SpecHash(DefaultGroups, GroupSettings(key))
            /\ groups'[key].pod.context = GroupPod(DefaultGroups, GroupSettings(key))
        BY <3>3 DEF GroupHash, GroupSpecHash, GroupPodWithMounts
      <4> QED
        BY <3>2, <4>1
    <3>4. CASE key \in DOMAIN groups /\ groups'[key] = groups[key]
      BY <3>4 DEF ContextsInv
    <3> QED
      BY <3>1, <3>3, <3>4
  <2> QED
    BY <2>1, <2>2 DEF Next, Reload, PerPvcPass, vars
<1> QED
  BY <1>1, <1>2, AgentsInvInvariant, PTL DEF Spec

(* Routing and grouping are two pieces of code that agree: the group the    *)
(* proxy asks for exists and mounts the PVC.                               *)
RoutedGroupMounts ==
  settled /\ cfg.mode = "agent-per-namespace" =>
    \A t \in Targets : RoutedKey(t) \in DOMAIN groups /\ t \in groups[RoutedKey(t)].pod.mounts

THEOREM RoutedGroupMountsTheorem == Spec => []RoutedGroupMounts
<1>1. GroupsInv => RoutedGroupMounts
  <2> SUFFICES ASSUME GroupsInv, settled, cfg.mode = "agent-per-namespace", NEW t \in Targets
               PROVE  RoutedKey(t) \in DOMAIN groups /\ t \in groups[RoutedKey(t)].pod.mounts
    BY DEF RoutedGroupMounts
  <2>1. RoutedKey(t) = ProfileKey(GroupSecurity(t))
    BY DEF RoutedKey, RoutedSecurity, GroupSecurity, BuildSecuritySpec, GroupEffective
  <2>2. RoutedKey(t) \in GroupKeys /\ t \in GroupMembers(RoutedKey(t))
    BY <2>1 DEF GroupKeys, GroupMembers
  <2>3. QED
    BY <2>2 DEF GroupsInv, GroupHash, GroupSpecHash
<1>2. QED
  BY <1>1, GroupsInvInvariant, PTL

(* The proxy comes to a group agent that exists, mounts the PVC and runs    *)
(* with the PVC's own settings, for all configurations: the group may have  *)
(* been created from another PVC's settings, under another configuration,   *)
(* and its hash and its key tell the two apart, but for an id that is       *)
(* absent in one and 0 in the other (computeRouting, main.go;               *)
(* EnsureNamespaceAgent, reconciler.go).                                   *)
THEOREM RoutedToOwnGroupTheorem == Spec => []RoutedToOwnGroup
<1>1. AgentsInv /\ GroupsInv /\ ContextsInv /\ RoutedGroupMounts => RoutedToOwnGroup
  <2> SUFFICES ASSUME AgentsInv, GroupsInv, ContextsInv, settled, cfg.mode = "agent-per-namespace",
                      NEW t \in Targets, RoutedKey(t) \in DOMAIN groups
               PROVE  \E s \in Alike(RoutedSecurity(t)) :
                        SameContext(groups[RoutedKey(t)].pod.context, GroupPod(DefaultGroups, s))
    BY DEF RoutedToOwnGroup, RoutedGroupMounts
  <2> DEFINE key == RoutedKey(t)
             settings == GroupSettings(key)
             own == RoutedSecurity(t)
             list == DefaultGroups
  <2>1. cfg \in Configs /\ own = GroupSecurity(t) /\ key = ProfileKey(own)
    BY DEF AgentsInv, RoutedKey, RoutedSecurity, GroupSecurity, BuildSecuritySpec, GroupEffective
  <2>2. key \in GroupKeys /\ groups[key].hash = GroupHash(key)
    BY <2>1 DEF GroupsInv, GroupKeys
  <2>3. settings \in Settings /\ own \in Settings /\ ProfileKey(own) = ProfileKey(settings)
    <3> HIDE DEF key
    <3>1. PICK first \in Targets : settings = GroupSecurity(first) /\ ProfileKey(GroupSecurity(first)) = key
      BY <2>2, GroupSettingsOfKey
    <3> HIDE DEF settings, own
    <3> QED
      BY <2>1, <3>1, GroupSecuritySettings
  <2>4. list \in Seq(Nat)
    BY <2>1, ConfigsAssumption DEF DefaultGroups, Settings
  <2>5. PICK h, other : /\ other \in Settings
                        /\ groups[key].hash[2] = SpecHash(h, other)
                        /\ groups[key].pod.context = GroupPod(h, other)
    BY DEF ContextsInv
  <2>6. groups[key].hash[2] = SpecHash(list, settings)
    BY <2>2 DEF GroupHash, GroupSpecHash
  <2> HIDE DEF key, settings, own, list
  <2>7. \E s \in Alike(own) : SameContext(GroupPod(h, other), GroupPod(list, s))
    BY <2>3, <2>4, <2>5, <2>6, KeyAndHashDetermineContext
  <2> QED
    BY <2>5, <2>7 DEF key, own, list
<1> QED
  BY <1>1, AgentsInvInvariant, GroupsInvInvariant, ContextsInvInvariant, RoutedGroupMountsTheorem, PTL

----------------------------------------------------------------------------
(* The documented reading of the overrides.                                *)

LEMMA LeastIsMin ==
  ASSUME NEW S \in SUBSET Nat, NEW m \in S, \A i \in S : m <= i
  PROVE  Min(S) = m
<1> DEFINE n == Min(S)
<1>1. n \in S /\ n <= m
  BY MinOfNaturals
<1> HIDE DEF n
<1>2. n \in Nat /\ m \in Nat /\ m <= n
  BY <1>1
<1> QED
  BY <1>1, <1>2 DEF n

(* Where names come first, the first entry that applies is the documented.  *)
LEMMA FirstIsDocumented ==
  ASSUME cfg \in Configs, NEW t, NamesComeFirst(t)
  PROVE  FirstOf(cfg.defaults, cfg.overrides, OfName(t) \cup OfClass(t)) = Documented(t)
<1>1. CASE OfName(t) = {}
  BY <1>1 DEF Documented
<1>2. CASE OfName(t) # {}
  <2> DEFINE m == Min(OfName(t))
  <2>1. OfName(t) \subseteq Nat /\ OfClass(t) \subseteq Nat
    BY ConfigsAssumption DEF OfName, OfClass
  <2>2. m \in OfName(t) /\ \A i \in OfName(t) : m <= i
    BY <1>2, <2>1, MinOfNaturals
  <2>3. \A i \in OfClass(t) : m < i
    BY <1>2 DEF NamesComeFirst
  <2> HIDE DEF m
  <2>4. \A i \in OfName(t) \cup OfClass(t) : m <= i
    BY <2>1, <2>2, <2>3
  <2>5. Min(OfName(t) \cup OfClass(t)) = m
    BY <2>1, <2>2, <2>4, LeastIsMin
  <2> QED
    BY <1>2, <2>5 DEF Documented, FirstOf, m
<1> QED
  BY <1>1, <1>2

(* In both modes an agent runs with the settings the documentation gives    *)
(* its PVC, for all configurations and claims outside the three cases that  *)
(* RunsDocumentedSettings names.                                           *)
THEOREM RunsDocumentedSettingsTheorem == Spec => []RunsDocumentedSettings
<1>1. ASSUME cfg \in Configs, NEW t, NamesComeFirst(t), ClassesAreLiteral(t)
      PROVE  PvcSecurity(t) = Documented(t)
  <2>1. ExactHits(cfg.overrides, t[2], DiscoveredClass(Claims[t])) = OfName(t) \cup OfClass(t)
    BY <1>1 DEF ExactHits, OfName, OfClass, ClassesAreLiteral
  <2> QED
    BY <1>1, <2>1, FirstIsDocumented DEF PvcSecurity, ResolveSecurityForStorageClass
<1>2. ASSUME cfg \in Configs, NEW t, NamesComeFirst(t),
             LookedUpClass(Claims[t]) = DiscoveredClass(Claims[t])
      PROVE  RoutedSecurity(t) = Documented(t)
  <2>1. GlobHits(cfg.overrides, t[2], LookedUpClass(Claims[t])) = OfName(t) \cup OfClass(t)
    BY <1>2 DEF GlobHits, OfName, OfClass
  <2> QED
    BY <1>2, <2>1, FirstIsDocumented DEF RoutedSecurity, BuildSecuritySpec
<1>3. AgentsInv /\ EditReachesAgent /\ RoutedToOwnGroup => RunsDocumentedSettings
  BY <1>1, <1>2 DEF AgentsInv, EditReachesAgent, RoutedToOwnGroup, RunsDocumentedSettings
<1> QED
  BY <1>3, AgentsInvInvariant, EditReachesAgentTheorem, RoutedToOwnGroupTheorem, PTL

(* A read-only default is never lost, in either mode. *)
THEOREM ReadOnlyDefaultTheorem == Spec => []ReadOnlyDefaultHolds
<1>1. ASSUME NEW c \in Configs, c.defaults.readOnly, NEW hits
      PROVE  FirstOf(c.defaults, c.overrides, hits).readOnly = TRUE
  BY ConfigsAssumption, <1>1 DEF FirstOf, MergeSecurity, Settings
<1>2. ASSUME AgentsInv, GroupsInv, settled, cfg.defaults.readOnly, cfg.mode = "agent-per-pvc",
             NEW t \in Targets
      PROVE  agents[t].pod.readOnly
  <2>1. t \in DOMAIN Claims /\ cfg \in Configs
    BY <1>2 DEF Targets, BuildTargets, AgentsInv
  <2>2. agents[t] # NoPod /\ agents[t].hash = AgentOf(cfg, t).hash
    BY <1>2 DEF AgentsInv
  <2>3. PICK c \in Configs : agents[t] = AgentOf(c, t)
    BY <1>2, <2>1, <2>2 DEF AgentsInv
  <2>4. \A d, x : AgentOf(d, x).hash[4] = AgentOf(d, x).pod.readOnly
    BY DEF AgentOf, PvcSpecHash, SpecHash, PvcPod
  <2>5. AgentOf(cfg, t).pod.readOnly = TRUE
    BY <1>1, <1>2, <2>1 DEF AgentOf, PvcPod, Resolved, ResolveSecurityForStorageClass
  <2>6. QED
    BY <2>2, <2>3, <2>4, <2>5
<1>3. ASSUME AgentsInv, GroupsInv, settled, cfg.defaults.readOnly,
             cfg.mode = "agent-per-namespace", NEW key \in DOMAIN groups
      PROVE  groups[key].pod.context.readOnly
  <2>1. cfg \in Configs /\ groups[key].hash = GroupHash(key)
    BY <1>3 DEF AgentsInv, GroupsInv
  <2>2. GroupSettings(key).readOnly = TRUE
    BY <1>1, <1>3, <2>1 DEF GroupSettings, GroupSecurity, GroupEffective
  <2>3. GroupHash(key)[2][4] = TRUE
    BY <2>2 DEF GroupHash, GroupSpecHash, SpecHash
  <2>4. QED
    BY <1>3, <2>1, <2>3 DEF GroupsInv
<1>4. AgentsInv /\ GroupsInv => ReadOnlyDefaultHolds
  BY <1>2, <1>3 DEF ReadOnlyDefaultHolds
<1>5. QED
  BY <1>4, AgentsInvInvariant, GroupsInvInvariant, PTL
=============================================================================
