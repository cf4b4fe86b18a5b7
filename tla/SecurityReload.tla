--------------------------- MODULE SecurityReload ---------------------------
(***************************************************************************)
(* Reloading the security section of the configuration, one undisturbed    *)
(* pass at a time: does the hash stored on an agent Pod tell the next pass  *)
(* that the Pod has to be replaced, and does routing compute the key of the *)
(* group agent that really mounts the PVC?  One namespace; passes are       *)
(* atomic here, Controller.tla interleaves their steps.                    *)
(***************************************************************************)
EXTENDS Discovery

CONSTANTS
  Configs,      \* loads: [mode, watch, defaults, overrides]
  Claims,       \* [<<ns, pvc>> -> claim]
  Listed        \* the claims in the order the API server lists them

ASSUME NilAssumption == Nil \notin Nat
(* config.SecuritySpec. *)
Settings ==
  [runAsUser : Nat \cup {Nil}, runAsGroup : Nat \cup {Nil}, fsGroup : Nat \cup {Nil},
   supplementalGroups : Seq(Nat), readOnly : BOOLEAN]

ASSUME ConfigsAssumption ==
  \A c \in Configs :
    /\ c.defaults \in Settings
    /\ DOMAIN c.overrides \subseteq Nat
    /\ \A i \in DOMAIN c.overrides : c.overrides[i].sec \in Settings
ASSUME ListedAssumption ==
  DOMAIN Listed \subseteq Nat /\ DOMAIN Claims = {Listed[i] : i \in DOMAIN Listed}

(* No hash, no Pod. *)
NoPod == [hash |-> << >>, pod |-> Nil]

VARIABLES
  cfg,          \* the configuration in force
  agents,       \* per-PVC agents: NoPod or [hash, pod]
  groups,       \* group agents: a function from profile keys to [hash, pod]
  settled       \* a pass has run to its end since cfg was loaded

vars == <<cfg, agents, groups, settled>>

Targets == BuildTargets(cfg.watch, Claims)
DefaultGroups == cfg.defaults.supplementalGroups

PvcSecurity(t) ==
  ResolveSecurityForStorageClass(cfg.defaults, cfg.overrides, t[2],
                                 DiscoveredClass(Claims[t]))
GroupSecurity(t) ==
  GroupEffective(cfg.defaults, cfg.overrides, t[2], LookedUpClass(Claims[t]))

(* computeRouting: the settings and the group the proxy will ask for. *)
RoutedSecurity(t) ==
  BuildSecuritySpec(cfg.defaults, cfg.overrides, t[2], LookedUpClass(Claims[t]))
RoutedKey(t) == ProfileKey(RoutedSecurity(t))

Init ==
  /\ cfg \in Configs
  /\ agents = [t \in DOMAIN Claims |-> NoPod]
  /\ groups = << >>
  /\ settled = FALSE

Reload ==
  /\ \E c \in Configs \ {cfg} : cfg' = c
  /\ settled' = FALSE
  /\ UNCHANGED <<agents, groups>>

----------------------------------------------------------------------------

(* A Pod whose stored hash is the wanted one stays as it is. *)
Ensured(old, hash, pod) ==
  IF old # NoPod /\ old.hash = hash THEN old ELSE [hash |-> hash, pod |-> pod]

(* Mutant: agents of PVCs that are no longer watched are forgotten. *)
MutPerPvcPass ==
  /\ cfg.mode = "agent-per-pvc"
  /\ agents' = [t \in Targets |->
       Ensured(agents[t], PvcSpecHash(DefaultGroups, PvcSecurity(t)),
               PvcPod(DefaultGroups, PvcSecurity(t)))]
  /\ settled' = TRUE
  /\ UNCHANGED <<cfg, groups>>

(* Reconcile: ensure every target, delete the agents of the others. *)
PerPvcPass ==
  /\ cfg.mode = "agent-per-pvc"
  /\ agents' = [t \in DOMAIN Claims |->
       IF t \notin Targets THEN NoPod
       ELSE Ensured(agents[t], PvcSpecHash(DefaultGroups, PvcSecurity(t)),
                    PvcPod(DefaultGroups, PvcSecurity(t)))]
  /\ settled' = TRUE
  /\ UNCHANGED <<cfg, groups>>

(* Mutant: every group agent mounts all PVCs of the namespace. *)
MutGroupMembers(key) == Targets

(* The settings of a group are those of its first PVC in the listing. *)
GroupMembers(key) == {t \in Targets : ProfileKey(GroupSecurity(t)) = key}
GroupSettings(key) ==
  LET first == Min({i \in DOMAIN Listed : Listed[i] \in GroupMembers(key)})
  IN  GroupSecurity(Listed[first])

GroupPodWithMounts(key) ==
  [mounts |-> GroupMembers(key), context |-> GroupPod(DefaultGroups, GroupSettings(key))]

(* reconcilePerNamespace: delete all per-PVC agents, ensure the groups,    *)
(* delete the group agents that no profile asks for any more.              *)
PerNamespacePass ==
  /\ cfg.mode = "agent-per-namespace"
  /\ agents' = [t \in DOMAIN Claims |-> NoPod]
  /\ groups' = [key \in {ProfileKey(GroupSecurity(t)) : t \in Targets} |->
       Ensured(IF key \in DOMAIN groups THEN groups[key] ELSE NoPod,
               GroupSpecHash(GroupMembers(key), DefaultGroups, GroupSettings(key)),
               GroupPodWithMounts(key))]
  /\ settled' = TRUE
  /\ UNCHANGED cfg

Next == Reload \/ PerPvcPass \/ PerNamespacePass

Spec == Init /\ [][Next]_vars

----------------------------------------------------------------------------
(* Properties.                                                             *)

(* The shape of the state: agents belong to existing claims, group agents  *)
(* mount existing claims.                                                  *)
TypeOK ==
  /\ cfg \in Configs
  /\ settled \in BOOLEAN
  /\ DOMAIN agents = DOMAIN Claims
  /\ \A key \in DOMAIN groups : groups[key].pod.mounts \subseteq DOMAIN Claims

(* Settings that no hash and no profile key tells from sec: an absent id    *)
(* and the id 0 are both digested as 0.                                     *)
Same(id) == IF OrZero(id) = 0 THEN {Nil, 0} ELSE {id}
Alike(sec) ==
  [runAsUser : Same(sec.runAsUser), runAsGroup : Same(sec.runAsGroup), fsGroup : Same(sec.fsGroup),
   supplementalGroups : {sec.supplementalGroups}, readOnly : {sec.readOnly}]

(* After a pass every watched PVC has an agent whose context is that of     *)
(* the configuration in force, whatever was edited before, but for one edit *)
(* that gets past the hash: an id that goes from absent to 0 or back        *)
(* (reconciler.go:115; "Compute desired spec hash to detect changes").      *)
EditReachesAgent ==
  settled /\ cfg.mode = "agent-per-pvc" =>
    \A t \in Targets :
      /\ agents[t] # NoPod
      /\ \E s \in Alike(PvcSecurity(t)) : agents[t].pod = PvcPod(DefaultGroups, s)

SameContext(a, b) ==
  /\ [a EXCEPT !.supplementalGroups = <<>>] = [b EXCEPT !.supplementalGroups = <<>>]
  /\ ToSet(a.supplementalGroups) = ToSet(b.supplementalGroups)

(* After a per-namespace pass the group that computeRouting derives for a  *)
(* PVC exists, mounts that PVC, and has the PVC's own settings: the group   *)
(* may have been created from another member or an earlier configuration,   *)
(* from which only the order of the groups and an absent id or 0 remain.    *)
RoutedToOwnGroup ==
  settled /\ cfg.mode = "agent-per-namespace" =>
    \A t \in Targets :
      /\ RoutedKey(t) \in DOMAIN groups
      /\ t \in groups[RoutedKey(t)].pod.mounts
      /\ \E s \in Alike(RoutedSecurity(t)) :
           SameContext(groups[RoutedKey(t)].pod.context, GroupPod(DefaultGroups, s))

(* After a per-namespace pass no PVC is mounted by two group agents, and   *)
(* none by an agent of its own besides.                                    *)
MountedOnce ==
  settled /\ cfg.mode = "agent-per-namespace" =>
    \A t \in DOMAIN Claims :
      /\ Cardinality({key \in DOMAIN groups : t \in groups[key].pod.mounts}) <= 1
      /\ agents[t] = NoPod

(* The documentation's reading of the overrides: an entry for the PVC's     *)
(* name takes precedence over those for its class, whose match is a glob.   *)
OfName(t) ==
  {i \in DOMAIN cfg.overrides :
     cfg.overrides[i].pvcMatch # Empty /\ GlobMatch(cfg.overrides[i].pvcMatch, t[2])}
OfClass(t) ==
  {i \in DOMAIN cfg.overrides :
     /\ cfg.overrides[i].pvcMatch = Empty
     /\ GlobMatch(cfg.overrides[i].match, DiscoveredClass(Claims[t]))}
Documented(t) ==
  FirstOf(cfg.defaults, cfg.overrides, IF OfName(t) # {} THEN OfName(t) ELSE OfClass(t))

(* Where the code goes its own way: the first entry wins, be it for the     *)
(* class, and agent-per-pvc takes the pattern of a class literally.         *)
NamesComeFirst(t) == OfName(t) # {} => \A i \in OfClass(t) : Min(OfName(t)) < i
ClassesAreLiteral(t) ==
  \A i \in DOMAIN cfg.overrides : cfg.overrides[i].pvcMatch = Empty =>
    (GlobMatch(cfg.overrides[i].match, DiscoveredClass(Claims[t]))
       <=> cfg.overrides[i].match = DiscoveredClass(Claims[t]))

(* Every agent runs with the settings that README.md:97-102 and config.go:30 *)
(* give its PVC, in both modes and from three resolvers, unless an entry    *)
(* for its class stands before the one for its name or, in agent-per-pvc,   *)
(* a class is matched by a pattern other than its own name; a claim whose   *)
(* class is the empty string is grouped by no class.                       *)
RunsDocumentedSettings ==
  settled =>
    \A t \in Targets : NamesComeFirst(t) =>
      /\ cfg.mode = "agent-per-pvc" /\ ClassesAreLiteral(t) =>
           \E s \in Alike(Documented(t)) : agents[t].pod = PvcPod(DefaultGroups, s)
      /\ cfg.mode = "agent-per-namespace" /\ LookedUpClass(Claims[t]) = DiscoveredClass(Claims[t]) =>
           \E key \in DOMAIN groups, s \in Alike(Documented(t)) :
             /\ t \in groups[key].pod.mounts
             /\ SameContext(groups[key].pod.context, GroupPod(DefaultGroups, s))

(* Volumes declared read-only are only ever served read-only once the      *)
(* configuration has settled: neither mode loses the defaults' flag.       *)
ReadOnlyDefaultHolds ==
  settled /\ cfg.defaults.readOnly =>
    /\ cfg.mode = "agent-per-pvc" => \A t \in Targets : agents[t].pod.readOnly
    /\ cfg.mode = "agent-per-namespace" =>
         \A key \in DOMAIN groups : groups[key].pod.context.readOnly

(* The default id is written out in one of two requests and left out of    *)
(* the other: positions 1 and 2 of the hash are the user and the group.     *)
DefaultWrittenOut(old, new) == \E i \in 1 .. 2 : {old[i], new[i]} = {0, DefaultId}

(* An agent is replaced only if its context changes: an edit that leaves    *)
(* the settings of a PVC alone restarts nothing, but for two that the hash  *)
(* takes for a change.  One lists the supplemental groups in another order, *)
(* which reconciler.go:125 promises to sort and does not; the other writes  *)
(* the default id out or removes it.                                       *)
NoNeedlessRestart ==
  [][\A t \in DOMAIN Claims :
       agents[t] # NoPod /\ agents'[t] # NoPod /\ agents'[t] # agents[t] =>
         \/ ~SameContext(agents[t].pod, agents'[t].pod)
         \/ agents[t].pod.supplementalGroups # agents'[t].pod.supplementalGroups
         \/ DefaultWrittenOut(agents[t].hash, agents'[t].hash)]_vars
=============================================================================
