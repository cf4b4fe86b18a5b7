---------------------------- MODULE MCController ----------------------------
(***************************************************************************)
(* The controller on one namespace and two or three claims.  The loads are   *)
(* real configurations: hashes, profile keys and watched targets are those  *)
(* of SecurityProfile and Discovery.  Scenario picks the sequence of loads. *)
(***************************************************************************)
EXTENDS ControllerProperties

CONSTANTS Scenario, MCNil, p1, p2, n

MCGlobMatch(p, s) == p = s \/ p = "*"
D == INSTANCE Discovery WITH Nil <- MCNil, DefaultId <- 65532, GlobMatch <- MCGlobMatch

MCBudget(fault, failure, claim, load, gc, restart) ==
  [fault |-> fault, podFailure |-> failure, claim |-> claim, load |-> load, gc |-> gc,
   restart |-> restart]

(* ctl_pvc: every fault, GC and restart against two overlapping passes, a   *)
(* fault against three, two GC requests against one.                       *)
PvcBudgets ==
  {MCBudget(1, 0, 0, 1, 1, 0), MCBudget(0, 0, 0, 1, 0, 1), MCBudget(1, 0, 0, 2, 0, 0),
   MCBudget(0, 1, 2, 1, 0, 0), MCBudget(0, 0, 0, 0, 2, 0)}

(* heal_pvc: the second load changes the default groups; two GC requests    *)
(* overlap each other and the passes.                                      *)
PvcHealBudgets ==
  {MCBudget(0, 0, 0, 1, 0, 0), MCBudget(1, 0, 0, 0, 1, 0), MCBudget(0, 0, 0, 0, 2, 0),
   MCBudget(1, 0, 1, 0, 0, 0), MCBudget(0, 0, 0, 0, 0, 1)}
NsHealBudgets == {MCBudget(1, 0, 0, 0, 0, 0), MCBudget(0, 0, 1, 0, 0, 0)}
GcBudgets == {MCBudget(0, 0, 0, 0, 1, 0)}
FailureBudgets == {MCBudget(0, 1, 0, 0, 0, 0)}
LoadBudgets == {MCBudget(0, 0, 0, 1, 0, 0)}
RevertBudgets == {MCBudget(0, 0, 0, 2, 0, 0)}

Sec(user, groups, ro) ==
  [runAsUser |-> user, runAsGroup |-> MCNil, fsGroup |-> MCNil, supplementalGroups |-> groups,
   readOnly |-> ro]

(* p1 has settings of its own, which default groups <<1>> add nothing to;   *)
(* those of p2 follow the defaults and its class.                          *)
Pinned == [match |-> "", pvcMatch |-> "p1", sec |-> Sec(5, <<1>>, TRUE)]
OnClass(user) == [match |-> "nfs", pvcMatch |-> "", sec |-> Sec(user, <<>>, FALSE)]

Name(p) == IF p = p1 THEN "p1" ELSE "p2"
ClaimOf(t) ==
  [className |-> IF t[2] = p1 THEN "cephfs" ELSE MCNil, bound |-> TRUE,
   volumeClass |-> IF t[2] = p1 THEN "cephfs" ELSE "nfs", rwx |-> TRUE]

Load(mode, pvcs, user, groups, ovr) ==
  [mode |-> mode, defaults |-> Sec(user, groups, FALSE), overrides |-> ovr,
   watch |-> [namespaces |-> [include |-> {"*"}, exclude |-> {}],
              pvcs |-> [include |-> pvcs, exclude |-> {}],
              storageClasses |-> [include |-> {"*"}, exclude |-> {}]]]

OfGroups(groups) == Load("agent-per-pvc", {"*"}, 7, groups, <<>>)

Scenarios ==
  [edits   |-> <<Load("agent-per-pvc", {"*"}, 7, <<>>, <<Pinned>>),
                 Load("agent-per-pvc", {"*"}, 8, <<1>>, <<Pinned, OnClass(9)>>),
                 Load("agent-per-pvc", {"p1"}, 8, <<1>>, <<Pinned, OnClass(9)>>)>>,
   heal    |-> <<OfGroups(<<1>>),
                 Load("agent-per-pvc", {"*"}, 7, <<2>>, <<OnClass(9)>>)>>,
   revert  |-> <<OfGroups(<<1>>), OfGroups(<<2>>), OfGroups(<<1>>)>>,
   regroup |-> <<Load("agent-per-namespace", {"*"}, 5, <<>>, <<OnClass(9)>>)>>,
   back    |-> <<Load("agent-per-namespace", {"*"}, 7, <<>>, <<>>),
                 Load("agent-per-pvc", {"*"}, 7, <<>>, <<>>)>>]

Config(v) == Scenarios[Scenario][v]

MCMode(v) == Config(v).mode

(* Tables, so that TLC computes each value once. *)
WatchedTable ==
  [v \in Versions |->
     {t \in Target : D!Selected(Config(v).watch, "n", Name(t[2]), ClaimOf(t))}]
MCWatched(v) == WatchedTable[v]

Groups(v) == Config(v).defaults.supplementalGroups

Settings(d, o, t) ==
  D!ResolveSecurityForStorageClass(Config(d).defaults, Config(o).overrides,
                                   Name(t[2]), D!DiscoveredClass(ClaimOf(t)))

PvcHashTable ==
  [d \in Versions, o \in Versions, e \in Versions, t \in Target |->
     D!PvcSpecHash(Groups(e), Settings(d, o, t))]
MCPvcHash(d, o, e, t) == PvcHashTable[d, o, e, t]

PvcRunsTable ==
  [d \in Versions, o \in Versions, f \in Versions, t \in Target |->
     D!PvcPod(Groups(f), Settings(d, o, t))]
MCPvcRuns(d, o, f, t) == PvcRunsTable[d, o, f, t]

ProfileTable ==
  [d \in Versions, o \in Versions, t \in Target, known \in BOOLEAN |->
     D!ProfileKey(D!GroupEffective(Config(d).defaults, Config(o).overrides, Name(t[2]),
                                   IF known THEN D!LookedUpClass(ClaimOf(t)) ELSE ""))]
(* In these loads the user id tells the profiles apart and stands for the  *)
(* key; the cfg lists the ids as Keys.                                     *)
MCProfile(d, o, t, known) == ProfileTable[d, o, t, known][1]

(* The settings that a group's hash and Pod are made of: in regroup and     *)
(* back nothing but the user differs.                                      *)
OfKey(key) == Sec(key, <<>>, FALSE)
MCGroupHash(S, key, e) == D!GroupSpecHash(S, Groups(e), OfKey(key))
MCGroupRuns(S, key, f) == [mounts |-> S, pod |-> D!GroupPod(Groups(f), OfKey(key))]

MCMountedBy(a, r) ==
  IF r = NoHash THEN {} ELSE IF a[1] = "pvc" THEN {<<a[2], a[3]>>} ELSE r.mounts

MCByVolume == {t \in Target : ClaimOf(t).className = MCNil}
AllClaims == Target
PinnedClaim == {<<n, p1>>}
NoAgents == {}
OldAgents == {AgentName(<<n, p2>>), NamespaceAgentGroupName(n, 7)}
=============================================================================
