---------------------------- MODULE PerNamespace ----------------------------
(***************************************************************************)
(* The pass of mode agent-per-namespace after GCPerPVCAll: one call of      *)
(* EnsureNamespaceAgent per namespace with targets, then GCNamespaceAgents. *)
(* Nothing in it looks at r.Disabled.                                      *)
(***************************************************************************)
EXTENDS Reconciler

(* The loop over nsToPvcs, which ends in GCNamespaceAgents.  For each       *)
(* namespace the legacy single agent is deleted first, without a listing.   *)
NextNamespace(w) ==
  /\ At(w, "namespace")
  /\ IF wk[w].namespaces = {} THEN Become(w, [wk[w] EXCEPT !.pc = "gcNamespaces"])
     ELSE \E ns \in wk[w].namespaces :
            Become(w, SweepThen(w, [wk[w] EXCEPT !.namespaces = @ \ {ns}, !.ns = ns],
                                {NamespaceAgentName(ns)}, "lookup"))
  /\ UNCHANGED <<apiVars, procVars>>

(* Mutant: a group's agent mounts the PVCs of all groups. *)
MutGroupPvcs(groups, key) == {g[1] : g \in groups}

Members(local) == {t \in local.targets : t[1] = local.ns}
GroupKeys(groups) == {g[2] : g \in groups}
GroupPvcs(groups, key) == {g[1] : g \in {h \in groups : h[2] = key}}

(* Get the claim (and its volume) for the class, then eff := r.Defaults.    *)
(* A claim that is gone and a call that fails leave the class empty: ret    *)
(* remembers which it was.                                                 *)
LookUpClass(w) ==
  /\ At(w, "lookup")
  /\ LET t == First(Members(wk[w]) \ {g[1] : g \in wk[w].groups})
         found(outcome) == Become(w, [wk[w] EXCEPT !.pc = "classify", !.cur = t,
                                                      !.def = defaults, !.ret = outcome])
       IN  \/ Answers /\ found(IF t \in claims THEN "known" ELSE "unknown")
           \/ Fails /\ found("unknown")
  /\ UNCHANGED procVars

(* range r.Overrides; the PVC joins the group of its profile key.  After    *)
(* the last PVC the groups are ensured.                                    *)
Classify(w) ==
  /\ At(w, "classify")
  /\ LET t == wk[w].cur
         key == Profile(wk[w].def, overrides, t, wk[w].ret = "known")
         groups == wk[w].groups \cup {<<t, key>>}
         joined == [wk[w] EXCEPT !.groups = groups, !.cur = None, !.def = 0, !.ret = "idle"]
     IN  Become(w, IF {g[1] : g \in groups} = Members(wk[w])
                     THEN [joined EXCEPT !.pc = "group", !.todo = GroupKeys(groups)]
                     ELSE [joined EXCEPT !.pc = "lookup"])
  /\ UNCHANGED <<apiVars, procVars>>

NextGroup(local) ==
  [local EXCEPT !.pc = IF local.todo = {} THEN "listGroups" ELSE "group",
                !.cur = None, !.want = NoHash]

(* The hash of the group, which reads r.Defaults; then Services.Get and,    *)
(* when that returns an error, Services.Create.                            *)
EnsureGroupService(w) ==
  /\ At(w, "group")
  /\ \E key \in wk[w].todo :
       /\ CreateService(NamespaceAgentGroupName(wk[w].ns, key)) \/ Fails
       /\ Become(w, [wk[w] EXCEPT !.pc = "getGroup", !.cur = key, !.todo = @ \ {key},
                       !.want = GroupHash(GroupPvcs(wk[w].groups, key), key, defaults)])
  /\ UNCHANGED procVars

GroupAgent(w) == NamespaceAgentGroupName(wk[w].ns, wk[w].cur)

GetGroupAgent(w) ==
  /\ At(w, "getGroup")
  /\ \/ /\ Answers
        /\ Become(w, IF ~ Exists(GroupAgent(w)) THEN [wk[w] EXCEPT !.pc = "createGroup"]
                     ELSE IF pods[GroupAgent(w)].spec.hash = wk[w].want THEN NextGroup(wk[w])
                     ELSE [wk[w] EXCEPT !.pc = "deleteGroup"])
     \/ /\ Fails
        /\ Become(w, [wk[w] EXCEPT !.pc = "createGroup"])
  /\ UNCHANGED procVars

DeleteGroupAgent(w) ==
  /\ At(w, "deleteGroup")
  /\ DeletePod(GroupAgent(w)) \/ Fails
  /\ Become(w, [wk[w] EXCEPT !.pc = "createGroup"])
  /\ UNCHANGED procVars

(* The Pod's groups read r.Defaults again; then Pods.Create. *)
CreateGroupAgent(w) ==
  /\ At(w, "createGroup")
  /\ LET mounted == GroupPvcs(wk[w].groups, wk[w].cur)
     IN  \/ CreatePod(GroupAgent(w), [hash |-> wk[w].want,
                                      runs |-> GroupRuns(mounted, wk[w].cur, defaults)])
         \/ Fails
  /\ Become(w, NextGroup(wk[w]))
  /\ UNCHANGED procVars

(* Mutant: the group agents that are listed are never compared. *)
MutListGroupAgents(w) ==
  /\ At(w, "listGroups")
  /\ LET local == [wk[w] EXCEPT !.ns = None, !.groups = {}]
     IN  (Answers \/ Fails) /\ Become(w, Resume(w, local, "namespace"))
  /\ UNCHANGED procVars

(* List the namespace's group agents and sweep those of no group.  The      *)
(* error of this List is dropped and leaves an empty list.                 *)
ListGroupAgents(w) ==
  /\ At(w, "listGroups")
  /\ LET local == [wk[w] EXCEPT !.ns = None, !.groups = {}]
         stale == {a \in GroupAgents :
                     Exists(a) /\ a[2] = wk[w].ns /\ a[3] \notin GroupKeys(wk[w].groups)}
     IN  \/ Answers /\ Become(w, SweepThen(w, local, stale, "namespace"))
         \/ Fails /\ Become(w, Resume(w, local, "namespace"))
  /\ UNCHANGED procVars

PerNamespaceStep(w) ==
  \/ NextNamespace(w) \/ LookUpClass(w) \/ Classify(w) \/ EnsureGroupService(w)
  \/ GetGroupAgent(w) \/ DeleteGroupAgent(w) \/ CreateGroupAgent(w) \/ ListGroupAgents(w)
=============================================================================
