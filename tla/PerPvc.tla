------------------------------- MODULE PerPvc -------------------------------
(***************************************************************************)
(* Reconciler.Reconcile and ensureAgent: the pass of mode agent-per-pvc,    *)
(* from its list of targets to the deletion of agents nobody wants.        *)
(***************************************************************************)
EXTENDS Reconciler

(* Reconcile's first test of r.Disabled. *)
CheckDisabled(w) ==
  /\ At(w, "reconcile")
  /\ Become(w, IF disabled THEN Idle ELSE [wk[w] EXCEPT !.pc = "list"])
  /\ UNCHANGED <<apiVars, procVars>>

(* Mutant: the final sweep takes every agent that was listed. *)
MutNextTarget(w, local) ==
  LET fresh == [local EXCEPT !.cur = None, !.def = 0, !.ovr = 0, !.want = NoHash]
  IN  IF local.todo # {} THEN [fresh EXCEPT !.pc = "ensure"]
      ELSE SweepThen(w, [fresh EXCEPT !.targets = {}, !.seen = {}],
                     {AgentName(t) : t \in local.seen}, "ended")

(* The loop over the targets; after the last one, delete the agents that    *)
(* were listed and are not wanted.                                         *)
NextTarget(w, local) ==
  LET fresh == [local EXCEPT !.cur = None, !.def = 0, !.ovr = 0, !.want = NoHash]
  IN  IF local.todo # {} THEN [fresh EXCEPT !.pc = "ensure"]
      ELSE SweepThen(w, [fresh EXCEPT !.targets = {}, !.seen = {}],
                     {AgentName(t) : t \in local.seen \ local.targets}, "ended")

ListAgents(w) ==
  /\ At(w, "list")
  /\ \/ /\ Answers
        /\ LET seen == {t \in Target : Exists(AgentName(t))}
           IN  Become(w, NextTarget(w, [wk[w] EXCEPT !.seen = seen, !.todo = wk[w].targets]))
     \/ Fails /\ Become(w, Idle)
  /\ UNCHANGED procVars

(* ensureAgent's own test of r.Disabled, once per target. *)
EnsureAgent(w) ==
  /\ At(w, "ensure")
  /\ LET t == First(wk[w].todo)
     IN  Become(w, IF disabled THEN NextTarget(w, [wk[w] EXCEPT !.todo = @ \ {t}])
                   ELSE [wk[w] EXCEPT !.pc = "service", !.cur = t, !.todo = @ \ {t}])
  /\ UNCHANGED <<apiVars, procVars>>

(* Mutant: the Service is named by key(t), not by AgentName. *)
MutEnsureService(w) ==
  /\ At(w, "service")
  /\ CreateService(wk[w].cur) \/ Fails
  /\ Become(w, [wk[w] EXCEPT !.pc = "resolve", !.def = defaults])
  /\ UNCHANGED procVars

(* Services.Create, then out := r.Defaults in the resolver. *)
EnsureService(w) ==
  /\ At(w, "service")
  /\ CreateService(AgentName(wk[w].cur)) \/ Fails
  /\ Become(w, [wk[w] EXCEPT !.pc = "resolve", !.def = defaults])
  /\ UNCHANGED procVars

(* range r.Overrides in the resolver. *)
ResolveSecurity(w) ==
  /\ At(w, "resolve")
  /\ Become(w, [wk[w] EXCEPT !.pc = "get", !.ovr = overrides])
  /\ UNCHANGED <<apiVars, procVars>>

(* Mutants: the hash is that of the first target in every round of the      *)
(* loop; a Pod that exists is left alone whatever its hash.                *)
MutStaleTarget(w) ==
  /\ At(w, "get")
  /\ LET t == wk[w].cur
         hash == PvcHash(wk[w].def, wk[w].ovr, defaults, First(wk[w].targets))
         wanting == [wk[w] EXCEPT !.want = hash]
     IN  \/ /\ Answers
            /\ Become(w, IF ~ Exists(AgentName(t)) THEN [wanting EXCEPT !.pc = "create"]
                         ELSE IF pods[AgentName(t)].spec.hash = hash THEN NextTarget(w, wk[w])
                         ELSE [wanting EXCEPT !.pc = "delete"])
         \/ /\ Fails
            /\ Become(w, [wanting EXCEPT !.pc = "create"])
  /\ UNCHANGED procVars

MutHashIgnored(w) ==
  /\ At(w, "get")
  /\ LET t == wk[w].cur
         wanting == [wk[w] EXCEPT !.want = PvcHash(wk[w].def, wk[w].ovr, defaults, t)]
     IN  \/ /\ Answers
            /\ Become(w, IF ~ Exists(AgentName(t)) THEN [wanting EXCEPT !.pc = "create"]
                         ELSE NextTarget(w, wk[w]))
         \/ /\ Fails
            /\ Become(w, [wanting EXCEPT !.pc = "create"])
  /\ UNCHANGED procVars

(* Mutant: a failed Get is taken for an outdated Pod. *)
MutFailedGet(w) ==
  /\ At(w, "get")
  /\ LET t == wk[w].cur
         hash == PvcHash(wk[w].def, wk[w].ovr, defaults, t)
         wanting == [wk[w] EXCEPT !.want = hash]
     IN  \/ /\ Answers
            /\ Become(w, IF ~ Exists(AgentName(t)) THEN [wanting EXCEPT !.pc = "create"]
                         ELSE IF pods[AgentName(t)].spec.hash = hash THEN NextTarget(w, wk[w])
                         ELSE [wanting EXCEPT !.pc = "delete"])
         \/ /\ Fails
            /\ Become(w, [wanting EXCEPT !.pc = "delete"])
  /\ UNCHANGED procVars

(* The hash reads r.Defaults once more; then Pods.Get.  A Pod with the      *)
(* wanted hash is left alone whatever its phase; a failed Get is taken for  *)
(* a missing Pod.                                                          *)
GetAgent(w) ==
  /\ At(w, "get")
  /\ LET t == wk[w].cur
         hash == PvcHash(wk[w].def, wk[w].ovr, defaults, t)
         wanting == [wk[w] EXCEPT !.want = hash]
     IN  \/ /\ Answers
            /\ Become(w, IF ~ Exists(AgentName(t)) THEN [wanting EXCEPT !.pc = "create"]
                         ELSE IF pods[AgentName(t)].spec.hash = hash THEN NextTarget(w, wk[w])
                         ELSE [wanting EXCEPT !.pc = "delete"])
         \/ /\ Fails
            /\ Become(w, [wanting EXCEPT !.pc = "create"])
  /\ UNCHANGED procVars

DeleteAgent(w) ==
  /\ At(w, "delete")
  /\ DeletePod(AgentName(wk[w].cur)) \/ Fails
  /\ Become(w, [wk[w] EXCEPT !.pc = "create"])
  /\ UNCHANGED procVars

(* The Pod's groups read r.Defaults a third time; then Pods.Create.         *)
(* AlreadyExists and every other error are ignored.                        *)
CreateAgent(w) ==
  /\ At(w, "create")
  /\ \/ CreatePod(AgentName(wk[w].cur),
                   [hash |-> wk[w].want,
                    runs |-> PvcRuns(wk[w].def, wk[w].ovr, defaults, wk[w].cur)])
     \/ Fails
  /\ Become(w, NextTarget(w, wk[w]))
  /\ UNCHANGED procVars

PerPvcStep(w) ==
  \/ CheckDisabled(w) \/ ListAgents(w) \/ EnsureAgent(w) \/ EnsureService(w)
  \/ ResolveSecurity(w) \/ GetAgent(w) \/ DeleteAgent(w) \/ CreateAgent(w)
=============================================================================
