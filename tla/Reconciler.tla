----------------------------- MODULE Reconciler -----------------------------
(***************************************************************************)
(* What the reconciliation passes share: the reconciler's fields, the       *)
(* local variables of each goroutine, and the loop that deletes listed      *)
(* agents.  PerPvc and PerNamespace add the steps of the two data planes,   *)
(* Controller the goroutines that run them.                                *)
(*                                                                         *)
(* Configurations are known by the number of the load that produced them,   *)
(* 1..Loads; two loads may have the same content.  A step makes at most one *)
(* call to the API server.  r.Defaults and r.Overrides are written by the   *)
(* watcher goroutine without a lock, so every read of one of them is a step *)
(* (or shares the step of an API call, which the watcher cannot see).       *)
(***************************************************************************)
EXTENDS KubeApi

CONSTANTS
  Loads,                \* configurations loaded in a behaviour
  Tickers,              \* the goroutine of StartPeriodic (none in a bounded run)
  Handlers,             \* concurrent requests to POST /api/v1/gc
  Shutdown,             \* the clean-up goroutine of a process that ends
  None,
  Mode(_),              \* cfg.Mode.DataPlane of a load
  Watched(_),           \* the targets a load's watch section selects
  ByVolume,             \* claims whose class only their volume names
  PvcHash(_, _, _, _),  \* PvcHash(d, o, e, t): spec hash of t's agent, settings
                        \* resolved from the Defaults of load d and the
                        \* Overrides of load o, hashed with the Defaults of e
  Profile(_, _, _, _),  \* Profile(d, o, t, known): profile key of t; known says
                        \* whether its class was looked up
  PvcRuns(_, _, _, _),  \* PvcRuns(d, o, f, t): contents of the Pod of t's agent,
                        \* settings resolved as for the hash, its groups merged
                        \* with the Defaults of f
  GroupHash(_, _, _),   \* GroupHash(S, k, e): spec hash of the group agent of
                        \* profile k that mounts S, hashed with the Defaults of e
  GroupRuns(_, _, _)    \* GroupRuns(S, k, f): contents of its Pod, the groups
                        \* merged with the Defaults of f

Versions == 1..Loads
Passes == Versions \cup Tickers
Sweepers == Handlers \cup {Shutdown}
Workers == Passes \cup Sweepers

ASSUME LoadsAssumption == Loads \in Nat \ {0}
ASSUME WorkersAssumption ==
  /\ Tickers \cap (Versions \cup Sweepers) = {}
  /\ Shutdown \notin Versions \cup Handlers
  /\ Versions \cap Handlers = {}
ASSUME WatchedAssumption == \A v \in Versions : Watched(v) \subseteq Target
ASSUME ProfileAssumption ==
  \A d, o \in Versions, t \in Target, known \in BOOLEAN : Profile(d, o, t, known) \in Keys

VARIABLES
  cfg,        \* cfgState.Current(): the load in force
  defaults,   \* the load r.Defaults comes from
  overrides,  \* the load r.Overrides comes from
  disabled,   \* r.Disabled
  wk          \* the local variables of each goroutine

procVars == <<cfg, defaults, overrides, disabled>>
vars == <<apiVars, procVars, wk>>

Idle ==
  [pc |-> "idle", targets |-> {}, seen |-> {}, todo |-> {}, cur |-> None,
   def |-> 0, ovr |-> 0, want |-> NoHash,
   namespaces |-> {}, ns |-> None, groups |-> {}, ret |-> "idle"]

At(w, label) == wk[w].pc = label
Become(w, local) == wk' = [wk EXCEPT ![w] = local]

(* Claims are listed in one order, the API server's; CHOOSE stands for it. *)
First(targets) == CHOOSE t \in targets : TRUE

(* Mutant: the deferred Store(false) is missing. *)
MutEnded(w) == Idle

(* Where a goroutine goes when it has nothing left to do: a /gc handler    *)
(* still has its deferred Store(false) to run.                             *)
Ended(w) == IF w \in Handlers THEN [Idle EXCEPT !.pc = "enable"] ELSE Idle

----------------------------------------------------------------------------
(* for each listed agent: Pods.Delete, Services.Delete, errors ignored.    *)

Resume(w, local, label) ==
  IF label = "ended" THEN Ended(w)
  ELSE [local EXCEPT !.pc = label, !.todo = {}, !.cur = None, !.ret = "idle"]

(* Sweep the agents, then go on at label. *)
SweepThen(w, local, agents, label) ==
  IF agents = {} THEN Resume(w, local, label)
  ELSE [local EXCEPT !.pc = "sweep", !.todo = agents, !.cur = None, !.ret = label]

SweepPod(w) ==
  /\ At(w, "sweep")
  /\ \E a \in wk[w].todo :
       /\ DeletePod(a) \/ Fails
       /\ Become(w, [wk[w] EXCEPT !.pc = "sweepService", !.cur = a, !.todo = @ \ {a}])
  /\ UNCHANGED procVars

SweepService(w) ==
  /\ At(w, "sweepService")
  /\ DeleteService(wk[w].cur) \/ Fails
  /\ Become(w, SweepThen(w, wk[w], wk[w].todo, wk[w].ret))
  /\ UNCHANGED procVars

----------------------------------------------------------------------------

(* GCPerPVCAll: list the per-PVC agents of all namespaces, sweep them.  An  *)
(* error is logged by every caller, which then goes on.                    *)
GCPerPVCAll(w) ==
  /\ At(w, "gcPerPvc")
  /\ \/ /\ Answers
        /\ Become(w, SweepThen(w, wk[w], {a \in PvcAgents : Exists(a)}, "namespace"))
     \/ /\ Fails
        /\ Become(w, Resume(w, wk[w], "namespace"))
  /\ UNCHANGED procVars

(* GCNamespaceAgents: sweep the group agents of the namespaces without      *)
(* targets.  The request handler and the shutdown clean-up keep none.      *)
GCNamespaceAgents(w) ==
  /\ At(w, "gcNamespaces")
  /\ LET keep == {t[1] : t \in wk[w].targets}
     IN  \/ /\ Answers
            /\ Become(w, SweepThen(w, wk[w],
                           {a \in GroupAgents : Exists(a) /\ a[2] \notin keep}, "ended"))
         \/ /\ Fails
            /\ Become(w, Ended(w))
  /\ UNCHANGED procVars

SharedStep(w) ==
  SweepPod(w) \/ SweepService(w) \/ GCPerPVCAll(w) \/ GCNamespaceAgents(w)
=============================================================================
