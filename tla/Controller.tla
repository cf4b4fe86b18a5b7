----------------------------- MODULE Controller -----------------------------
(***************************************************************************)
(* The backend process: the watcher goroutine that applies loads of the     *)
(* configuration, one goroutine per load that sleeps and then reconciles,   *)
(* the periodic reconcile, concurrent POST /api/v1/gc requests, and the     *)
(* end and restart of the process.                                         *)
(***************************************************************************)
EXTENDS PerPvc, PerNamespace

(* The goroutine of OnConfigChange while it debounces. *)
Sleeping == [Idle EXCEPT !.pc = "sleep"]

(* A process that has made its first load, before anything else ran.  When  *)
(* the file cannot be read the process goes on with the empty Config, whose *)
(* mode is "" and which nobody reconciles: a load with that content.       *)
Init ==
  /\ ApiInit
  /\ cfg = 1 /\ defaults = 1 /\ overrides = 1
  /\ disabled = FALSE
  /\ wk = [w \in Workers |-> IF w = 1 THEN Sleeping ELSE Idle]

----------------------------------------------------------------------------
(* The watcher's callback: three unguarded writes, then the goroutine.     *)

ApplyNewConfig ==
  /\ overrides = cfg /\ cfg < Loads
  /\ Spend("load")
  /\ cfg' = cfg + 1
  /\ UNCHANGED <<claims, pods, services, defaults, overrides, disabled, wk>>

SetDefaults ==
  /\ defaults # cfg
  /\ defaults' = cfg
  /\ UNCHANGED <<apiVars, cfg, overrides, disabled, wk>>

SetOverrides ==
  /\ defaults = cfg /\ overrides # cfg
  /\ overrides' = cfg
  /\ Become(cfg, Sleeping)
  /\ UNCHANGED <<apiVars, cfg, defaults, disabled>>

WatcherStep == SetDefaults \/ SetOverrides

----------------------------------------------------------------------------
(* The start of a pass: BuildTargets of the configuration it carries.  Its  *)
(* lists and Gets are one step, a snapshot of the claims.  The lists either *)
(* fail, which ends the pass, or are answered; a volume that cannot be read *)
(* only drops the claim that needed it, and one outage can drop several.   *)

Start(targets, v) ==
  IF Mode(v) = "agent-per-pvc" THEN [Idle EXCEPT !.pc = "reconcile", !.targets = targets]
  ELSE [Idle EXCEPT !.pc = "gcPerPvc", !.targets = targets, !.namespaces = {t[1] : t \in targets}]

BuildTargets(w, v) ==
  LET found == Watched(v) \cap claims
  IN  /\ \/ Answers /\ Become(w, Start(found, v))
         \/ \E lost \in SUBSET (found \cap ByVolume) \ {{}} :
              Fails /\ Become(w, Start(found \ lost, v))
         \/ Fails /\ Become(w, Idle)
      /\ UNCHANGED procVars

HasAgents(v) == Mode(v) \in {"agent-per-pvc", "agent-per-namespace"}

OnConfigChange(w) ==
  /\ w \in Versions /\ At(w, "sleep")
  /\ \/ HasAgents(w) /\ BuildTargets(w, w)
     \/ ~ HasAgents(w) /\ Become(w, Idle) /\ UNCHANGED <<apiVars, procVars>>

(* A tick uses the configuration that is current then. *)
Tick(w) ==
  /\ At(w, "idle")
  /\ HasAgents(cfg)
  /\ BuildTargets(w, cfg)

----------------------------------------------------------------------------
(* POST /api/v1/gc.                                                        *)

GcRequest(w) ==
  /\ At(w, "idle")
  /\ Spend("gc")
  /\ disabled' = TRUE
  /\ Become(w, [Idle EXCEPT !.pc = "gcPerPvc"])
  /\ UNCHANGED <<claims, pods, services, cfg, defaults, overrides>>

(* The client has gone or the 60 s are over: the request's context is       *)
(* cancelled and the calls that are left fail at once.                     *)
GcCancelled(w) ==
  /\ wk[w].pc \notin {"idle", "enable"}
  /\ Become(w, Ended(w))
  /\ UNCHANGED <<apiVars, procVars>>

(* The deferred Store(false). *)
Enable(w) ==
  /\ At(w, "enable")
  /\ disabled' = FALSE
  /\ Become(w, Idle)
  /\ UNCHANGED <<apiVars, cfg, defaults, overrides>>

----------------------------------------------------------------------------

(* The process ends and the next one makes its first load, of the same file *)
(* or of a newer one.  After SIGTERM the old process leaves a clean-up       *)
(* behind, which nobody waits for; its calls have a context of their own.    *)
(* Its r.Disabled is not the new process's.                                 *)
Restart ==
  /\ Spend("restart")
  /\ \E v \in {cfg, cfg + 1} \cap Versions, sigterm \in BOOLEAN :
       /\ cfg' = v /\ defaults' = v /\ overrides' = v
       /\ wk' = [w \in Workers |->
                   IF w = v THEN Sleeping
                   ELSE IF w = Shutdown /\ sigterm THEN [Idle EXCEPT !.pc = "gcPerPvc"]
                   ELSE Idle]
  /\ disabled' = FALSE
  /\ UNCHANGED <<claims, pods, services>>

(* main returns while the clean-up is still running. *)
ShutdownExits ==
  /\ wk[Shutdown].pc # "idle"
  /\ Become(Shutdown, Idle)
  /\ UNCHANGED <<apiVars, procVars>>

----------------------------------------------------------------------------

PassStep(w) ==
  (w \in Tickers /\ Tick(w)) \/ OnConfigChange(w) \/ PerPvcStep(w) \/ PerNamespaceStep(w) \/ SharedStep(w)

(* A clean-up has no targets, so its only step of PerNamespace is the one   *)
(* that goes from the per-PVC agents to the group agents.                  *)
SweepStep(w) == SharedStep(w) \/ NextNamespace(w)

Next ==
  \/ ApplyNewConfig \/ WatcherStep
  \/ \E w \in Passes : PassStep(w)
  \/ \E w \in Handlers : GcRequest(w) \/ SweepStep(w) \/ GcCancelled(w) \/ Enable(w)
  \/ SweepStep(Shutdown) \/ ShutdownExits
  \/ Restart
  \/ ClusterStep /\ UNCHANGED <<procVars, wk>>

(* Goroutines are scheduled, calls return, the ticker ticks, the kubelet    *)
(* stops Pods.  Nothing makes anyone edit the file, ask for a GC, restart.  *)
Fairness ==
  /\ WF_vars(WatcherStep)
  /\ \A w \in Passes : WF_vars(PassStep(w))
  /\ \A w \in Handlers : WF_vars(SweepStep(w) \/ Enable(w))
  /\ WF_vars(SweepStep(Shutdown))
  /\ \A a \in Agents : WF_vars(PodGone(a) /\ UNCHANGED <<procVars, wk>>)

Spec == Init /\ [][Next]_vars
FairSpec == Spec /\ Fairness
=============================================================================
