---------------------------- MODULE ConfigWatch ----------------------------
(***************************************************************************)
(* WatchFile of internal/config: one load before the directory is watched, *)
(* then one load per notification whose name ends in that of the file,     *)
(* 200 ms after the notification.  The file, whoever edits it, and the     *)
(* kernel's queue of notifications are the environment.                    *)
(***************************************************************************)
EXTENDS Naturals, Sequences, SequencesExt

CONSTANTS
  MaxVersions,  \* bound on the versions of the file
  QueueLimit,   \* notifications the kernel keeps
  MaxRestarts,  \* bound on the restarts of the process
  EditKinds     \* ways to change the file, a subset of {"write", "rename", "publish"}

ASSUME BoundsAssumption ==
  MaxVersions \in Nat \ {0} /\ QueueLimit \in Nat \ {0} /\ MaxRestarts \in Nat
ASSUME KindsAssumption == EditKinds \subseteq {"write", "rename", "publish"}

VARIABLES
  file,         \* every version the file had: can it be read and parsed?
  queue,        \* names of the notifications not yet received
  pc,           \* "start", "loaded", "select", "sleep", "read" or "stopped"
  snapshot,     \* the version read by the load in progress
  value,        \* State.cfg: the version in force, 0 for the empty Config
  announced,    \* history: the newest version that WatchFile has to notice
  published,    \* history: the versions a ConfigMap brought while events were awaited
  restarts

watcher == <<pc, snapshot, value>>
history == <<announced, published>>
vars == <<file, queue, watcher, history, restarts>>

Init ==
  /\ file \in {<<ok>> : ok \in BOOLEAN}
  /\ queue = << >>
  /\ pc = "start"
  /\ snapshot = 0
  /\ value = 0
  /\ announced = 1
  /\ published = {}
  /\ restarts = 0

Watching == pc \in {"select", "sleep", "read"}

----------------------------------------------------------------------------
(* The environment.                                                        *)

(* The name in the notification: an edit of the file itself, in place or   *)
(* by renaming another file over it, names the file; the kubelet replaces  *)
(* the link ..data that config.yaml points through.                        *)
EventName(kind) == IF kind = "publish" THEN "..data" ELSE "config.yaml"

(* The kernel drops a notification when its queue is full (the watcher     *)
(* only logs that) and may merge it with an equal one at the end.          *)
Queued(name) ==
  IF ~Watching \/ Len(queue) = QueueLimit THEN {queue}
  ELSE {Append(queue, name)} \cup {q \in {queue} : q # << >> /\ Last(q) = name}

(* WatchFile is to notice an edit if its first load is still to come, or   *)
(* a notification that names the file is on its way afterwards.            *)
Told(kind, q) ==
  \/ pc = "start"
  \/ EventName(kind) = "config.yaml" /\ q # << >> /\ Last(q) = "config.yaml"

(* One write, rename or swap of links.  Each state of the file between     *)
(* several writes is a version of its own, loadable or not.                *)
Edit(kind) ==
  /\ Len(file) < MaxVersions
  /\ \E ok \in BOOLEAN : file' = Append(file, ok)
  /\ queue' \in Queued(EventName(kind))
  /\ announced' = IF Told(kind, queue') THEN Len(file') ELSE announced
  /\ published' = IF kind = "publish" /\ pc = "select" THEN published \cup {Len(file')}
                  ELSE published
  /\ UNCHANGED <<watcher, restarts>>

----------------------------------------------------------------------------
(* WatchFile.                                                              *)

(* The initial load; when it fails the empty Config stays in force.        *)
InitialLoad ==
  /\ pc = "start"
  /\ value' = IF file[Len(file)] THEN Len(file) ELSE value
  /\ pc' = "loaded"
  /\ UNCHANGED <<file, queue, snapshot, history, restarts>>

AddWatch ==
  /\ pc = "loaded"
  /\ pc' = "select"
  /\ UNCHANGED <<file, queue, snapshot, value, history, restarts>>

Receive ==
  /\ pc = "select"
  /\ queue # << >>
  /\ queue' = Tail(queue)
  /\ pc' = IF Head(queue) = "config.yaml" THEN "sleep" ELSE "select"
  /\ UNCHANGED <<file, snapshot, value, history, restarts>>

(* Load, 200 ms later; a failure is logged and the event is done with.     *)
Load ==
  /\ pc = "sleep"
  /\ IF file[Len(file)]
       THEN pc' = "read" /\ snapshot' = Len(file)
       ELSE pc' = "select" /\ UNCHANGED snapshot
  /\ UNCHANGED <<file, queue, value, history, restarts>>

(* Mutant: events that arrived during the load are taken for handled.      *)
MutOnChange ==
  /\ pc = "read"
  /\ value' = snapshot
  /\ snapshot' = 0
  /\ pc' = "select"
  /\ queue' = << >>
  /\ UNCHANGED <<file, history, restarts>>

OnChange ==
  /\ pc = "read"
  /\ value' = snapshot
  /\ snapshot' = 0
  /\ pc' = "select"
  /\ UNCHANGED <<file, queue, history, restarts>>

(* The loop sees ctx.Done() of a SIGTERM.                                  *)
Stop ==
  /\ pc = "select"
  /\ restarts < MaxRestarts
  /\ pc' = "stopped"
  /\ UNCHANGED <<file, queue, snapshot, value, history, restarts>>

(* The process ends, after Stop or at any other time (also when NewWatcher *)
(* or Add fails: main exits then), and starts again from NewState.         *)
Restart ==
  /\ restarts < MaxRestarts
  /\ restarts' = restarts + 1
  /\ pc' = "start"
  /\ snapshot' = 0
  /\ value' = 0
  /\ queue' = << >>
  /\ announced' = Len(file)
  /\ UNCHANGED <<file, published>>

WatcherStep == InitialLoad \/ AddWatch \/ Receive \/ Load \/ OnChange

Next == WatcherStep \/ Stop \/ Restart \/ \E kind \in EditKinds : Edit(kind)

Spec == Init /\ [][Next]_vars

(* The goroutine is scheduled, a stopped process is started again.         *)
Fairness == WF_vars(WatcherStep) /\ WF_vars(pc = "stopped" /\ Restart)

FairSpec == Spec /\ Fairness

----------------------------------------------------------------------------
(* Properties.                                                             *)

(* The shape of the state.                                                 *)
TypeOK ==
  /\ file \in Seq(BOOLEAN) /\ Len(file) \in 1 .. MaxVersions
  /\ queue \in Seq({"config.yaml", "..data"}) /\ Len(queue) <= QueueLimit
  /\ pc \in {"start", "loaded", "select", "sleep", "read", "stopped"}
  /\ snapshot \in 0 .. Len(file)
  /\ value \in 0 .. Len(file)
  /\ announced \in 1 .. Len(file)
  /\ published \subseteq 1 .. Len(file)
  /\ restarts \in 0 .. MaxRestarts

(* WatchFile never waits for a next event while a version it was told of   *)
(* is the current one, can be loaded and is not in force: no interleaving  *)
(* of edits with the 200 ms, the load and the callback loses an edit       *)
(* (config.go:97-105).                                                     *)
NothingForgotten ==
  pc = "select" /\ ~Contains(queue, "config.yaml") =>
    \/ value = Len(file)
    \/ announced < Len(file)
    \/ ~file[Len(file)]

Register == INSTANCE ConfigRegister WITH written <- file

(* WatchFile implements the register: versions are taken over in order,    *)
(* only loadable ones, none older than the one in force; and a loadable    *)
(* version it was told of is in force in the end unless it is overwritten. *)
ImplementsRegister == Register!Safety /\ Register!CatchesUp(1 .. MaxVersions)

(* README: the ConfigMap rendered to /config/config.yaml is hot-reloaded.  *)
(* A loadable version that the kubelet publishes while WatchFile waits for *)
(* events comes into force unless another one replaces it.                 *)
PublishedIsReloaded ==
  \A n \in 1 .. MaxVersions :
    (n \in published /\ Len(file) = n /\ file[n]) ~> (value = n \/ Len(file) > n)
=============================================================================
