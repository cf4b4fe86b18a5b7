------------------------- MODULE ConfigWatchProofs -------------------------
(***************************************************************************)
(* WatchFile takes versions over in order, and forgets none it was told    *)
(* of, for every number of versions, every length of the queue and every   *)
(* mixture of edits.                                                       *)
(***************************************************************************)
EXTENDS ConfigWatch, TLAPS

(* A version read and not yet in force is not older than the one in force. *)
SnapshotNewer == pc = "read" => /\ snapshot \in value .. Len(file)
                                /\ snapshot > 0
                                /\ file[snapshot]

(* Version v accounts for everything WatchFile has been told of.           *)
UpToDate(v) == v = Len(file) \/ announced < Len(file) \/ ~file[Len(file)]

(* Where the next load is not already on its way, nothing is missing: this *)
(* extends NothingForgotten to the points before the goroutine waits.      *)
Accounted ==
  /\ pc = "loaded" => UpToDate(value)
  /\ pc = "select" /\ ~Contains(queue, "config.yaml") => UpToDate(value)
  /\ pc = "read" /\ ~Contains(queue, "config.yaml") => UpToDate(snapshot)

IInv ==
  /\ TypeOK
  /\ pc = "start" => value = 0
  /\ ~Watching /\ pc # "stopped" => queue = << >>
  /\ SnapshotNewer
  /\ Accounted

(* A queue whose last name is n contains n.                                *)
LEMMA LastContained ==
  ASSUME NEW S, NEW q \in Seq(S), q # << >>
  PROVE  Contains(q, Last(q)) /\ Len(q) \in 1 .. Len(q)
BY DEF Contains, Last

(* What is received from a queue is its head; the rest stays.              *)
LEMMA TailContained ==
  ASSUME NEW S, NEW q \in Seq(S), q # << >>, NEW n, Contains(q, n), Head(q) # n
  PROVE  Contains(Tail(q), n)
<1>1. PICK i \in 1 .. Len(q) : q[i] = n
  BY DEF Contains
<1>2. i # 1
  BY <1>1
<1>3. i - 1 \in 1 .. Len(Tail(q)) /\ Tail(q)[i - 1] = n
  BY <1>1, <1>2
<1> QED
  BY <1>3 DEF Contains

(* The queue after an edit is a queue.                                     *)
LEMMA QueuedType ==
  ASSUME TypeOK, NEW name \in {"config.yaml", "..data"}, NEW q \in Queued(name)
  PROVE  q \in Seq({"config.yaml", "..data"}) /\ Len(q) <= QueueLimit
BY BoundsAssumption DEF Queued, TypeOK

LEMMA InitIInv == Init => IInv
<1> SUFFICES ASSUME Init PROVE IInv
  OBVIOUS
<1>1. PICK ok \in BOOLEAN : file = <<ok>>
  BY DEF Init
<1>2. file \in Seq(BOOLEAN) /\ Len(file) = 1
  BY <1>1
<1>3. queue \in Seq({"config.yaml", "..data"}) /\ Len(queue) = 0
  BY DEF Init
<1>4. TypeOK
  BY <1>2, <1>3, BoundsAssumption DEF Init, TypeOK
<1> QED
  BY <1>4 DEF Init, IInv, SnapshotNewer, Accounted, Watching

LEMMA EditIInv == ASSUME IInv, NEW kind \in EditKinds, Edit(kind) PROVE IInv'
<1> DEFINE name == EventName(kind)
<1>1. PICK ok \in BOOLEAN : file' = Append(file, ok)
  BY DEF Edit
<1>2. Len(file') = Len(file) + 1 /\ \A i \in 1 .. Len(file) : file'[i] = file[i]
  BY <1>1 DEF IInv, TypeOK
<1>3. name \in {"config.yaml", "..data"}
  BY DEF EventName
<1>4. queue' \in Seq({"config.yaml", "..data"}) /\ Len(queue') <= QueueLimit
  BY <1>3, QueuedType DEF IInv, Edit
<1>5. announced' \in 1 .. Len(file')
  BY <1>2 DEF Edit, IInv, TypeOK
<1>6. TypeOK'
  <2>1. file \in Seq(BOOLEAN) /\ Len(file) \in Nat \ {0} /\ Len(file) < MaxVersions
    BY DEF IInv, TypeOK, Edit
  <2>5. file' \in Seq(BOOLEAN)
    BY <1>1, <2>1
  <2>6. Len(file') \in 1 .. MaxVersions
    BY <1>2, <2>1, BoundsAssumption
  <2>2. published' \subseteq 1 .. Len(file')
    <3>1. published \subseteq 1 .. Len(file)
      BY DEF IInv, TypeOK
    <3>2. published' \subseteq published \cup {Len(file')}
      BY DEF Edit
    <3> QED
      BY <3>1, <3>2, <1>2, <2>1
  <2>3. UNCHANGED <<pc, snapshot, value, restarts>>
    BY DEF Edit, watcher
  <2>4. snapshot' \in 0 .. Len(file') /\ value' \in 0 .. Len(file')
    BY <2>3, <1>2 DEF IInv, TypeOK
  <2> QED
    BY <2>5, <2>6, <2>2, <2>3, <2>4, <1>4, <1>5 DEF IInv, TypeOK
<1>7. (pc = "start" => value = 0)' /\ SnapshotNewer'
  BY <1>2 DEF IInv, SnapshotNewer, Edit, watcher, TypeOK
<1>9. (~Watching /\ pc # "stopped" => queue = << >>)'
  BY DEF IInv, Edit, watcher, Watching, Queued
<1>8. Accounted'
  <2>1. CASE Told(kind, queue') /\ pc # "start"
    <3>1. Contains(queue', "config.yaml")
      BY <2>1, <1>4, LastContained DEF Told
    <3>2. pc # "loaded"
      <4>1. SUFFICES ASSUME pc = "loaded" PROVE FALSE
        OBVIOUS
      <4>2. queue' = queue
        BY <4>1 DEF Edit, Queued, Watching
      <4> QED
        BY <4>1, <4>2, <2>1 DEF IInv, Told, Watching
    <3> QED
      BY <3>1, <3>2 DEF Accounted, Edit, watcher
  <2>2. CASE ~Told(kind, queue')
    <3>1. announced' < Len(file')
      BY <2>2, <1>2 DEF Edit, IInv, TypeOK
    <3> QED
      BY <3>1 DEF Accounted, UpToDate
  <2>3. CASE pc = "start"
    BY <2>3 DEF Accounted, Edit, watcher
  <2> QED
    BY <2>1, <2>2, <2>3
<1> QED
  BY <1>6, <1>7, <1>8, <1>9 DEF IInv

LEMMA InitialLoadIInv == ASSUME IInv, InitialLoad PROVE IInv'
<1>1. TypeOK'
  BY DEF IInv, TypeOK, InitialLoad, history
<1>2. UpToDate(value')
  BY DEF IInv, TypeOK, UpToDate, InitialLoad
<1> QED
  BY <1>1, <1>2
  DEF IInv, TypeOK, InitialLoad, history, Accounted, UpToDate, SnapshotNewer, Watching

LEMMA AddWatchIInv == ASSUME IInv, AddWatch PROVE IInv'
<1>1. TypeOK'
  BY DEF IInv, TypeOK, AddWatch, history
<1> QED
  BY <1>1 DEF IInv, AddWatch, history, Accounted, UpToDate, SnapshotNewer, Watching

LEMMA ReceiveIInv == ASSUME IInv, Receive PROVE IInv'
<1>1. queue' \in Seq({"config.yaml", "..data"}) /\ Len(queue') <= QueueLimit
  BY BoundsAssumption DEF IInv, TypeOK, Receive
<1>2. TypeOK'
  BY <1>1 DEF IInv, TypeOK, Receive, history
<1>3. CASE Head(queue) = "config.yaml"
  BY <1>2, <1>3 DEF IInv, Receive, Accounted, SnapshotNewer, Watching
<1>4. CASE Head(queue) # "config.yaml"
  <2>1. ~Contains(queue', "config.yaml") => ~Contains(queue, "config.yaml")
    BY <1>4, TailContained DEF IInv, TypeOK, Receive
  <2> QED
    BY <1>2, <1>4, <2>1
    DEF IInv, Receive, history, Accounted, UpToDate, SnapshotNewer, Watching
<1> QED
  BY <1>3, <1>4

LEMMA LoadIInv == ASSUME IInv, Load PROVE IInv'
<1>1. TypeOK'
  BY DEF IInv, TypeOK, Load, history
<1> QED
  BY <1>1 DEF IInv, TypeOK, Load, history, Accounted, UpToDate, SnapshotNewer, Watching

LEMMA OnChangeIInv == ASSUME IInv, OnChange PROVE IInv'
<1>1. TypeOK'
  BY DEF IInv, TypeOK, OnChange, history, SnapshotNewer
<1> QED
  BY <1>1 DEF IInv, OnChange, history, Accounted, UpToDate, SnapshotNewer, Watching

LEMMA StopIInv == ASSUME IInv, Stop PROVE IInv'
<1>1. TypeOK'
  BY DEF IInv, TypeOK, Stop, history
<1> QED
  BY <1>1 DEF IInv, Stop, history, Accounted, SnapshotNewer, Watching

LEMMA RestartIInv == ASSUME IInv, Restart PROVE IInv'
<1>1. queue' \in Seq({"config.yaml", "..data"}) /\ Len(queue') <= QueueLimit
  BY BoundsAssumption DEF Restart
<1>2. TypeOK'
  BY <1>1, BoundsAssumption DEF IInv, TypeOK, Restart
<1> QED
  BY <1>2 DEF IInv, Restart, Accounted, SnapshotNewer, Watching

LEMMA NextIInv == IInv /\ [Next]_vars => IInv'
<1> SUFFICES ASSUME IInv, [Next]_vars PROVE IInv'
  OBVIOUS
<1>1. ASSUME NEW kind \in EditKinds, Edit(kind) PROVE IInv'
  BY <1>1, EditIInv
<1>2. CASE UNCHANGED vars
  BY <1>2 DEF vars, watcher, history, IInv, TypeOK, SnapshotNewer, Accounted, UpToDate, Watching
<1> QED
  BY <1>1, <1>2, InitialLoadIInv, AddWatchIInv, ReceiveIInv, LoadIInv, OnChangeIInv,
     StopIInv, RestartIInv
  DEF Next, WatcherStep

LEMMA Invariance == Spec => []IInv
BY InitIInv, NextIInv, PTL DEF Spec

----------------------------------------------------------------------------

(* The types of ConfigWatch's state hold for every number of versions and  *)
(* restarts and every limit of the queue.                                  *)
THEOREM TypeOKTheorem == Spec => []TypeOK
<1>1. IInv => TypeOK
  BY DEF IInv
<1> QED
  BY <1>1, Invariance, PTL

(* No edit that is announced by name after the watch was added is lost,    *)
(* however it falls between the sleep, the load and the callback.          *)
THEOREM NothingForgottenTheorem == Spec => []NothingForgotten
<1>1. IInv => NothingForgotten
  BY DEF IInv, Accounted, UpToDate, NothingForgotten
<1> QED
  BY <1>1, Invariance, PTL

(* Every step of WatchFile and of its environment is a step of the         *)
(* register, or leaves it alone.                                           *)
LEMMA StepRefines == IInv /\ [Next]_vars => [Register!Next]_(Register!vars)
<1> SUFFICES ASSUME IInv, [Next]_vars PROVE [Register!Next]_(Register!vars)
  OBVIOUS
<1> USE DEF Register!Next, Register!vars
<1>1. ASSUME NEW kind \in EditKinds, Edit(kind) PROVE Register!Write
  BY <1>1 DEF Edit, Register!Write, watcher
<1>2. CASE InitialLoad
  <2>1. value = 0
    BY <1>2 DEF IInv, InitialLoad
  <2> QED
    BY <1>2, <2>1 DEF IInv, TypeOK, InitialLoad, history, Register!Read
<1>3. CASE OnChange
  BY <1>3 DEF IInv, TypeOK, SnapshotNewer, OnChange, history, Register!Read
<1>4. CASE Restart
  BY <1>4 DEF Restart, Register!Restart
<1>5. CASE AddWatch \/ Receive \/ Load \/ Stop
  BY <1>5 DEF AddWatch, Receive, Load, Stop, history
<1>6. CASE UNCHANGED vars
  BY <1>6 DEF vars, watcher, history
<1> QED
  BY <1>1, <1>2, <1>3, <1>4, <1>5, <1>6 DEF Next, WatcherStep

(* WatchFile implements the safety of the register: the configuration in   *)
(* force is always a loadable version of the file, and none is replaced by *)
(* an older one while the process lives.                                   *)
THEOREM RegisterRefined == Spec => Register!Safety
<1>1. Init => Register!Init
  BY DEF Init, Register!Init
<1> QED
  BY <1>1, StepRefines, Invariance, PTL DEF Spec, Register!Safety
=============================================================================
