----------------------------- MODULE AgentFiles -----------------------------
(***************************************************************************)
(* The agent's handlers on the files of its volumes, one step per system    *)
(* call that matters, as they are reached from the UI's panel through       *)
(* computeRouting.  Requests run concurrently; calls fail; the agent's Pod  *)
(* may be killed in the middle of them.                                     *)
(***************************************************************************)
EXTENDS Routing, FiniteSets

CONSTANTS
  Paths,        \* every path on the volumes; the first segment is the PVC
  MaxInode,     \* bound on the files that exist or are open at a time
  InitialTree,  \* [Paths -> Absent, Dir, Link or an inode]
  Downloaded,   \* an entry that the browser has downloaded before
  LinkTarget,   \* where the symbolic links point, none outside the volumes
  MaxLinks,     \* how many links the kernel follows before it says ELOOP
  Uploads,      \* sequence of [names, size]: what users upload, in this order
  Requests,     \* slots for requests under way
  Budgets       \* how many requests of each kind and in all, how many faults

Absent == 0
Dir == -1
Link == -2
Inodes == 1 .. MaxInode

ASSUME TreeAssumption ==
  /\ MaxInode \in Nat
  /\ InitialTree \in [Paths -> {Absent, Dir, Link} \cup Inodes]
  /\ Downloaded \in Paths /\ InitialTree[Downloaded] \in Inodes
  /\ Pvcs \subseteq STRING /\ \A x \in Paths : x \in Seq(STRING) /\ x # << >>
ASSUME PathsAssumption ==
  /\ IsFiniteSet(Paths)
  /\ \A x \in Paths : Len(x) > 1 => Front(x) \in Paths
(* What is on the volumes when the agent starts is a tree without hard      *)
(* links; a volume's root is a directory.                                   *)
ASSUME ShapeAssumption ==
  /\ \A x \in Paths : InitialTree[x] # Absent /\ Len(x) > 1 => InitialTree[Front(x)] = Dir
  /\ \A x, y \in Paths : InitialTree[x] > 0 /\ InitialTree[x] = InitialTree[y] => x = y
  /\ \A v \in Pvcs : <<v>> \in Paths /\ InitialTree[<<v>>] = Dir
(* x as it reads after the link at its first k segments has been followed.  *)
Redirect(x, k) == LinkTarget[SubSeq(x, 1, k)] \o SubSeq(x, k + 1, Len(x))
(* Paths has every path that a walk may come to.                            *)
ASSUME LinkAssumption ==
  /\ MaxLinks \in Nat
  /\ LinkTarget \in [{x \in Paths : InitialTree[x] = Link} -> Paths]
  /\ \A x \in Paths : \A k \in 1 .. Len(x) :
       SubSeq(x, 1, k) \in DOMAIN LinkTarget => Redirect(x, k) \in Paths
ASSUME UploadsAssumption ==
  /\ Uploads \in Seq([names : Seq(STRING), size : Nat])
  /\ \A kind \in DOMAIN Budgets : Budgets[kind] \in Nat

NoFile == [chunks |-> << >>, mtime |-> 0, owner |-> 0, torn |-> FALSE]
Idle == [op |-> "idle", pc |-> "idle", pvc |-> "", asked |-> << >>, url |-> << >>,
         full |-> << >>, todo |-> << >>, upload |-> 0, fd |-> 0, mtime |-> 0, size |-> 0,
         sure |-> FALSE, body |-> << >>]

VARIABLES
  readOnly,     \* HTTPServer.ReadOnly
  tree,         \* [Paths -> Absent, Dir, Link or the inode of a file]
  data,         \* [Inodes -> the file: its chunks and mtime, and as history
                \*   the upload that opened it last and whether another one,
                \*   or a failure, came in between]
  clock,        \* the file system's, which several writes may read the same
  panel,        \* FilePanel: the PVC, the path, and the directory it stands for
  rq,           \* [Requests -> a request and its local variables, or Idle]
  uploaded,     \* uploads begun
  cached,       \* the last complete download in the browser's cache, and as
                \*   history whether its tag was that of a past tick, taken
                \*   from the file that was at its path
  budget

vars == <<readOnly, tree, data, clock, panel, rq, uploaded, cached, budget>>

Init ==
  /\ readOnly \in BOOLEAN
  /\ tree = InitialTree
  /\ data = [i \in Inodes |->
       IF \E x \in Paths : InitialTree[x] = i
         THEN [NoFile EXCEPT !.chunks = <<0, 0>>, !.mtime = i] ELSE NoFile]
  /\ clock = MaxInode
  /\ panel \in {[pvc |-> v, path |-> << >>, at |-> <<v>>] : v \in Pvcs}
  /\ rq = [r \in Requests |-> Idle]
  /\ uploaded = 0
  /\ LET file == data[InitialTree[Downloaded]]
     IN  cached = [asked |-> Downloaded, mtime |-> file.mtime, size |-> Len(file.chunks),
                   sure |-> file.mtime < clock, body |-> file.chunks]
  /\ budget = Budgets

----------------------------------------------------------------------------
(* Paths.                                                                  *)

Below(dir) == {x \in Paths : IsStrictPrefix(dir, x)}
AtOrBelow(x) == {x} \cup Below(x)
Children(dir) == {x \in Below(dir) : Len(x) = Len(dir) + 1}

(* What is at a path.                                                      *)
Node(x) == IF x \in Paths THEN tree[x] ELSE Absent

(* The kernel's walk follows a link wherever it stands on a path, the last  *)
(* segment included; nothing is below a link, so a path has one at most.     *)
Links == {x \in Paths : tree[x] = Link}
LinksOn(x) == {k \in 1 .. Len(x) : SubSeq(x, 1, k) \in Links}
FollowOne(x) == IF LinksOn(x) = {} THEN x ELSE Redirect(x, CHOOSE k \in LinksOn(x) : TRUE)

(* A link that is left after MaxLinks makes the call fail.                  *)
Follow(x) ==
  LET at[n \in 0 .. MaxLinks] == IF n = 0 THEN x ELSE FollowOne(at[n - 1])
  IN  at[MaxLinks]

(* Lstat, mkdir and unlink leave the last segment as it is.                 *)
FollowDir(x) == Append(Follow(Front(x)), Last(x))

(* fsutil.JoinSecure: at each segment one link is followed, a missing       *)
(* segment is kept.                                                         *)
Walk(cur, name) ==
  LET next == Append(cur, name)
  IN  IF Node(FollowDir(next)) = Link THEN LinkTarget[FollowDir(next)] ELSE next

Joined(root, path) ==
  LET cur[k \in 0 .. Len(path)] == IF k = 0 THEN root ELSE Walk(cur[k - 1], path[k])
  IN  cur

JoinSecure(root, path) == Joined(root, path)[Len(path)]

(* Its checks: every step of the walk stays within the root.                *)
Within(root, path) == \A k \in 0 .. Len(path) : IsPrefix(root, Joined(root, path)[k])

(* What a request is for on the agent's volumes.                            *)
FullPath(q) == JoinSecure(DataRoot(q.pvc), Rewrite(q.pvc, q.url))
BadPath(q) == ~Within(DataRoot(q.pvc), Rewrite(q.pvc, q.url))

----------------------------------------------------------------------------
(* The panel: FilePanel.tsx.  It rests once no more requests are granted.  *)

OpenDir ==
  /\ budget["request"] > 0
  /\ \E x \in Children(panel.at) :
       /\ InitialTree[x] = Dir
       /\ panel' = [panel EXCEPT !.path = EntryPath(panel.pvc, @, Last(x)), !.at = x]
  /\ UNCHANGED <<readOnly, tree, data, clock, rq, uploaded, cached, budget>>

(* A breadcrumb stands for the directory as far above as it is to the left; *)
(* the first two of a rewritten path both stand for the volume's root.      *)
Breadcrumb ==
  /\ budget["request"] > 0
  /\ \E crumb \in Breadcrumbs(panel.path) :
       LET up == Len(panel.path) - Len(crumb)
           depth == IF crumb = << >> THEN 1 ELSE Len(panel.at) - up
       IN  panel' = [panel EXCEPT !.path = crumb, !.at = SubSeq(@, 1, depth)]
  /\ UNCHANGED <<readOnly, tree, data, clock, rq, uploaded, cached, budget>>

----------------------------------------------------------------------------
(* Requests.                                                               *)

Begin(r, op, pc, asked, url) ==
  /\ rq[r] = Idle
  /\ budget[op] > 0 /\ budget["request"] > 0
  /\ budget' = [budget EXCEPT ![op] = @ - 1, !["request"] = @ - 1]
  /\ rq' = [rq EXCEPT ![r] = [Idle EXCEPT !.op = op, !.pc = pc, !.pvc = panel.pvc,
                                          !.asked = asked, !.url = url]]
  /\ UNCHANGED <<readOnly, tree, data, clock, panel, uploaded, cached>>

(* What is shown is asked for: the entries by the path in the listing, the  *)
(* directory itself by the panel's path.                                    *)
AskEntry(r) ==
  \E x \in Children(panel.at) :
    \E ask \in {<<"delete", "resolve">>,
               IF InitialTree[x] = Dir THEN <<"upload", "mkdir">> ELSE <<"get", "open">>} :
      Begin(r, ask[1], ask[2], x, EntryPath(panel.pvc, panel.path, Last(x)))

AskDirectory(r) ==
  \E ask \in {<<"upload", "mkdir">>, <<"empty", "resolve">>} :
    Begin(r, ask[1], ask[2], panel.at, panel.path)

(* One of the calls that may fail, or of the kills, that are granted.        *)
SpendFault == budget["fault"] > 0 /\ budget' = [budget EXCEPT !["fault"] = @ - 1]

At(r, op, pc) == rq[r].op = op /\ rq[r].pc = pc

End(r) == rq' = [rq EXCEPT ![r] = Idle]

(* Files whose inode no path and no request refers to are forgotten.       *)
Referred(t, q) == {t[x] : x \in Paths} \cup {q[r].fd : r \in Requests}
Forget(d) == [i \in Inodes |-> IF i \in Referred(tree', rq') THEN d[i] ELSE NoFile]

(* A call fails: the answer is an error, what was done stays.  An upload    *)
(* that fails while it copies leaves its file as it is.                     *)
Fail(r) ==
  /\ rq[r] # Idle
  /\ SpendFault
  /\ End(r)
  /\ UNCHANGED <<readOnly, tree, clock, panel, uploaded, cached>>
  /\ data' = Forget([i \in Inodes |->
       IF At(r, "upload", "copy") /\ rq[r].fd = i THEN [data[i] EXCEPT !.torn = TRUE] ELSE data[i]])

Writers(i) == {r \in Requests : At(r, "upload", "copy") /\ rq[r].fd = i}

(* The Pod is killed: all requests end where they are.                     *)
Crash ==
  /\ SpendFault
  /\ rq' = [r \in Requests |-> Idle]
  /\ UNCHANGED <<readOnly, tree, clock, panel, uploaded, cached>>
  /\ data' = Forget([i \in Inodes |->
       IF Writers(i) # {} THEN [data[i] EXCEPT !.torn = TRUE] ELSE data[i]])

(* The file system's clock moves on.                                       *)
Tick ==
  /\ budget["tick"] > 0
  /\ budget' = [budget EXCEPT !["tick"] = @ - 1]
  /\ clock' = clock + 1
  /\ UNCHANGED <<readOnly, tree, data, panel, rq, uploaded, cached>>

(* A write request to a read-only agent is refused.                        *)
Forbidden(r) ==
  /\ readOnly
  /\ At(r, "upload", "mkdir") \/ At(r, "delete", "resolve") \/ At(r, "empty", "resolve")
  /\ End(r)
  /\ UNCHANGED <<readOnly, tree, data, clock, panel, uploaded, cached, budget>>

----------------------------------------------------------------------------
(* POST /v1/upload.                                                        *)

Made(full) == {SubSeq(full, 1, k) : k \in 1 .. Len(full)}

(* A directory of the path cannot be made: a file is in its place, or a     *)
(* link that does not lead to a directory.                                  *)
Blocked(full) ==
  \/ \E x \in Made(full) : Node(FollowDir(x)) = Link /\ Node(Follow(x)) # Dir
  \/ \E x \in Made(Follow(full)) : Node(x) \notin {Dir, Absent}

(* MkdirAll, before it is known whether there is a file in the form.  The   *)
(* form has been read in full by then: the order of uploads is settled.     *)
MkdirAll(r) ==
  LET full == FullPath(rq[r])
  IN
  /\ At(r, "upload", "mkdir")
  /\ ~readOnly
  /\ uploaded < Len(Uploads)
  /\ uploaded' = uploaded + 1
  /\ IF BadPath(rq[r]) \/ Blocked(full)
       THEN End(r) /\ UNCHANGED tree
       ELSE /\ tree' = [x \in Paths |-> IF x \in Made(Follow(full)) THEN Dir ELSE tree[x]]
            /\ rq' = [rq EXCEPT ![r].pc = "create", ![r].full = full, ![r].upload = uploaded',
                                ![r].todo = Uploads[uploaded'].names]
  /\ UNCHANGED <<readOnly, data, clock, panel, cached, budget>>

(* An inode for a new file; there may be none, as on a full volume.        *)
Free == Inodes \ Referred(tree, rq)
FreeInode == CHOOSE i \in Free : TRUE

(* Mutant: without O_TRUNC.                                                *)
MutOpened(r, i, old) ==
  /\ data' = [data EXCEPT ![i] = [@ EXCEPT !.mtime = clock, !.owner = rq[r].upload,
                                           !.torn = old # Absent /\ Writers(i) # {}]]
  /\ rq' = [rq EXCEPT ![r].pc = "copy", ![r].fd = i, ![r].size = 0]

(* O_CREATE and O_TRUNC: an existing file keeps its inode and loses its     *)
(* contents.                                                               *)
Opened(r, i, old) ==
  /\ data' = [data EXCEPT ![i] = [chunks |-> << >>, mtime |-> clock, owner |-> rq[r].upload,
                                  torn |-> old # Absent /\ Writers(i) # {}]]
  /\ rq' = [rq EXCEPT ![r].pc = "copy", ![r].fd = i, ![r].size = 0]

(* The name is joined to the upload's directory, whose links may not lead   *)
(* out of it, and opened: the kernel follows the links that are left, also   *)
(* to where nothing is yet.  It fails when the directory is gone, the name   *)
(* is not that of a file, or there is no room for a new one.                 *)
OpenFile(r) ==
  /\ At(r, "upload", "create")
  /\ rq[r].todo # << >>
  /\ LET name == <<Head(rq[r].todo)>>
         dst == Follow(JoinSecure(rq[r].full, name))
         old == Node(dst)
         i == IF old = Absent THEN FreeInode ELSE old
     IN  IF \/ ~Within(rq[r].full, name)
            \/ dst \notin Paths \/ Node(Front(dst)) # Dir \/ old \in {Dir, Link}
            \/ (old = Absent /\ Free = {})
           THEN End(r) /\ UNCHANGED <<tree, data>>
           ELSE Opened(r, i, old) /\ tree' = [tree EXCEPT ![dst] = i]
  /\ UNCHANGED <<readOnly, clock, panel, uploaded, cached, budget>>

(* One write of io.Copy, at the file's own offset (a hole reads as 0).     *)
WriteAt(chunks, k, c) ==
  [j \in 1 .. (IF k > Len(chunks) THEN k ELSE Len(chunks)) |->
     IF j = k THEN c ELSE IF j <= Len(chunks) THEN chunks[j] ELSE 0]

Copy(r) ==
  /\ At(r, "upload", "copy")
  /\ rq[r].size < Uploads[rq[r].upload].size
  /\ rq' = [rq EXCEPT ![r].size = @ + 1]
  /\ data' = [data EXCEPT ![rq[r].fd].chunks = WriteAt(@, rq[r].size + 1, rq[r].upload),
                          ![rq[r].fd].mtime = clock]
  /\ UNCHANGED <<readOnly, tree, clock, panel, uploaded, cached, budget>>

(* Close, and on to the next file of the form.                             *)
Close(r) ==
  /\ At(r, "upload", "copy")
  /\ rq[r].size = Uploads[rq[r].upload].size
  /\ rq' = [rq EXCEPT ![r].pc = "create", ![r].todo = Tail(@), ![r].fd = 0, ![r].size = 0]
  /\ UNCHANGED <<readOnly, tree, clock, panel, uploaded, cached, budget>>
  /\ data' = Forget(data)

(* 201, or 400 if there was no file.                                       *)
Created(r) ==
  /\ At(r, "upload", "create")
  /\ rq[r].todo = << >>
  /\ End(r)
  /\ UNCHANGED <<readOnly, tree, data, clock, panel, uploaded, cached, budget>>

Upload(r) == MkdirAll(r) \/ OpenFile(r) \/ Copy(r) \/ Close(r) \/ Created(r)

----------------------------------------------------------------------------
(* DELETE /v1/file and POST /v1/empty.                                     *)

(* What os.RemoveAll has left to remove.  A volume's root is a mount point  *)
(* and stays.                                                              *)
Left(top) == {x \in AtOrBelow(top) : tree[x] # Absent /\ Len(x) > 1}

(* Mutant: a directory goes before what is in it.                          *)
MutRemoveOne(top) == \E x \in Left(top) : tree' = [tree EXCEPT ![x] = Absent]

(* One step of os.RemoveAll: something below goes that has nothing below.  *)
RemoveOne(top) ==
  \E x \in Left(top) :
    /\ \A y \in Below(x) : tree[y] = Absent
    /\ tree' = [tree EXCEPT ![x] = Absent]

(* What JoinSecure returns is looked up by the kernel: its last segment is  *)
(* not followed.                                                           *)
ResolveDelete(r) ==
  /\ At(r, "delete", "resolve")
  /\ ~readOnly
  /\ IF BadPath(rq[r]) THEN End(r)
     ELSE rq' = [rq EXCEPT ![r].pc = "remove", ![r].full = FollowDir(FullPath(rq[r]))]
  /\ UNCHANGED <<readOnly, tree, data, clock, panel, uploaded, cached, budget>>

RemoveAll(r) ==
  /\ At(r, "delete", "remove")
  /\ IF Left(rq[r].full) = {}
       THEN End(r) /\ UNCHANGED tree
       ELSE RemoveOne(rq[r].full) /\ UNCHANGED rq
  /\ UNCHANGED <<readOnly, clock, panel, uploaded, cached, budget>>
  /\ data' = Forget(data)

(* Mutant: the directory itself is removed.                                *)
MutListed(full) == {full}

(* The names in a directory, at that moment.                               *)
Listed(full) == {x \in Children(full) : tree[x] # Absent}

(* Stat and ReadDir.                                                       *)
ReadDir(r) ==
  LET full == Follow(FullPath(rq[r]))
  IN
  /\ At(r, "empty", "resolve")
  /\ ~readOnly
  /\ IF BadPath(rq[r]) \/ Node(full) # Dir THEN End(r)
     ELSE rq' = [rq EXCEPT ![r].pc = "remove", ![r].full = full,
                           ![r].todo = SetToSeq(Listed(full))]
  /\ UNCHANGED <<readOnly, tree, data, clock, panel, uploaded, cached, budget>>

(* RemoveAll of each name; its errors are dropped and the answer is 204.   *)
Empty(r) ==
  /\ At(r, "empty", "remove")
  /\ \/ rq[r].todo = << >> /\ End(r) /\ UNCHANGED <<tree, budget>>
     \/ /\ rq[r].todo # << >>
        /\ Left(Head(rq[r].todo)) = {}
        /\ rq' = [rq EXCEPT ![r].todo = Tail(@)]
        /\ UNCHANGED <<tree, budget>>
     \/ rq[r].todo # << >> /\ RemoveOne(Head(rq[r].todo)) /\ UNCHANGED <<rq, budget>>
     \/ /\ rq[r].todo # << >>
        /\ SpendFault
        /\ rq' = [rq EXCEPT ![r].todo = Tail(@)]
        /\ UNCHANGED tree
  /\ UNCHANGED <<readOnly, clock, panel, uploaded, cached>>
  /\ data' = Forget(data)

----------------------------------------------------------------------------
(* GET /v1/file.                                                           *)

Open(r) ==
  LET node == Node(Follow(FullPath(rq[r])))
  IN
  /\ At(r, "get", "open")
  /\ IF BadPath(rq[r]) \/ node <= 0 THEN End(r)
     ELSE rq' = [rq EXCEPT ![r].pc = "stat", ![r].fd = node]
  /\ UNCHANGED <<readOnly, tree, data, clock, panel, uploaded, cached, budget>>

(* Mutant: a tag made of the size alone.                                   *)
MutETag(file) == <<0, Len(file.chunks)>>

ETag(file) == <<file.mtime, Len(file.chunks)>>

CachedTag(q) ==
  IF cached.asked = q.asked THEN <<cached.mtime, cached.size>> ELSE << >>

(* Stat: 304 if the tag is the one in If-None-Match.                       *)
NotModified(r) ==
  /\ At(r, "get", "stat")
  /\ ETag(data[rq[r].fd]) = CachedTag(rq[r])
  /\ End(r)
  /\ UNCHANGED <<readOnly, tree, clock, panel, uploaded, cached, budget>>
  /\ data' = Forget(data)

(* The path that a request for x leads to: JoinSecure follows a link at its *)
(* last segment, the kernel the rest.                                       *)
Place(x) == Follow(FollowOne(x))

SendHeader(r) ==
  LET file == data[rq[r].fd]
      tag == ETag(file)
  IN
  /\ At(r, "get", "stat")
  /\ tag # CachedTag(rq[r])
  /\ rq' = [rq EXCEPT ![r].pc = "send", ![r].mtime = tag[1], ![r].size = tag[2],
                      ![r].sure = file.mtime < clock /\ Node(Place(rq[r].asked)) = rq[r].fd]
  /\ UNCHANGED <<readOnly, tree, data, clock, panel, uploaded, cached, budget>>

(* io.Copy from the open file, up to the Content-Length.                   *)
Send(r) ==
  LET file == data[rq[r].fd]
      next == Len(rq[r].body) + 1
  IN
  /\ At(r, "get", "send")
  /\ next <= rq[r].size /\ next <= Len(file.chunks)
  /\ rq' = [rq EXCEPT ![r].body = Append(@, file.chunks[next])]
  /\ UNCHANGED <<readOnly, tree, data, clock, panel, uploaded, cached, budget>>

(* The body is complete, or the file has become shorter than announced and  *)
(* the browser drops what it got.                                           *)
Sent(r) ==
  /\ At(r, "get", "send")
  /\ Len(rq[r].body) >= rq[r].size \/ Len(rq[r].body) >= Len(data[rq[r].fd].chunks)
  /\ cached' = IF Len(rq[r].body) = rq[r].size
               THEN [asked |-> rq[r].asked, mtime |-> rq[r].mtime, size |-> rq[r].size,
                     sure |-> rq[r].sure, body |-> rq[r].body]
               ELSE cached
  /\ End(r)
  /\ UNCHANGED <<readOnly, tree, clock, panel, uploaded, budget>>
  /\ data' = Forget(data)

Download(r) == Open(r) \/ NotModified(r) \/ SendHeader(r) \/ Send(r) \/ Sent(r)

----------------------------------------------------------------------------

Ask(r) == AskEntry(r) \/ AskDirectory(r)
Remover(r) == ResolveDelete(r) \/ RemoveAll(r) \/ ReadDir(r) \/ Empty(r)

Next ==
  \/ OpenDir \/ Breadcrumb \/ Crash \/ Tick
  \/ \E r \in Requests :
       Ask(r) \/ Fail(r) \/ Forbidden(r) \/ Upload(r) \/ Remover(r) \/ Download(r)

Spec == Init /\ [][Next]_vars

----------------------------------------------------------------------------
(* Properties.                                                             *)

(* The shape of the tree: what exists is in a directory that exists.       *)
TypeOK ==
  /\ \A x \in Paths : /\ tree[x] \in {Absent, Dir, Link} \cup Inodes
                      /\ tree[x] # Absent /\ Len(x) > 1 => tree[Front(x)] = Dir
  /\ \A x, y \in Paths : tree[x] > 0 /\ tree[x] = tree[y] => x = y

(* Nothing is torn but by a failure or a second writer: a file that nobody  *)
(* is writing, whose last upload neither failed nor overlapped another one   *)
(* of the same name, holds that upload and nothing of older contents,        *)
(* whatever was deleted, emptied or created again meanwhile.                 *)
UploadsWhole ==
  \A x \in Paths :
    LET file == data[tree[x]]
    IN  tree[x] > 0 /\ Writers(tree[x]) = {} /\ ~file.torn /\ file.owner > 0 =>
          file.chunks = [k \in 1 .. Uploads[file.owner].size |-> file.owner]

(* A tag names contents: the file that the path of a complete download      *)
(* leads to has the downloaded contents as long as it has the tag, so that   *)
(* a 304 is true, if the tag was that of a past tick of the file system's    *)
(* clock and its file was the one at the path when the agent took it.        *)
TagNamesContents ==
  LET i == Node(Place(cached.asked))
  IN  cached.sure /\ i > 0 /\ ETag(data[i]) = <<cached.mtime, cached.size>> =>
        data[i].chunks = cached.body

(* Routing, listing and joining agree: the panel's path leads the agent to  *)
(* the directory that the user has opened, also when a directory has the    *)
(* name of its PVC.                                                         *)
PanelShowsItsDirectory == Routed(panel.pvc, panel.path) = panel.at

(* The entry itself, and all that it leads to through symbolic links.       *)
Closed(S) ==
  \A x \in S : \A k \in 1 .. Len(x) : SubSeq(x, 1, k) \in DOMAIN LinkTarget => Redirect(x, k) \in S
ClosedSets == {S \in SUBSET Paths : Closed(S)}
Aims == [x \in Paths |-> {y \in Paths : \A S \in ClosedSets : x \in S => y \in S}]

(* What a running request may change.  Links are followed: what they point  *)
(* to is deleted or written.                                                *)
Asked(r, x) ==
  CASE rq[r].op = "delete" -> \E y \in Aims[rq[r].asked] : x \in AtOrBelow(y)
    [] rq[r].op = "empty"  -> x \in Below(rq[r].asked)
    [] rq[r].op = "upload" -> \/ \E y \in Children(rq[r].asked) : x \in Aims[y]
                              \/ IsPrefix(x, rq[r].asked)
    [] OTHER               -> FALSE

(* What is at a path, with its contents if it is a file.                    *)
Seen(x) == <<tree[x], IF tree[x] > 0 THEN data[tree[x]].chunks ELSE << >> >>

(* What a user asked for is all that changes: entries go only at the entry   *)
(* (or at what it leads to) or below the directory of a running request for  *)
(* it, files and folders appear and files are written only for an upload and *)
(* where it goes, a directory that is emptied stays, a read-only agent       *)
(* changes nothing.                                                          *)
OnlyAskedChanges ==
  [][\A x \in Paths : Seen(x)' # Seen(x) =>
       /\ ~readOnly
       /\ \E r \in Requests : /\ Asked(r, x)
                              /\ tree'[x] = Absent <=> rq[r].op \in {"delete", "empty"}]_vars

(* Whatever the directory in the panel holds by now, paging through it with *)
(* two entries a page, where the panel takes 200, shows each entry once     *)
(* (handleTree's windows against FilePanel's buttons).                     *)
PagesShowAll == PagesCover(Cardinality(Listed(panel.at)), 2)

(* Of the file that a download is about to send, every part that a client   *)
(* can name in a Range header is what it gets (parseRange).                 *)
RangesExact ==
  \A r \in Requests : rq[r].op = "get" /\ rq[r].pc = "send" =>
    \A first, last \in -1 .. MaxInt + 1 : RangeExact(first, last, rq[r].size)
=============================================================================
