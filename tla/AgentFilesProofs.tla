-------------------------- MODULE AgentFilesProofs --------------------------
(***************************************************************************)
(* Proofs about AgentFiles and Routing, for any volumes, uploads, numbers   *)
(* of requests and budgets: what the panel shows is what the agent opens,   *)
(* uploads are whole, ranges and pages are exact.                           *)
(***************************************************************************)
EXTENDS AgentFiles, SequenceTheorems, FiniteSetTheorems, TLAPS

----------------------------------------------------------------------------
(* Ranges and pages.                                                       *)

(* Every well-formed Range header of a file of any size (http_handlers.go,  *)
(* parseRange) is answered with the bytes that it names, or refused if it    *)
(* names none or a number is over int64; to a suffix of an empty file the    *)
(* answer is that of no bytes.                                              *)
THEOREM RangeExactTheorem ==
  \A size \in Nat, first, last \in Nat \cup {-1} : RangeExact(first, last, size)
<1> SUFFICES ASSUME NEW size \in Nat, NEW first \in Nat \cup {-1}, NEW last \in Nat \cup {-1}
             PROVE  RangeExact(first, last, size)
  OBVIOUS
<1> DEFINE r == ParseRange(first, last, size)
           named == NamedBytes(first, last, size)
<1>0. MaxInt \in Nat
  BY IntAssumption
<1>1. CASE Refused(first, last, size)
  <2>1. r = NoRange
    BY <1>1 DEF ParseRange
  <2>2. ~r.ok
    BY <2>1 DEF NoRange
  <2>3. ASSUME first <= MaxInt, last <= MaxInt
        PROVE  named = {} /\ ~(first = -1 /\ last > 0 /\ size = 0)
    <3>1. IF first = -1 THEN last <= 0 ELSE first >= size \/ last \in 0 .. first - 1
      BY <1>0, <1>1, <2>3 DEF Refused
    <3>2. ASSUME NEW b \in named PROVE FALSE
      BY <3>1, <3>2 DEF NamedBytes
    <3> QED
      BY <3>1, <3>2
  <2> QED
    BY <2>2, <2>3 DEF RangeExact
<1>2. CASE ~Refused(first, last, size) /\ first = -1
  <2>1. r = Satisfied(IF last > size THEN 0 ELSE size - last, size)
    BY <1>2 DEF ParseRange
  <2>2. r.ok /\ r.start = (IF last > size THEN 0 ELSE size - last) /\ r.end = size
    BY <2>1 DEF Satisfied
  <2>3. last \in Nat \ {0} /\ first <= MaxInt /\ last <= MaxInt
    BY <1>0, <1>2 DEF Refused
  <2>4. ASSUME NEW b \in Int
        PROVE  b \in r.start .. r.end - 1 <=> b \in named
    BY <1>2, <2>2, <2>3 DEF NamedBytes
  <2>5. r.start .. r.end - 1 = named
    BY <2>2, <2>3, <2>4 DEF NamedBytes
  <2>6. size > 0 => size - 1 \in named
    BY <1>2, <2>3 DEF NamedBytes
  <2>7. named # {} \/ (first = -1 /\ last > 0 /\ size = 0)
    BY <1>2, <2>3, <2>6
  <2> QED
    BY <2>2, <2>3, <2>5, <2>7 DEF RangeExact
<1>3. CASE ~Refused(first, last, size) /\ first # -1
  <2>1. r = Satisfied(first, IF last = -1 \/ last >= size THEN size ELSE last + 1)
    BY <1>3 DEF ParseRange
  <2>2. r.ok /\ r.start = first /\ r.end = (IF last = -1 \/ last >= size THEN size ELSE last + 1)
    BY <2>1 DEF Satisfied
  <2>3. ASSUME NEW b \in Int
        PROVE  b \in r.start .. r.end - 1 <=> b \in named
    BY <1>3, <2>2 DEF NamedBytes
  <2>4. r.start .. r.end - 1 = named
    BY <1>3, <2>2, <2>3 DEF NamedBytes
  <2>5. first \in named
    BY <1>3 DEF NamedBytes, Refused
  <2>6. first <= MaxInt /\ last <= MaxInt
    BY <1>0, <1>3 DEF Refused
  <2> QED
    BY <2>2, <2>4, <2>5, <2>6 DEF RangeExact
<1> QED
  BY <1>1, <1>2, <1>3

(* Division with remainder.                                                *)
LEMMA Divide ==
  ASSUME NEW m \in Nat, NEW limit \in Nat \ {0}
  PROVE  \E k \in 0 .. m : limit * k <= m /\ m < limit * k + limit
<1> DEFINE q == m \div limit
<1>1. q \in Int /\ limit * q <= m /\ m < limit * q + limit
  BY SMTT(30)
<1>2. q >= 0
  BY <1>1, SMTT(30)
<1>3. q <= m
  BY <1>1, <1>2, SMTT(30)
<1>4. q \in 0 .. m
  BY <1>1, <1>2, <1>3
<1> QED
  <2> HIDE DEF q
  <2> QED
    BY <1>1, <1>4

LEMMA Multiples ==
  ASSUME NEW x \in Nat, NEW y \in Nat, NEW limit \in Nat, x < y
  PROVE  limit * x + limit <= limit * y
  BY SMTT(30)

(* Paging through a directory of any size in steps of any limit that is     *)
(* allowed shows each entry exactly once (http_handlers.go:98-105,          *)
(* FilePanel.tsx:57-58, 186).                                              *)
THEOREM PagesCoverTheorem == \A n \in Nat, limit \in 1 .. 1000 : PagesCover(n, limit)
<1> SUFFICES ASSUME NEW n \in Nat, NEW limit \in 1 .. 1000, NEW i \in 1 .. n
             PROVE  /\ \E offset \in PanelOffsets(n, limit) : i \in Page(n, offset, limit)
                    /\ \A a, b \in PanelOffsets(n, limit) :
                         i \in Page(n, a, limit) /\ i \in Page(n, b, limit) => a = b
  BY DEF PagesCover
<1>1. PageLimit(limit) = limit
  BY DEF PageLimit
<1>2. \E offset \in PanelOffsets(n, limit) : i \in Page(n, offset, limit)
  <2>1. i - 1 \in Nat /\ limit \in Nat \ {0}
    OBVIOUS
  <2>2. PICK k \in 0 .. i - 1 : limit * k <= i - 1 /\ i - 1 < limit * k + limit
    BY <2>1, Divide
  <2>3. PICK offset \in Nat : offset = limit * k
    <3>1. limit * k \in Nat
      BY <2>1, <2>2, SMTT(30)
    <3> QED
      BY <3>1
  <2>4. offset \in PanelOffsets(n, limit)
    <3>1. offset < n /\ k \in 0 .. n
      BY <2>2, <2>3
    <3> QED
      BY <2>3, <3>1 DEF PanelOffsets
  <2>5. i \in Page(n, offset, limit)
    BY <1>1, <2>2, <2>3 DEF Page
  <2> QED
    BY <2>4, <2>5
<1>3. ASSUME NEW a \in PanelOffsets(n, limit), NEW b \in PanelOffsets(n, limit),
             i \in Page(n, a, limit), i \in Page(n, b, limit)
      PROVE  a = b
  <2>1. PICK j \in 0 .. n, k \in 0 .. n : a = limit * j /\ b = limit * k /\ a \in Nat /\ b \in Nat
    BY DEF PanelOffsets
  <2>2. a < i /\ i <= a + limit /\ b < i /\ i <= b + limit
    BY <1>1, <1>3, <2>1 DEF Page
  <2>3. ~ j < k
    BY <2>1, <2>2, Multiples
  <2>4. ~ k < j
    BY <2>1, <2>2, Multiples
  <2>5. j = k
    BY <2>3, <2>4
  <2> QED
    BY <2>1, <2>5
<1> QED
  BY <1>2, <1>3

----------------------------------------------------------------------------
(* The panel and the directory it stands for.                               *)

(* In agent-per-namespace mode a path in the panel is the volume's root or   *)
(* begins with the PVC, also below a directory of the PVC's name: a listing  *)
(* gives it that prefix and a breadcrumb keeps it.                           *)
PanelInv ==
  /\ panel \in [pvc : Pvcs, path : Seq(STRING), at : Seq(STRING)]
  /\ Mode = "agent-per-namespace" /\ panel.path # << >> => panel.path[1] = panel.pvc
  /\ Routed(panel.pvc, panel.path) = panel.at

(* Sequences of one element, and of none.                                   *)
LEMMA Singleton ==
  ASSUME NEW S, NEW v \in S
  PROVE  <<v>> \in Seq(S) /\ Len(<<v>>) = 1 /\ <<v>>[1] = v
  OBVIOUS

LEMMA EmptySides ==
  ASSUME NEW S, NEW s \in Seq(S)
  PROVE  << >> \o s = s /\ s \o << >> = s
  OBVIOUS

LEMMA FirstSegment ==
  ASSUME NEW S, NEW s \in Seq(S), Len(s) >= 1
  PROVE  SubSeq(s, 1, 1) = <<s[1]>>
<1> DEFINE t == SubSeq(s, 1, 1)
<1>1. t \in Seq(S) /\ Len(t) = 1 /\ t[1] = s[1]
  OBVIOUS
<1> HIDE DEF t
<1>2. s[1] \in S
  OBVIOUS
<1> DEFINE u == <<s[1]>>
<1>3. u \in Seq(S) /\ Len(u) = 1 /\ u[1] = s[1]
  BY <1>2, Singleton
<1> HIDE DEF u
<1>4. Len(t) = Len(u) /\ \A i \in 1 .. Len(t) : t[i] = u[i]
  BY <1>1, <1>3
<1>5. t = u
  BY <1>1, <1>3, <1>4, SeqEqual
<1> QED
  BY <1>5 DEF t, u

LEMMA PvcNames == Pvcs \subseteq STRING
  BY TreeAssumption

(* An entry of the directory that is shown is the directory and its name.   *)
LEMMA ChildIsEntry ==
  ASSUME NEW dir \in Seq(STRING), NEW x \in Children(dir)
  PROVE  Last(x) \in STRING /\ x = Append(dir, Last(x)) /\ x \in Seq(STRING)
<1>1. /\ x \in Seq(STRING) /\ Len(x) = Len(dir) + 1
      /\ SubSeq(dir, 1, Len(dir)) = SubSeq(x, 1, Len(dir))
  BY TreeAssumption DEF Children, Below, IsStrictPrefix, IsPrefix
<1>2. Last(x) = x[Len(dir) + 1] /\ Last(x) \in STRING
  BY <1>1 DEF Last
<1>3. ASSUME NEW k \in 1 .. Len(dir)
      PROVE  x[k] = dir[k]
  <2>1. SubSeq(dir, 1, Len(dir))[k] = dir[k] /\ SubSeq(x, 1, Len(dir))[k] = x[k]
    BY <1>1
  <2> QED
    BY <1>1, <2>1
<1>4. x = Append(dir, Last(x))
  <2>1. Len(Append(dir, Last(x))) = Len(x)
    BY <1>1, <1>2
  <2>2. ASSUME NEW k \in 1 .. Len(x)
        PROVE  x[k] = Append(dir, Last(x))[k]
    BY <1>1, <1>2, <1>3, <2>2
  <2> QED
    BY <1>1, <1>2, <2>1, <2>2
<1> QED
  BY <1>1, <1>2, <1>4

(* Prefixing commutes with appending a name, and keeps the panel's form.    *)
LEMMA RoutedEntry ==
  ASSUME NEW v \in STRING, NEW path \in Seq(STRING), NEW name \in STRING,
         Mode = "agent-per-namespace" /\ path # << >> => path[1] = v
  PROVE  /\ EntryPath(v, path, name) \in Seq(STRING) \ {<< >>}
         /\ Mode = "agent-per-namespace" => EntryPath(v, path, name)[1] = v
         /\ Routed(v, EntryPath(v, path, name)) = Append(Routed(v, path), name)
<1>1. CASE Mode # "agent-per-namespace"
  <2>1. Rewrite(v, path) = path /\ EntryPath(v, path, name) = Append(path, name)
    BY <1>1 DEF Rewrite, EntryPath
  <2>2. Routed(v, path) = <<v>> \o path /\ Routed(v, Append(path, name)) = <<v>> \o Append(path, name)
    BY <1>1 DEF Routed, DataRoot, Rewrite
  <2>3. <<v>> \o Append(path, name) = Append(<<v>> \o path, name)
    OBVIOUS
  <2> QED
    BY <1>1, <2>1, <2>2, <2>3
<1>2. CASE Mode = "agent-per-namespace"
  <2> DEFINE full == Rewrite(v, path)
  <2>1. full \in Seq(STRING) /\ full # << >> /\ full[1] = v
    <3>1. CASE path = << >>
      BY <1>2, <3>1 DEF Rewrite
    <3>2. CASE path # << >>
      BY <1>2, <3>2 DEF Rewrite
    <3> QED
      BY <3>1, <3>2
  <2>2. EntryPath(v, path, name) = Append(full, name)
    BY DEF EntryPath
  <2>3. Append(full, name) \in Seq(STRING) /\ Append(full, name) # << >> /\ Append(full, name)[1] = v
    BY <2>1
  <2>4. Rewrite(v, Append(full, name)) = Append(full, name)
    BY <1>2, <2>3 DEF Rewrite
  <2>5. Routed(v, Append(full, name)) = << >> \o Append(full, name) /\ Routed(v, path) = << >> \o full
    BY <1>2, <2>4 DEF Routed, DataRoot
  <2> QED
    BY <1>2, <2>1, <2>2, <2>3, <2>5
<1> QED
  BY <1>1, <1>2

LEMMA PanelInit == Init => PanelInv
<1> SUFFICES ASSUME Init PROVE PanelInv
  OBVIOUS
<1>1. PICK v \in Pvcs : panel = [pvc |-> v, path |-> << >>, at |-> <<v>>]
  BY DEF Init
<1>2. v \in STRING
  BY PvcNames
<1>3. Routed(v, << >>) = <<v>>
  <2>1. CASE Mode = "agent-per-namespace"
    <3>1. Routed(v, << >>) = << >> \o (<<v>> \o << >>)
      BY <2>1 DEF Routed, DataRoot, Rewrite
    <3>2. <<v>> \in Seq(STRING)
      BY <1>2, Singleton
    <3> QED
      BY <3>1, <3>2, EmptySides
  <2>2. CASE Mode # "agent-per-namespace"
    <3>1. Routed(v, << >>) = <<v>> \o << >>
      BY <2>2 DEF Routed, DataRoot, Rewrite
    <3>2. <<v>> \in Seq(STRING)
      BY <1>2, Singleton
    <3> QED
      BY <3>1, <3>2, EmptySides
  <2> QED
    BY <2>1, <2>2
<1> QED
  BY <1>1, <1>2, <1>3 DEF PanelInv

LEMMA PanelOpens == PanelInv /\ OpenDir => PanelInv'
<1> SUFFICES ASSUME PanelInv, OpenDir PROVE PanelInv'
  OBVIOUS
<1> DEFINE v == panel.pvc
<1>1. PICK x \in Children(panel.at) :
        panel' = [panel EXCEPT !.path = EntryPath(v, @, Last(x)), !.at = x]
  BY DEF OpenDir
<1>2. v \in Pvcs /\ v \in STRING /\ panel.path \in Seq(STRING) /\ panel.at \in Seq(STRING)
  BY PvcNames DEF PanelInv
<1>3. Last(x) \in STRING /\ x = Append(panel.at, Last(x)) /\ x \in Seq(STRING)
  BY <1>2, ChildIsEntry
<1> DEFINE next == EntryPath(v, panel.path, Last(x))
<1>4. /\ next \in Seq(STRING)
      /\ Mode = "agent-per-namespace" => next[1] = v
      /\ Routed(v, next) = Append(Routed(v, panel.path), Last(x))
  <2>1. Mode = "agent-per-namespace" /\ panel.path # << >> => panel.path[1] = v
    BY DEF PanelInv
  <2> HIDE DEF v
  <2> QED
    BY <1>2, <1>3, <2>1, RoutedEntry
<1>5. panel' = [pvc |-> v, path |-> next, at |-> x]
  BY <1>1 DEF PanelInv
<1> HIDE DEF next
<1> QED
  BY <1>2, <1>3, <1>4, <1>5 DEF PanelInv

LEMMA PanelGoesUp == PanelInv /\ Breadcrumb => PanelInv'
<1> SUFFICES ASSUME PanelInv, Breadcrumb PROVE PanelInv'
  OBVIOUS
<1> DEFINE v == panel.pvc
           path == panel.path
           at == panel.at
<1>1. v \in Pvcs /\ v \in STRING /\ path \in Seq(STRING) /\ at \in Seq(STRING)
  BY PvcNames DEF PanelInv
<1>2. PICK k \in 0 .. Len(path) :
        panel' = [panel EXCEPT
          !.path = SubSeq(path, 1, k),
          !.at = SubSeq(at, 1, IF SubSeq(path, 1, k) = << >> THEN 1
                               ELSE Len(at) - (Len(path) - Len(SubSeq(path, 1, k))))]
  BY DEF Breadcrumb, Breadcrumbs
<1> DEFINE crumb == SubSeq(path, 1, k)
           up == SubSeq(at, 1, IF crumb = << >> THEN 1 ELSE Len(at) - (Len(path) - Len(crumb)))
<1>3. crumb \in Seq(STRING) /\ Len(crumb) = k /\ (crumb = << >> <=> k = 0)
  BY <1>1
<1>4. /\ Mode = "agent-per-namespace" /\ crumb # << >> => crumb[1] = v
      /\ up \in Seq(STRING)
      /\ Routed(v, crumb) = up
  <2>1. CASE Mode = "agent-per-namespace" /\ path # << >>
    <3>1. path[1] = v /\ at = << >> \o path
      BY <2>1 DEF PanelInv, Routed, DataRoot, Rewrite
    <3>2. at = path
      BY <1>1, <3>1
    <3>3. k # 0 => crumb[1] = v /\ up = crumb
      BY <1>1, <1>3, <2>1, <3>1, <3>2
    <3>4. k = 0 => up = <<v>>
      <4> SUFFICES ASSUME k = 0 PROVE up = <<v>>
        OBVIOUS
      <4>1. up = SubSeq(at, 1, 1)
        BY <1>3
      <4>2. at \in Seq(STRING) /\ Len(at) >= 1 /\ at[1] = v
        BY <1>1, <2>1, <3>1, <3>2
      <4> HIDE DEF at, v, up
      <4> QED
        BY <4>1, <4>2, FirstSegment
    <3>5. Rewrite(v, crumb) = (IF k = 0 THEN <<v>> \o crumb ELSE crumb)
      BY <1>3, <2>1, <3>3 DEF Rewrite
    <3>6. Routed(v, crumb) = (IF k = 0 THEN << >> \o (<<v>> \o crumb) ELSE << >> \o crumb)
      BY <2>1, <3>5 DEF Routed, DataRoot
    <3>7. CASE k = 0
      <4>1. Routed(v, crumb) = << >> \o (<<v>> \o << >>) /\ crumb = << >> /\ up = <<v>>
        BY <1>3, <3>4, <3>6, <3>7
      <4> HIDE DEF crumb, up, v
      <4> QED
        BY <1>1, <4>1
    <3>8. CASE k # 0
      <4>1. Routed(v, crumb) = << >> \o crumb /\ crumb[1] = v /\ up = crumb
        BY <3>3, <3>6, <3>8
      <4> HIDE DEF crumb, up, v
      <4> QED
        BY <1>1, <1>3, <4>1
    <3> QED
      BY <3>7, <3>8
  <2>2. CASE Mode # "agent-per-namespace" \/ path = << >>
    <3>1. at = <<v>> \o path
      <4>1. CASE Mode # "agent-per-namespace"
        BY <4>1 DEF PanelInv, Routed, DataRoot, Rewrite
      <4>2. CASE Mode = "agent-per-namespace" /\ path = << >>
        <5>1. at = << >> \o (<<v>> \o path)
          BY <4>2 DEF PanelInv, Routed, DataRoot, Rewrite
        <5> QED
          BY <1>1, <5>1
      <4> QED
        BY <2>2, <4>1, <4>2
    <3>2. Routed(v, crumb) = <<v>> \o crumb
      <4>1. CASE Mode # "agent-per-namespace"
        BY <4>1 DEF Routed, DataRoot, Rewrite
      <4>2. CASE Mode = "agent-per-namespace" /\ path = << >>
        <5>1. crumb = << >>
          BY <1>1, <4>2
        <5>2. Routed(v, crumb) = << >> \o (<<v>> \o crumb)
          BY <4>2, <5>1 DEF Routed, DataRoot, Rewrite
        <5> QED
          BY <1>1, <1>3, <5>2
      <4> QED
        BY <2>2, <4>1, <4>2
    <3>3. Len(at) = Len(path) + 1
      BY <1>1, <3>1
    <3>4. up = SubSeq(at, 1, k + 1)
      <4>1. Len(at) - (Len(path) - Len(crumb)) = k + 1
        <5> HIDE DEF at, path, crumb
        <5> QED
          BY <1>1, <1>3, <3>3
      <4>2. up = SubSeq(at, 1, IF crumb = << >> THEN 1 ELSE k + 1)
        BY <4>1
      <4> HIDE DEF crumb, up
      <4> QED
        BY <1>3, <4>2
    <3>5. SubSeq(at, 1, k + 1) = <<v>> \o crumb
      BY <1>1, <3>1, <3>3
    <3>6. Mode = "agent-per-namespace" => crumb = << >>
      BY <1>1, <2>2
    <3>7. up = <<v>> \o crumb
      BY <3>4, <3>5
    <3> HIDE DEF up, crumb, v
    <3> QED
      BY <1>1, <1>3, <3>2, <3>6, <3>7
  <2> QED
    BY <2>1, <2>2
<1>5. panel' = [pvc |-> v, path |-> crumb, at |-> up]
  BY <1>2 DEF PanelInv
<1> HIDE DEF crumb, up
<1> QED
  BY <1>1, <1>3, <1>4, <1>5 DEF PanelInv

LEMMA PanelInvariance == Spec => []PanelInv
<1>1. PanelInv /\ [Next]_vars => PanelInv'
  <2> SUFFICES ASSUME PanelInv, [Next]_vars PROVE PanelInv'
    OBVIOUS
  <2>1. CASE UNCHANGED panel
    BY <2>1 DEF PanelInv
  <2>2. CASE OpenDir
    BY <2>2, PanelOpens
  <2>3. CASE Breadcrumb
    BY <2>3, PanelGoesUp
  <2>4. ASSUME Next, ~OpenDir, ~Breadcrumb
        PROVE  UNCHANGED panel
    BY <2>4 DEF Next, Crash, Tick, Ask, AskEntry, AskDirectory, Begin, Fail, Forbidden,
                Upload, MkdirAll, OpenFile, Copy, Close, Created,
                Remover, ResolveDelete, RemoveAll, ReadDir, Empty,
                Download, Open, NotModified, SendHeader, Send, Sent
  <2>5. UNCHANGED vars => UNCHANGED panel
    BY DEF vars
  <2> QED
    BY <2>1, <2>2, <2>3, <2>4, <2>5
<1> QED
  BY <1>1, PanelInit, PTL DEF Spec

(* Whatever is opened and whichever breadcrumb is taken, in both modes and   *)
(* with any names, the path in the panel leads the agent to the directory    *)
(* that the user has opened (computeRouting, main.go:219-235; handleTree;    *)
(* FilePanel.tsx:49-55).                                                    *)
THEOREM PanelShowsItsDirectoryTheorem == Spec => []PanelShowsItsDirectory
<1>1. PanelInv => PanelShowsItsDirectory
  BY DEF PanelInv, PanelShowsItsDirectory
<1> QED
  BY <1>1, PanelInvariance, PTL

----------------------------------------------------------------------------
(* Uploads: the inductive invariant.                                        *)

File == [chunks : Seq(Nat), mtime : Nat, owner : 0 .. Len(Uploads), torn : BOOLEAN]

Writes(q) == q.op = "upload" /\ q.pc = "copy"
Sends(q) == q.op = "get" /\ q.pc = "send"

(* A request's local variables, as far as they matter for the files.        *)
LocalOK(q) ==
  /\ DOMAIN q = DOMAIN Idle
  /\ q.upload \in 0 .. Len(Uploads)
  /\ q.fd \in {0} \cup Inodes
  /\ q.size \in Nat /\ q.mtime \in Nat /\ q.body \in Seq(Nat)
  /\ q.op = "upload" /\ q.pc \in {"create", "copy"} => q.upload > 0
  /\ Writes(q) => q.fd \in Inodes /\ q.size <= Uploads[q.upload].size
  /\ q.op = "get" /\ q.pc \in {"stat", "send"} => q.fd \in Inodes
  /\ ~Sends(q) => q.body = << >>

Typed ==
  /\ tree \in [Paths -> {Absent, Dir, Link} \cup Inodes]
  /\ data \in [Inodes -> File]
  /\ clock \in Nat /\ uploaded \in 0 .. Len(Uploads)
  /\ DOMAIN rq = Requests /\ \A r \in Requests : LocalOK(rq[r])

(* A file that is not torn has one writer, which has written what it holds, *)
(* or none, and holds all of its upload.                                    *)
WholeFile(i) ==
  LET file == data[i]
  IN  file.owner > 0 /\ ~file.torn =>
        \/ /\ Writers(i) = {}
           /\ file.chunks = [k \in 1 .. Uploads[file.owner].size |-> file.owner]
        \/ \E r \in Requests :
             /\ Writers(i) = {r} /\ rq[r].upload = file.owner
             /\ file.chunks = [k \in 1 .. rq[r].size |-> file.owner]

Whole == \A i \in Inodes : WholeFile(i)

(* A step after which a file is as it was, torn, or forgotten.              *)
Kept(i) ==
  \/ data'[i] = data[i]
  \/ data'[i] = [data[i] EXCEPT !.torn = TRUE]
  \/ data'[i] = NoFile /\ i \notin Referred(tree', rq')

LEMMA InodesAreInts == Inodes \subseteq Nat \ {0} /\ MaxInode \in Nat
  BY TreeAssumption DEF Inodes

LEMMA UploadsTyped ==
  /\ Len(Uploads) \in Nat
  /\ \A u \in 1 .. Len(Uploads) : Uploads[u].size \in Nat /\ Uploads[u].names \in Seq(STRING)
<1> DEFINE T == [names : Seq(STRING), size : Nat]
<1>1. Uploads \in Seq(T)
  BY UploadsAssumption
<1>2. \A u \in T : u.size \in Nat /\ u.names \in Seq(STRING)
  OBVIOUS
<1> HIDE DEF T
<1> QED
  BY <1>1, <1>2

LEMMA EmptyTyped == << >> \in Seq(Nat) /\ <<0, 0>> \in Seq(Nat) /\ Len(<< >>) = 0
  OBVIOUS

LEMMA IdleOK ==
  /\ LocalOK(Idle) /\ ~Writes(Idle) /\ ~Sends(Idle)
  /\ Idle.fd = 0 /\ Idle.op = "idle" /\ Idle.pc = "idle" /\ Idle.body = << >>
<1>1. /\ Idle.fd = 0 /\ Idle.op = "idle" /\ Idle.pc = "idle" /\ Idle.body = << >>
      /\ Idle.upload = 0 /\ Idle.size = 0 /\ Idle.mtime = 0
  BY DEF Idle
<1>2. ~Writes(Idle) /\ ~Sends(Idle)
  BY <1>1 DEF Writes, Sends
<1> QED
  BY <1>1, <1>2, UploadsTyped, EmptyTyped DEF LocalOK

LEMMA InitWhole == Init => Typed /\ Whole
<1> SUFFICES ASSUME Init PROVE Typed /\ Whole
  OBVIOUS
<1>1. data \in [Inodes -> File] /\ \A i \in Inodes : data[i].owner = 0
  <2> DEFINE one(i) == [NoFile EXCEPT !.chunks = <<0, 0>>, !.mtime = i]
  <2>1. NoFile \in File /\ NoFile.owner = 0
    BY EmptyTyped, UploadsTyped DEF NoFile, File
  <2>2. ASSUME NEW i \in Inodes
        PROVE  one(i) \in File /\ one(i).owner = 0
    <3>1. i \in Nat /\ <<0, 0>> \in Seq(Nat)
      BY EmptyTyped, InodesAreInts
    <3>2. one(i) \in File
      BY <2>1, <3>1 DEF File
    <3>3. one(i).owner = NoFile.owner
      BY DEF NoFile
    <3> QED
      BY <2>1, <3>2, <3>3
  <2>3. data = [i \in Inodes |-> IF \E x \in Paths : InitialTree[x] = i THEN one(i) ELSE NoFile]
    BY DEF Init
  <2> HIDE DEF one
  <2> QED
    BY <2>1, <2>2, <2>3
<1>2. DOMAIN rq = Requests /\ \A r \in Requests : LocalOK(rq[r])
  BY IdleOK DEF Init
<1> QED
  <2>1. Typed
    <3>1. tree \in [Paths -> {Absent, Dir, Link} \cup Inodes] /\ clock \in Nat
      BY TreeAssumption DEF Init
    <3>2. uploaded \in 0 .. Len(Uploads)
      <4>1. uploaded = 0
        BY DEF Init
      <4> QED
        BY <4>1, UploadsTyped
    <3> QED
      BY <1>1, <1>2, <3>1, <3>2 DEF Typed
  <2>2. Whole
    BY <1>1 DEF Whole, WholeFile
  <2> QED
    BY <2>1, <2>2

----------------------------------------------------------------------------
(* Steps that write nothing.                                                *)

LEMMA FileFields ==
  ASSUME NEW f \in File
  PROVE  f.chunks \in Seq(Nat) /\ f.mtime \in Nat /\ f.owner \in 0 .. Len(Uploads) /\ f.torn \in BOOLEAN
  BY DEF File

(* A file that has an owner and is not torn is as it was.                   *)
LEMMA KeptFile ==
  ASSUME Typed, NEW i \in Inodes, Kept(i), data'[i].owner > 0, ~data'[i].torn
  PROVE  data'[i] = data[i]
<1>1. data[i] \in File
  BY DEF Typed
<1>2. data'[i] = [data[i] EXCEPT !.torn = TRUE] => data'[i].torn = TRUE
  BY <1>1 DEF File
<1>3. data'[i] = NoFile => data'[i].owner = 0
  BY DEF NoFile
<1> QED
  BY <1>2, <1>3 DEF Kept

(* A file is whole as before if nobody has begun or ended to write it.       *)
LEMMA WholeFileKept ==
  ASSUME Typed, NEW i \in Inodes, WholeFile(i), Kept(i),
         data'[i] = data[i] /\ data[i].owner > 0 /\ ~data[i].torn =>
           Writers(i)' = Writers(i) /\ \A r \in Writers(i) : rq'[r] = rq[r]
  PROVE  WholeFile(i)'
<1> SUFFICES ASSUME data'[i].owner > 0, ~data'[i].torn
             PROVE  WholeFile(i)'
  BY DEF WholeFile
<1>1. data'[i] = data[i]
  BY KeptFile
<1>2. Writers(i)' = Writers(i) /\ \A r \in Writers(i) : rq'[r] = rq[r]
  BY <1>1
<1>4. data[i].owner > 0 /\ ~data[i].torn
  BY <1>1
<1> DEFINE file == data[i]
<1>5. CASE Writers(i) = {} /\ file.chunks = [k \in 1 .. Uploads[file.owner].size |-> file.owner]
  BY <1>1, <1>2, <1>5 DEF WholeFile
<1>6. ASSUME NEW r \in Requests, Writers(i) = {r}, rq[r].upload = file.owner,
             file.chunks = [k \in 1 .. rq[r].size |-> file.owner]
      PROVE  WholeFile(i)'
  <2>1. rq'[r] = rq[r] /\ Writers(i)' = {r}
    BY <1>2, <1>6
  <2> QED
    BY <1>1, <1>6, <2>1 DEF WholeFile
<1> QED
  BY <1>4, <1>5, <1>6 DEF WholeFile

(* The inductive invariant.                                                 *)
IInv == Typed /\ Whole

(* Forgetting keeps files.                                                  *)
LEMMA Forgets ==
  ASSUME Typed, NEW d \in [Inodes -> File], data' = d \/ data' = Forget(d)
  PROVE  /\ data' \in [Inodes -> File]
         /\ \A i \in Inodes : data'[i] = d[i] \/ (data'[i] = NoFile /\ i \notin Referred(tree', rq'))
<1>1. NoFile \in File
  BY EmptyTyped, UploadsTyped DEF NoFile, File
<1>2. CASE data' = d
  BY <1>2
<1>3. CASE data' = Forget(d)
  BY <1>1, <1>3 DEF Forget
<1> QED
  BY <1>2, <1>3

(* A step of one request that writes nothing, as to types.                   *)
LEMMA Steps ==
  ASSUME IInv, NEW r \in Requests,
         tree' \in [Paths -> {Absent, Dir, Link} \cup Inodes],
         uploaded' \in 0 .. Len(Uploads), clock' = clock,
         data' \in [Inodes -> File],
         DOMAIN rq' = Requests, \A s \in Requests \ {r} : rq'[s] = rq[s], LocalOK(rq'[r])
  PROVE  Typed'
<1>1. Typed
  BY DEF IInv
<1>2. ASSUME NEW s \in Requests
      PROVE  LocalOK(rq[s])'
  <2> SUFFICES LocalOK(rq'[s])
    BY DEF LocalOK, Writes, Sends
  <2>1. LocalOK(rq[s])
    BY <1>1 DEF Typed
  <2> QED
    BY <2>1
<1> QED
  BY <1>1, <1>2 DEF Typed

(* A step of a request that does not write, neither before nor after it.     *)
LEMMA Moves ==
  ASSUME IInv, NEW r \in Requests,
         tree' \in [Paths -> {Absent, Dir, Link} \cup Inodes],
         uploaded' \in 0 .. Len(Uploads), clock' = clock,
         data' = data \/ data' = Forget(data),
         DOMAIN rq' = Requests, \A s \in Requests \ {r} : rq'[s] = rq[s],
         LocalOK(rq'[r]), ~Writes(rq[r]), ~Writes(rq'[r])
  PROVE  IInv'
<1>1. Typed /\ Whole
  BY DEF IInv
<1>2. data' \in [Inodes -> File] /\ \A i \in Inodes : Kept(i)
  BY <1>1, Forgets DEF Typed, Kept
<1>3. Typed'
  BY <1>2, Steps
<1>4. \A i \in Inodes : Writers(i)' = Writers(i) /\ \A s \in Writers(i) : rq'[s] = rq[s]
  BY DEF Writers, At, Writes
<1>5. Whole'
  BY <1>1, <1>2, <1>4, WholeFileKept DEF Whole
<1> QED
  BY <1>3, <1>5 DEF IInv

----------------------------------------------------------------------------
(* The invariant under each action.                                         *)

LEMMA Fields == DOMAIN Idle = {"op", "pc", "pvc", "asked", "url", "full", "todo", "upload", "fd",
                               "mtime", "size", "sure", "body"}
  BY DEF Idle

LEMMA RqUpdate ==
  ASSUME Typed, NEW r \in Requests, NEW q, rq' = [rq EXCEPT ![r] = q]
  PROVE  DOMAIN rq' = Requests /\ rq'[r] = q /\ \A s \in Requests \ {r} : rq'[s] = rq[s]
  BY DEF Typed

(* A request that does not write ends.                                      *)
LEMMA EndKeeps ==
  ASSUME IInv, NEW r \in Requests, End(r), ~Writes(rq[r]),
         tree' \in [Paths -> {Absent, Dir, Link} \cup Inodes],
         uploaded' \in 0 .. Len(Uploads), clock' = clock,
         data' = data \/ data' = Forget(data)
  PROVE  IInv'
<1>1. DOMAIN rq' = Requests /\ rq'[r] = Idle /\ \A s \in Requests \ {r} : rq'[s] = rq[s]
  BY RqUpdate DEF IInv, End
<1>2. /\ LocalOK(rq'[r]) /\ ~Writes(rq'[r])
  BY <1>1, IdleOK
<1> QED
  BY <1>1, <1>2, Moves

LEMMA TreeKept ==
  ASSUME IInv, UNCHANGED tree
  PROVE  tree' \in [Paths -> {Absent, Dir, Link} \cup Inodes]
  BY DEF IInv, Typed

LEMMA UploadedKept == ASSUME IInv, UNCHANGED uploaded PROVE uploaded' \in 0 .. Len(Uploads)
  BY DEF IInv, Typed

LEMMA RemoveKeeps ==
  ASSUME IInv, NEW top, RemoveOne(top)
  PROVE  tree' \in [Paths -> {Absent, Dir, Link} \cup Inodes]
  BY DEF RemoveOne, Left, IInv, Typed

LEMMA AskKeeps == ASSUME IInv, NEW r \in Requests, Ask(r) PROVE IInv'
<1>1. PICK op, pc, asked, url :
        /\ op \in {"upload", "get", "delete", "empty"} /\ pc \in {"mkdir", "open", "resolve"}
        /\ Begin(r, op, pc, asked, url)
  BY DEF Ask, AskEntry, AskDirectory
<1> DEFINE q == [Idle EXCEPT !.op = op, !.pc = pc, !.pvc = panel.pvc, !.asked = asked, !.url = url]
<1>2. rq[r] = Idle /\ rq' = [rq EXCEPT ![r] = q] /\ UNCHANGED <<tree, data, clock, uploaded, cached>>
  BY <1>1 DEF Begin
<1>3. DOMAIN rq' = Requests /\ rq'[r] = q /\ \A s \in Requests \ {r} : rq'[s] = rq[s]
  <2> HIDE DEF q
  <2> QED
    BY <1>2, RqUpdate DEF IInv
<1>4. /\ DOMAIN q = DOMAIN Idle
      /\ q.op = op /\ q.pc = pc /\ q.upload = 0 /\ q.fd = 0 /\ q.size = 0 /\ q.mtime = 0 /\ q.body = << >>
  BY DEF Idle
<1> HIDE DEF q
<1>5. LocalOK(q) /\ ~Writes(q)
  BY <1>1, <1>4, UploadsTyped, EmptyTyped DEF LocalOK, Writes, Sends
<1>6. ~Writes(rq[r])
  BY <1>2, IdleOK
<1> QED
  BY <1>2, <1>3, <1>4, <1>5, <1>6, TreeKept, UploadedKept, Moves

LEMMA ForbiddenKeeps == ASSUME IInv, NEW r \in Requests, Forbidden(r) PROVE IInv'
  BY EndKeeps, TreeKept, UploadedKept DEF Forbidden, At, Writes

LEMMA CreatedKeeps == ASSUME IInv, NEW r \in Requests, Created(r) PROVE IInv'
  BY EndKeeps, TreeKept, UploadedKept DEF Created, At, Writes

LEMMA NotModifiedKeeps == ASSUME IInv, NEW r \in Requests, NotModified(r) PROVE IInv'
  BY EndKeeps, TreeKept, UploadedKept DEF NotModified, At, Writes

(* A request whose place in its handler is all that matters moves on.       *)
LEMMA PlaceMoves ==
  ASSUME IInv, NEW r \in Requests, NEW q, rq' = [rq EXCEPT ![r] = q],
         rq[r].op \in {"delete", "empty"}, q.op = rq[r].op, DOMAIN q = DOMAIN Idle,
         q.upload = rq[r].upload, q.fd = rq[r].fd, q.size = rq[r].size, q.mtime = rq[r].mtime,
         q.body = rq[r].body,
         tree' \in [Paths -> {Absent, Dir, Link} \cup Inodes],
         UNCHANGED <<clock, uploaded, cached>>, data' = data \/ data' = Forget(data)
  PROVE  IInv'
<1>1. LocalOK(rq[r])
  BY DEF IInv, Typed
<1>2. DOMAIN rq' = Requests /\ rq'[r] = q /\ \A s \in Requests \ {r} : rq'[s] = rq[s]
  BY RqUpdate DEF IInv
<1>3. LocalOK(q) /\ ~Writes(q) /\ ~Writes(rq[r])
  BY <1>1 DEF LocalOK, Writes, Sends
<1> QED
  BY <1>2, <1>3, UploadedKept, Moves

(* A step that leaves the requests as they are.                             *)
LEMMA RqStays ==
  ASSUME IInv, UNCHANGED <<rq, clock, uploaded, cached>>, NEW r \in Requests, ~Writes(rq[r]),
         tree' \in [Paths -> {Absent, Dir, Link} \cup Inodes],
         data' = data \/ data' = Forget(data)
  PROVE  IInv'
<1>1. DOMAIN rq' = Requests /\ LocalOK(rq'[r])
  BY DEF IInv, Typed
<1> QED
  BY <1>1, UploadedKept, Moves

LEMMA ResolveDeleteKeeps == ASSUME IInv, NEW r \in Requests, ResolveDelete(r) PROVE IInv'
<1> DEFINE q == [rq[r] EXCEPT !.pc = "remove", !.full = FollowDir(FullPath(rq[r]))]
<1>1. /\ rq[r].op = "delete" /\ ~Writes(rq[r])
      /\ UNCHANGED <<tree, data, clock, uploaded, cached>>
  BY DEF ResolveDelete, At, Writes
<1>2. CASE End(r)
  BY <1>1, <1>2, TreeKept, UploadedKept, EndKeeps
<1>3. CASE rq' = [rq EXCEPT ![r].pc = "remove", ![r].full = FollowDir(FullPath(rq[r]))]
  <2>1. LocalOK(rq[r])
    BY DEF IInv, Typed
  <2>2. rq' = [rq EXCEPT ![r] = q]
    BY <1>3
  <2>3. /\ DOMAIN q = DOMAIN Idle /\ q.op = rq[r].op /\ q.upload = rq[r].upload
        /\ q.fd = rq[r].fd /\ q.size = rq[r].size /\ q.mtime = rq[r].mtime /\ q.body = rq[r].body
    BY <1>1, <2>1, Fields DEF LocalOK
  <2> HIDE DEF q
  <2> QED
    BY <1>1, <2>2, <2>3, TreeKept, PlaceMoves
<1> QED
  BY <1>2, <1>3 DEF ResolveDelete

LEMMA RemoveAllKeeps == ASSUME IInv, NEW r \in Requests, RemoveAll(r) PROVE IInv'
<1>1. /\ rq[r].op = "delete" /\ ~Writes(rq[r]) /\ UNCHANGED <<clock, uploaded, cached>>
      /\ data' = Forget(data)
  BY DEF RemoveAll, At, Writes
<1>2. CASE End(r) /\ UNCHANGED tree
  BY <1>1, <1>2, TreeKept, UploadedKept, EndKeeps
<1>3. CASE RemoveOne(rq[r].full) /\ UNCHANGED rq
  BY <1>1, <1>3, RemoveKeeps, RqStays
<1> QED
  BY <1>2, <1>3 DEF RemoveAll

LEMMA ReadDirKeeps == ASSUME IInv, NEW r \in Requests, ReadDir(r) PROVE IInv'
<1> DEFINE full == Follow(FullPath(rq[r]))
           todo == SetToSeq(Listed(full))
           q == [rq[r] EXCEPT !.pc = "remove", !.full = full, !.todo = todo]
<1>1. /\ rq[r].op = "empty" /\ ~Writes(rq[r])
      /\ UNCHANGED <<tree, data, clock, uploaded, cached>>
  BY DEF ReadDir, At, Writes
<1>2. CASE End(r)
  BY <1>1, <1>2, TreeKept, UploadedKept, EndKeeps
<1>3. CASE rq' = [rq EXCEPT ![r].pc = "remove", ![r].full = full, ![r].todo = todo]
  <2>1. LocalOK(rq[r])
    BY DEF IInv, Typed
  <2>2. rq' = [rq EXCEPT ![r] = q]
    BY <1>3
  <2>3. /\ DOMAIN q = DOMAIN Idle /\ q.op = rq[r].op /\ q.upload = rq[r].upload
        /\ q.fd = rq[r].fd /\ q.size = rq[r].size /\ q.mtime = rq[r].mtime /\ q.body = rq[r].body
    BY <1>1, <2>1, Fields DEF LocalOK
  <2> HIDE DEF q
  <2> QED
    BY <1>1, <2>2, <2>3, TreeKept, PlaceMoves
<1> QED
  BY <1>2, <1>3 DEF ReadDir

LEMMA EmptyKeeps == ASSUME IInv, NEW r \in Requests, Empty(r) PROVE IInv'
<1>1. /\ rq[r].op = "empty" /\ ~Writes(rq[r]) /\ UNCHANGED <<clock, uploaded, cached>>
      /\ data' = Forget(data)
  BY DEF Empty, At, Writes
<1>2. CASE End(r) /\ UNCHANGED tree
  BY <1>1, <1>2, TreeKept, UploadedKept, EndKeeps
<1>3. CASE rq' = [rq EXCEPT ![r].todo = Tail(@)] /\ UNCHANGED tree
  <2> DEFINE q == [rq[r] EXCEPT !.todo = Tail(@)]
  <2>1. LocalOK(rq[r])
    BY DEF IInv, Typed
  <2>2. rq' = [rq EXCEPT ![r] = q]
    BY <1>3
  <2>3. /\ DOMAIN q = DOMAIN Idle /\ q.op = rq[r].op /\ q.upload = rq[r].upload
        /\ q.fd = rq[r].fd /\ q.size = rq[r].size /\ q.mtime = rq[r].mtime /\ q.body = rq[r].body
    BY <1>1, <2>1, Fields DEF LocalOK
  <2> HIDE DEF q
  <2> QED
    BY <1>1, <1>3, <2>2, <2>3, TreeKept, PlaceMoves
<1>4. CASE RemoveOne(Head(rq[r].todo)) /\ UNCHANGED rq
  BY <1>1, <1>4, RemoveKeeps, RqStays
<1> QED
  BY <1>2, <1>3, <1>4 DEF Empty

LEMMA OpenKeeps == ASSUME IInv, NEW r \in Requests, Open(r) PROVE IInv'
<1> DEFINE full == Follow(FullPath(rq[r]))
           q == [rq[r] EXCEPT !.pc = "stat", !.fd = Node(full)]
<1>1. /\ rq[r].op = "get" /\ ~Writes(rq[r]) /\ ~Sends(rq[r])
      /\ UNCHANGED <<tree, data, clock, uploaded, cached>>
  BY DEF Open, At, Writes, Sends
<1>2. CASE End(r)
  BY <1>1, <1>2, TreeKept, UploadedKept, EndKeeps
<1>3. CASE rq' = [rq EXCEPT ![r].pc = "stat", ![r].fd = Node(full)] /\ ~(Node(full) <= 0)
  <2>1. LocalOK(rq[r])
    BY DEF IInv, Typed
  <2>2. rq' = [rq EXCEPT ![r] = q]
    BY <1>3
  <2>3. /\ DOMAIN q = DOMAIN Idle /\ q.op = "get" /\ q.pc = "stat" /\ q.upload = rq[r].upload
        /\ q.fd = Node(full) /\ q.size = rq[r].size /\ q.mtime = rq[r].mtime /\ q.body = rq[r].body
    BY <1>1, <2>1, Fields DEF LocalOK
  <2> HIDE DEF q
  <2>4. full \in Paths /\ Node(full) = tree[full] /\ tree[full] \in Inodes
    BY <1>3 DEF Node, IInv, Typed, Absent, Dir, Link
  <2>5. LocalOK(q) /\ ~Writes(q)
    BY <1>1, <2>1, <2>3, <2>4 DEF LocalOK, Writes, Sends
  <2>6. DOMAIN rq' = Requests /\ rq'[r] = q /\ \A s \in Requests \ {r} : rq'[s] = rq[s]
    BY <2>2, RqUpdate DEF IInv
  <2> QED
    BY <1>1, <2>3, <2>4, <2>5, <2>6, TreeKept, UploadedKept, Moves
<1> QED
  BY <1>2, <1>3 DEF Open


LEMMA SendHeaderKeeps == ASSUME IInv, NEW r \in Requests, SendHeader(r) PROVE IInv'
<1> DEFINE file == data[rq[r].fd]
           sure == file.mtime < clock /\ Node(Place(rq[r].asked)) = rq[r].fd
           q == [rq[r] EXCEPT !.pc = "send", !.mtime = file.mtime, !.size = Len(file.chunks),
                              !.sure = sure]
<1>1. /\ rq[r].op = "get" /\ rq[r].pc = "stat" /\ ~Writes(rq[r])
      /\ UNCHANGED <<tree, data, clock, uploaded, cached>>
  BY DEF SendHeader, At, Writes
<1>2. LocalOK(rq[r])
  BY DEF IInv, Typed
<1>3. rq' = [rq EXCEPT ![r] = q]
  BY DEF SendHeader, ETag
<1>4. /\ DOMAIN q = DOMAIN Idle /\ q.op = "get" /\ q.pc = "send" /\ q.upload = rq[r].upload
      /\ q.fd = rq[r].fd /\ q.size = Len(file.chunks) /\ q.mtime = file.mtime /\ q.body = rq[r].body
  BY <1>1, <1>2, Fields DEF LocalOK
<1> HIDE DEF q
<1>5. rq[r].fd \in Inodes /\ rq[r].body = << >>
  BY <1>1, <1>2 DEF LocalOK, Sends
<1>6. file.mtime \in Nat /\ Len(file.chunks) \in Nat
  <2>1. file \in File
    BY <1>5 DEF IInv, Typed
  <2> QED
    BY <2>1, FileFields
<1>7. LocalOK(q) /\ ~Writes(q)
  BY <1>1, <1>2, <1>4, <1>5, <1>6 DEF LocalOK, Writes, Sends
<1>8. DOMAIN rq' = Requests /\ rq'[r] = q /\ \A s \in Requests \ {r} : rq'[s] = rq[s]
  BY <1>3, RqUpdate DEF IInv
<1> QED
  BY <1>1, <1>4, <1>7, <1>8, TreeKept, UploadedKept, Moves

LEMMA SendKeeps == ASSUME IInv, NEW r \in Requests, Send(r) PROVE IInv'
<1> DEFINE file == data[rq[r].fd]
           next == Len(rq[r].body) + 1
           q == [rq[r] EXCEPT !.body = Append(@, file.chunks[next])]
<1>1. /\ rq[r].op = "get" /\ rq[r].pc = "send" /\ ~Writes(rq[r])
      /\ next <= rq[r].size /\ next <= Len(file.chunks)
      /\ UNCHANGED <<tree, data, clock, uploaded, cached>>
  BY DEF Send, At, Writes
<1>2. LocalOK(rq[r])
  BY DEF IInv, Typed
<1>3. rq' = [rq EXCEPT ![r] = q]
  BY DEF Send
<1>4. /\ DOMAIN q = DOMAIN Idle /\ q.op = "get" /\ q.pc = "send" /\ q.upload = rq[r].upload
      /\ q.fd = rq[r].fd /\ q.size = rq[r].size /\ q.mtime = rq[r].mtime
      /\ q.body = Append(rq[r].body, file.chunks[next])
  BY <1>1, <1>2, Fields DEF LocalOK
<1> HIDE DEF q
<1>5. rq[r].fd \in Inodes /\ rq[r].body \in Seq(Nat) /\ rq[r].size \in Nat /\ file.chunks \in Seq(Nat)
  <2>1. rq[r].fd \in Inodes /\ rq[r].body \in Seq(Nat) /\ rq[r].size \in Nat
    BY <1>1, <1>2 DEF LocalOK
  <2>2. file \in File
    BY <2>1 DEF IInv, Typed
  <2> QED
    BY <2>1, <2>2, FileFields
<1>6. /\ q.body \in Seq(Nat) /\ Len(q.body) = next /\ q.body[next] = file.chunks[next]
      /\ \A k \in 1 .. Len(rq[r].body) : q.body[k] = rq[r].body[k]
  <2> DEFINE chunk == file.chunks[next]
  <2>1. chunk \in Nat /\ Len(rq[r].body) \in Nat
    <3>1. Len(rq[r].body) \in Nat /\ Len(file.chunks) \in Nat
      BY <1>5
    <3>2. next \in 1 .. Len(file.chunks)
      BY <1>1, <3>1
    <3> HIDE DEF next, file
    <3> QED
      BY <1>5, <3>1, <3>2, ElementOfSeq
  <2> HIDE DEF chunk
  <2>2. q.body = Append(rq[r].body, chunk)
    BY <1>4 DEF chunk
  <2>3. /\ q.body \in Seq(Nat) /\ Len(q.body) = next /\ q.body[next] = chunk
        /\ \A k \in 1 .. Len(rq[r].body) : q.body[k] = rq[r].body[k]
    <3> HIDE DEF next
    <3>1. next = Len(rq[r].body) + 1
      BY DEF next
    <3> QED
      BY <1>5, <2>1, <2>2, <3>1, AppendProperties
  <2> QED
    BY <2>3 DEF chunk
<1>7. LocalOK(q) /\ ~Writes(q)
  BY <1>1, <1>2, <1>4, <1>6 DEF LocalOK, Writes, Sends
<1>8. DOMAIN rq' = Requests /\ rq'[r] = q /\ \A s \in Requests \ {r} : rq'[s] = rq[s]
  BY <1>3, RqUpdate DEF IInv
<1> QED
  BY <1>1, <1>4, <1>7, <1>8, TreeKept, UploadedKept, Moves

LEMMA SentKeeps == ASSUME IInv, NEW r \in Requests, Sent(r) PROVE IInv'
<1>1. /\ rq[r].op = "get" /\ Sends(rq[r]) /\ ~Writes(rq[r]) /\ End(r)
      /\ UNCHANGED <<tree, clock, uploaded>> /\ data' = Forget(data)
  BY DEF Sent, At, Writes, Sends
<1> QED
  BY <1>1, TreeKept, UploadedKept, EndKeeps


LEMMA MkdirAllKeeps == ASSUME IInv, NEW r \in Requests, MkdirAll(r) PROVE IInv'
<1> DEFINE full == FullPath(rq[r])
           q == [rq[r] EXCEPT !.pc = "create", !.full = full, !.upload = uploaded',
                              !.todo = Uploads[uploaded'].names]
<1>1. /\ rq[r].op = "upload" /\ rq[r].pc = "mkdir" /\ ~Writes(rq[r]) /\ ~Sends(rq[r])
      /\ uploaded < Len(Uploads) /\ uploaded' = uploaded + 1
      /\ UNCHANGED <<data, clock, cached>>
  BY DEF MkdirAll, At, Writes, Sends
<1>2. uploaded' \in 1 .. Len(Uploads)
  BY <1>1, UploadsTyped DEF IInv, Typed
<1>3. CASE End(r) /\ UNCHANGED tree
  BY <1>1, <1>2, <1>3, TreeKept, EndKeeps, UploadsTyped
<1>4. CASE /\ tree' = [x \in Paths |-> IF x \in Made(Follow(full)) THEN Dir ELSE tree[x]]
           /\ rq' = [rq EXCEPT ![r].pc = "create", ![r].full = full, ![r].upload = uploaded',
                               ![r].todo = Uploads[uploaded'].names]
  <2>1. LocalOK(rq[r])
    BY DEF IInv, Typed
  <2>2. rq' = [rq EXCEPT ![r] = q]
    BY <1>4
  <2>3. /\ DOMAIN q = DOMAIN Idle /\ q.op = "upload" /\ q.pc = "create" /\ q.upload = uploaded'
        /\ q.fd = rq[r].fd /\ q.size = rq[r].size /\ q.mtime = rq[r].mtime /\ q.body = rq[r].body
    BY <1>1, <2>1, Fields DEF LocalOK
  <2> HIDE DEF q
  <2>4. LocalOK(q) /\ ~Writes(q)
    BY <1>1, <1>2, <2>1, <2>3 DEF LocalOK, Writes, Sends
  <2>5. DOMAIN rq' = Requests /\ rq'[r] = q /\ \A s \in Requests \ {r} : rq'[s] = rq[s]
    BY <2>2, RqUpdate DEF IInv
  <2>6. tree' \in [Paths -> {Absent, Dir, Link} \cup Inodes]
    BY <1>4 DEF IInv, Typed
  <2>7. uploaded' \in 0 .. Len(Uploads)
    BY <1>2, UploadsTyped
  <2> QED
    BY <1>1, <2>3, <2>4, <2>5, <2>6, <2>7, Moves
<1> QED
  BY <1>3, <1>4 DEF MkdirAll

LEMMA CloseKeeps == ASSUME IInv, NEW r \in Requests, Close(r) PROVE IInv'
<1> DEFINE q == [rq[r] EXCEPT !.pc = "create", !.todo = Tail(@), !.fd = 0, !.size = 0]
           closed == rq[r].fd
<1>1. /\ rq[r].op = "upload" /\ rq[r].pc = "copy" /\ Writes(rq[r]) /\ ~Sends(rq[r])
      /\ rq[r].size = Uploads[rq[r].upload].size
      /\ UNCHANGED <<tree, clock, uploaded, cached>> /\ data' = Forget(data)
  BY DEF Close, At, Writes, Sends
<1>2. LocalOK(rq[r])
  BY DEF IInv, Typed
<1>3. rq' = [rq EXCEPT ![r] = q]
  BY DEF Close
<1>4. /\ DOMAIN q = DOMAIN Idle /\ q.op = "upload" /\ q.pc = "create" /\ q.upload = rq[r].upload
      /\ q.fd = 0 /\ q.size = 0 /\ q.mtime = rq[r].mtime /\ q.body = rq[r].body
  BY <1>1, <1>2, Fields DEF LocalOK
<1> HIDE DEF q
<1>5. LocalOK(q) /\ ~Writes(q)
  BY <1>1, <1>2, <1>4 DEF LocalOK, Writes, Sends
<1>6. DOMAIN rq' = Requests /\ rq'[r] = q /\ \A s \in Requests \ {r} : rq'[s] = rq[s]
  BY <1>3, RqUpdate DEF IInv
<1>7. data' \in [Inodes -> File] /\ \A i \in Inodes : Kept(i)
  BY <1>1, Forgets DEF IInv, Typed, Kept
<1>8. Typed'
  BY <1>1, <1>4, <1>5, <1>6, <1>7, TreeKept, UploadedKept, Steps
<1>9. ASSUME NEW i \in Inodes
      PROVE  WholeFile(i)'
  <2>1. WholeFile(i) /\ Kept(i) /\ Typed
    BY <1>7 DEF IInv, Whole
  <2>2. CASE i # closed
    <3>1. Writers(i)' = Writers(i) /\ \A s \in Writers(i) : rq'[s] = rq[s]
      BY <1>4, <1>5, <1>6, <2>2 DEF Writers, At, Writes
    <3> QED
      BY <2>1, <3>1, WholeFileKept
  <2>3. CASE i = closed
    <3> SUFFICES ASSUME data'[i].owner > 0, ~data'[i].torn
                 PROVE  WholeFile(i)'
      BY DEF WholeFile
    <3>1. data'[i] = data[i]
      BY <2>1, KeptFile
    <3>2. r \in Writers(i)
      BY <1>1, <2>3 DEF Writers, At
    <3>3. /\ Writers(i) = {r} /\ rq[r].upload = data[i].owner
          /\ data[i].chunks = [k \in 1 .. rq[r].size |-> data[i].owner]
      BY <2>1, <3>1, <3>2 DEF WholeFile
    <3>4. Writers(i)' = {}
      <4>1. \A s \in Requests \ {r} : s \notin Writers(i)
        BY <3>3
      <4> QED
        BY <1>5, <1>6, <4>1 DEF Writers, At, Writes
    <3> QED
      BY <1>1, <3>1, <3>3, <3>4 DEF WholeFile
  <2> QED
    BY <2>2, <2>3
<1> QED
  BY <1>8, <1>9 DEF IInv, Whole

LEMMA TornFields ==
  ASSUME Typed, NEW i \in Inodes
  PROVE  [data[i] EXCEPT !.torn = TRUE] \in File
  BY DEF Typed, File

LEMMA FailKeeps == ASSUME IInv, NEW r \in Requests, Fail(r) PROVE IInv'
<1> DEFINE d == [i \in Inodes |-> IF At(r, "upload", "copy") /\ rq[r].fd = i
                                  THEN [data[i] EXCEPT !.torn = TRUE] ELSE data[i]]
<1>1. End(r) /\ UNCHANGED <<tree, clock, uploaded, cached>> /\ data' = Forget(d) /\ Typed /\ Whole
  BY DEF Fail, IInv
<1>2. d \in [Inodes -> File]
  BY <1>1, TornFields DEF Typed
<1>3. /\ data' \in [Inodes -> File]
      /\ \A i \in Inodes : data'[i] = d[i] \/ (data'[i] = NoFile /\ i \notin Referred(tree', rq'))
  <2> HIDE DEF d
  <2> QED
    BY <1>1, <1>2, Forgets
<1>4. \A i \in Inodes : Kept(i)
  BY <1>3 DEF Kept
<1>5. DOMAIN rq' = Requests /\ rq'[r] = Idle /\ \A s \in Requests \ {r} : rq'[s] = rq[s]
  BY <1>1, RqUpdate DEF End
<1>6. LocalOK(rq'[r]) /\ ~Writes(rq'[r]) /\ rq'[r].fd = 0
  BY <1>5, IdleOK
<1>7. Typed'
  BY <1>1, <1>3, <1>4, <1>5, <1>6, TreeKept, UploadedKept, Steps
<1>8. ASSUME NEW i \in Inodes
      PROVE  WholeFile(i)'
  <2> SUFFICES ASSUME data'[i].owner > 0, ~data'[i].torn
               PROVE  WholeFile(i)'
    BY DEF WholeFile
  <2>1. data'[i] = d[i]
    BY <1>3 DEF NoFile
  <2>2. ~(At(r, "upload", "copy") /\ rq[r].fd = i)
    <3>1. data[i] \in File
      BY <1>1 DEF Typed
    <3> QED
      BY <2>1, <3>1 DEF File
  <2>3. Writers(i)' = Writers(i) /\ \A s \in Writers(i) : rq'[s] = rq[s]
    BY <1>5, <1>6, <2>2 DEF Writers, At, Writes
  <2> QED
    BY <1>1, <1>4, <2>3, WholeFileKept DEF Whole
<1> QED
  BY <1>7, <1>8 DEF IInv, Whole


LEMMA CrashKeeps == ASSUME IInv, Crash PROVE IInv'
<1> DEFINE d == [i \in Inodes |-> IF Writers(i) # {}
                                  THEN [data[i] EXCEPT !.torn = TRUE] ELSE data[i]]
<1>1. /\ rq' = [r \in Requests |-> Idle] /\ UNCHANGED <<tree, clock, uploaded, cached>>
      /\ data' = Forget(d) /\ Typed /\ Whole
  BY DEF Crash, IInv
<1>2. d \in [Inodes -> File]
  BY <1>1, TornFields DEF Typed
<1>3. /\ data' \in [Inodes -> File]
      /\ \A i \in Inodes : data'[i] = d[i] \/ (data'[i] = NoFile /\ i \notin Referred(tree', rq'))
  <2> HIDE DEF d
  <2> QED
    BY <1>1, <1>2, Forgets
<1>4. \A i \in Inodes : Kept(i)
  BY <1>3 DEF Kept
<1>5. \A r \in Requests : rq'[r] = Idle
  BY <1>1
<1>6. Typed'
  <2>1. DOMAIN rq' = Requests /\ \A r \in Requests : LocalOK(rq[r])'
    <3> SUFFICES ASSUME NEW r \in Requests PROVE LocalOK(rq'[r])
      BY <1>1 DEF LocalOK, Writes, Sends
    <3> QED
      BY <1>5, IdleOK
  <2> QED
    BY <1>1, <1>3, <2>1 DEF Typed
<1>7. ASSUME NEW i \in Inodes
      PROVE  WholeFile(i)'
  <2> SUFFICES ASSUME data'[i].owner > 0, ~data'[i].torn
               PROVE  WholeFile(i)'
    BY DEF WholeFile
  <2>1. data'[i] = d[i]
    BY <1>3 DEF NoFile
  <2>2. Writers(i) = {}
    <3>1. data[i] \in File
      BY <1>1 DEF Typed
    <3> QED
      BY <2>1, <3>1 DEF File
  <2>3. Writers(i)' = {}
    BY <1>5, IdleOK DEF Writers, At, Writes
  <2> QED
    BY <1>1, <1>4, <2>2, <2>3, WholeFileKept DEF Whole
<1> QED
  BY <1>6, <1>7 DEF IInv, Whole

LEMMA WriteAtTyped ==
  ASSUME NEW chunks \in Seq(Nat), NEW k \in Nat \ {0}, NEW c \in Nat
  PROVE  WriteAt(chunks, k, c) \in Seq(Nat)
<1> DEFINE n == IF k > Len(chunks) THEN k ELSE Len(chunks)
<1>1. n \in Nat
  OBVIOUS
<1>2. \A j \in 1 .. n : (IF j = k THEN c ELSE IF j <= Len(chunks) THEN chunks[j] ELSE 0) \in Nat
  OBVIOUS
<1> HIDE DEF n
<1>3. [j \in 1 .. n |-> IF j = k THEN c ELSE IF j <= Len(chunks) THEN chunks[j] ELSE 0] \in Seq(Nat)
  BY <1>1, <1>2
<1> QED
  BY <1>3 DEF WriteAt, n


LEMMA OpenFileKeeps == ASSUME IInv, NEW r \in Requests, OpenFile(r) PROVE IInv'
<1> DEFINE name == <<Head(rq[r].todo)>>
           dst == Follow(JoinSecure(rq[r].full, name))
           old == Node(dst)
<1>0. PICK i : i = IF old = Absent THEN FreeInode ELSE old
  OBVIOUS
<1> DEFINE q == [rq[r] EXCEPT !.pc = "copy", !.fd = i, !.size = 0]
           new == [chunks |-> << >>, mtime |-> clock, owner |-> rq[r].upload,
                   torn |-> old # Absent /\ Writers(i) # {}]
<1>1. /\ rq[r].op = "upload" /\ rq[r].pc = "create" /\ ~Writes(rq[r]) /\ ~Sends(rq[r])
      /\ UNCHANGED <<clock, uploaded, cached>> /\ Typed /\ Whole
  BY DEF OpenFile, At, Writes, Sends, IInv
<1>2. CASE End(r) /\ UNCHANGED <<tree, data>>
  BY <1>1, <1>2, TreeKept, UploadedKept, EndKeeps
<1>3. CASE /\ ~(\/ ~Within(rq[r].full, name)
                \/ dst \notin Paths \/ Node(Front(dst)) # Dir \/ old \in {Dir, Link}
                \/ (old = Absent /\ Free = {}))
           /\ Opened(r, i, old) /\ tree' = [tree EXCEPT ![dst] = i]
  <2>1. LocalOK(rq[r])
    BY <1>1 DEF Typed
  <2>2. i \in Inodes /\ (old = Absent => i \in Free)
    <3>1. CASE old = Absent
      <4>1. i \in Free
        BY <1>0, <1>3, <3>1 DEF FreeInode
      <4> QED
        BY <3>1, <4>1 DEF Free
    <3>2. CASE old # Absent
      BY <1>0, <1>1, <1>3, <3>2 DEF Node, Typed
    <3> QED
      BY <3>1, <3>2
  <2>3. rq' = [rq EXCEPT ![r] = q] /\ data' = [data EXCEPT ![i] = new]
    BY <1>3 DEF Opened
  <2>4. /\ DOMAIN q = DOMAIN Idle /\ q.op = "upload" /\ q.pc = "copy" /\ q.upload = rq[r].upload
        /\ q.fd = i /\ q.size = 0 /\ q.mtime = rq[r].mtime /\ q.body = rq[r].body
    BY <1>1, <2>1, Fields DEF LocalOK
  <2>5. new \in File
    <3>1. clock \in Nat /\ rq[r].upload \in 0 .. Len(Uploads)
      BY <1>1, <2>1 DEF Typed, LocalOK
    <3>2. (old # Absent /\ Writers(i) # {}) \in BOOLEAN
      OBVIOUS
    <3> HIDE DEF old
    <3> QED
      BY <3>1, <3>2, EmptyTyped DEF File
  <2>6. /\ new.chunks = << >> /\ new.mtime = clock /\ new.owner = rq[r].upload
        /\ ~new.torn => old = Absent \/ Writers(i) = {}
    OBVIOUS
  <2> HIDE DEF dst, old, q, new
  <2>7. rq[r].upload \in 1 .. Len(Uploads) /\ Uploads[rq[r].upload].size \in Nat
    BY <1>1, <2>1, UploadsTyped DEF LocalOK
  <2>8. LocalOK(q) /\ Writes(q) /\ ~Sends(q)
    BY <1>1, <2>1, <2>2, <2>4, <2>7 DEF LocalOK, Writes, Sends
  <2>9. DOMAIN rq' = Requests /\ rq'[r] = q /\ \A s \in Requests \ {r} : rq'[s] = rq[s]
    BY <1>1, <2>3, RqUpdate
  <2>10. /\ data' \in [Inodes -> File] /\ data'[i] = new
         /\ \A j \in Inodes \ {i} : data'[j] = data[j]
    BY <1>1, <2>2, <2>3, <2>5 DEF Typed
  <2>11. /\ tree' \in [Paths -> {Absent, Dir, Link} \cup Inodes]
         /\ \A x \in Paths : tree'[x] \in {tree[x], i}
    BY <1>1, <1>3, <2>2 DEF Typed
  <2>12. Typed'
    <3>1. \A s \in Requests : LocalOK(rq[s])'
      <4> SUFFICES ASSUME NEW s \in Requests PROVE LocalOK(rq'[s])
        BY DEF LocalOK, Writes, Sends
      <4> QED
        BY <1>1, <2>8, <2>9 DEF Typed
    <3> QED
      BY <1>1, <1>3, <2>9, <2>10, <2>11, <3>1 DEF Typed
  <2>13. ASSUME NEW j \in Inodes
         PROVE  WholeFile(j)'
    <3>1. CASE j # i
      <4>1. Writers(j)' = Writers(j) /\ \A s \in Writers(j) : rq'[s] = rq[s]
        BY <1>1, <2>4, <2>9, <3>1 DEF Writers, At, Writes
      <4>2. Kept(j)
        BY <2>10, <3>1 DEF Kept
      <4> QED
        BY <1>1, <4>1, <4>2, WholeFileKept DEF Whole
    <3>2. CASE j = i
      <4> SUFFICES ASSUME ~new.torn PROVE WholeFile(i)'
        BY <2>10, <3>2 DEF WholeFile
      <4>1. Writers(i) = {}
        <5>1. CASE old = Absent
          BY <2>2, <5>1 DEF Free, Referred, Writers
        <5> QED
          BY <2>6, <5>1
      <4>2. Writers(i)' = {r}
        BY <1>1, <2>4, <2>9, <4>1 DEF Writers, At, Writes
      <4>3. << >> = [k \in 1 .. 0 |-> rq[r].upload]
        OBVIOUS
      <4>4. rq'[r].upload = data'[i].owner /\ data'[i].chunks = [k \in 1 .. rq'[r].size |-> data'[i].owner]
        BY <2>4, <2>6, <2>9, <2>10, <4>3
      <4> QED
        BY <4>2, <4>4 DEF WholeFile
    <3> QED
      BY <3>1, <3>2
  <2> QED
    BY <2>12, <2>13 DEF IInv, Whole
<1> QED
  BY <1>0, <1>2, <1>3 DEF OpenFile

LEMMA CopyKeeps == ASSUME IInv, NEW r \in Requests, Copy(r) PROVE IInv'
<1>0. PICK i : i = rq[r].fd
  OBVIOUS
<1> DEFINE c == rq[r].upload
           k == rq[r].size + 1
           q == [rq[r] EXCEPT !.size = @ + 1]
           new == [data[i] EXCEPT !.chunks = WriteAt(@, k, c), !.mtime = clock]
<1>1. /\ rq[r].op = "upload" /\ rq[r].pc = "copy" /\ Writes(rq[r]) /\ ~Sends(rq[r])
      /\ rq[r].size < Uploads[c].size
      /\ UNCHANGED <<tree, clock, uploaded, cached>> /\ Typed /\ Whole
  BY DEF Copy, At, Writes, Sends, IInv
<1>2. LocalOK(rq[r])
  BY <1>1 DEF Typed
<1>3. /\ i \in Inodes /\ c \in 1 .. Len(Uploads) /\ k \in Nat \ {0} /\ Uploads[c].size \in Nat
      /\ data[i] \in File /\ data[i].chunks \in Seq(Nat) /\ clock \in Nat
  <2>1. i \in Inodes /\ c \in 1 .. Len(Uploads) /\ rq[r].size \in Nat
    BY <1>0, <1>1, <1>2, UploadsTyped DEF LocalOK
  <2>2. data[i] \in File /\ clock \in Nat
    BY <1>1, <2>1 DEF Typed
  <2> QED
    BY <2>1, <2>2, UploadsTyped, FileFields
<1>4. rq' = [rq EXCEPT ![r] = q] /\ data' = [data EXCEPT ![i] = new]
  BY <1>0 DEF Copy
<1>5. /\ DOMAIN q = DOMAIN Idle /\ q.op = "upload" /\ q.pc = "copy" /\ q.upload = c
      /\ q.fd = i /\ q.size = k /\ q.mtime = rq[r].mtime /\ q.body = rq[r].body
  BY <1>0, <1>1, <1>2, Fields DEF LocalOK
<1>6. /\ new \in File /\ new.chunks = WriteAt(data[i].chunks, k, c) /\ new.mtime = clock
      /\ new.owner = data[i].owner /\ new.torn = data[i].torn
  <2>1. WriteAt(data[i].chunks, k, c) \in Seq(Nat)
    <3>1. c \in Nat
      BY <1>3, UploadsTyped
    <3> HIDE DEF k, c
    <3> QED
      BY <1>3, <3>1, WriteAtTyped
  <2> HIDE DEF k, c
  <2> QED
    BY <1>3, <2>1 DEF File
<1> HIDE DEF q, new
<1>7. LocalOK(q) /\ ~Sends(q)
  BY <1>1, <1>2, <1>3, <1>5 DEF LocalOK, Writes, Sends
<1>8. DOMAIN rq' = Requests /\ rq'[r] = q /\ \A s \in Requests \ {r} : rq'[s] = rq[s]
  BY <1>1, <1>4, RqUpdate
<1>9. /\ data' \in [Inodes -> File] /\ data'[i] = new
      /\ \A j \in Inodes \ {i} : data'[j] = data[j]
  BY <1>1, <1>3, <1>4, <1>6 DEF Typed
<1>10. Typed'
  <2>1. \A s \in Requests : LocalOK(rq[s])'
    <3> SUFFICES ASSUME NEW s \in Requests PROVE LocalOK(rq'[s])
      BY DEF LocalOK, Writes, Sends
    <3> QED
      BY <1>1, <1>7, <1>8 DEF Typed
  <2> QED
    BY <1>1, <1>8, <1>9, <2>1 DEF Typed
<1>12. \A j \in Inodes : Writers(j)' = Writers(j)
  BY <1>0, <1>1, <1>5, <1>8 DEF Writers, At, Writes
<1>13. ASSUME NEW j \in Inodes
       PROVE  WholeFile(j)'
  <2>1. CASE j # i
    <3>1. \A s \in Writers(j) : rq'[s] = rq[s]
      BY <1>0, <1>8, <2>1 DEF Writers
    <3>2. Kept(j)
      BY <1>9, <2>1 DEF Kept
    <3> QED
      BY <1>1, <1>12, <3>1, <3>2, WholeFileKept DEF Whole
  <2>2. CASE j = i
    <3> SUFFICES ASSUME data[i].owner > 0, ~data[i].torn PROVE WholeFile(i)'
      BY <1>6, <1>9, <2>2 DEF WholeFile
    <3>1. r \in Writers(i)
      BY <1>0, <1>1 DEF Writers, At
    <3>2. /\ Writers(i) = {r} /\ c = data[i].owner
          /\ data[i].chunks = [n \in 1 .. rq[r].size |-> c]
      <4>1. WholeFile(i)
        BY <1>1, <1>3 DEF Whole
      <4>2. PICK s \in Requests :
              /\ Writers(i) = {s} /\ rq[s].upload = data[i].owner
              /\ data[i].chunks = [n \in 1 .. rq[s].size |-> data[i].owner]
        BY <3>1, <4>1 DEF WholeFile
      <4>3. s = r
        BY <3>1, <4>2
      <4> QED
        BY <4>2, <4>3
    <3>3. WriteAt(data[i].chunks, k, c) = [n \in 1 .. k |-> c]
      <4>1. Len(data[i].chunks) = rq[r].size /\ rq[r].size \in Nat
        BY <1>2, <3>2 DEF LocalOK
      <4>2. \A n \in 1 .. rq[r].size : data[i].chunks[n] = c
        BY <3>2
      <4> HIDE DEF c
      <4> QED
        BY <4>1, <4>2 DEF WriteAt
    <3>4. /\ Writers(i)' = {r} /\ rq'[r].upload = data'[i].owner
          /\ data'[i].chunks = [n \in 1 .. rq'[r].size |-> data'[i].owner]
      <4>1. Writers(i)' = {r}
        BY <1>3, <1>12, <3>2
      <4>2. rq'[r].upload = c /\ rq'[r].size = k
        BY <1>5, <1>8
      <4>3. data'[i].owner = c /\ data'[i].chunks = [n \in 1 .. k |-> c]
        <5> HIDE DEF k, c
        <5> QED
          BY <1>6, <1>9, <3>2, <3>3
      <4> HIDE DEF k, c
      <4> QED
        BY <4>1, <4>2, <4>3
    <3> QED
      BY <3>4 DEF WholeFile
  <2> QED
    BY <2>1, <2>2
<1> QED
  BY <1>10, <1>13 DEF IInv, Whole


LEMMA StutterKeeps ==
  ASSUME IInv, UNCHANGED <<tree, data, rq, uploaded>>, clock' \in Nat PROVE IInv'
<1>1. Typed'
  BY DEF IInv, Typed, LocalOK, Writes, Sends
<1>2. Whole'
  <2>1. \A i \in Inodes : Writers(i)' = Writers(i)
    BY DEF Writers, At
  <2> QED
    BY <2>1 DEF IInv, Whole, WholeFile
<1> QED
  BY <1>1, <1>2 DEF IInv

LEMMA InvarianceStep == ASSUME IInv, [Next]_vars PROVE IInv'
<1>1. CASE OpenDir \/ Breadcrumb \/ Tick \/ UNCHANGED vars
  <2>1. UNCHANGED <<tree, data, rq, uploaded>> /\ clock' \in {clock, clock + 1} /\ clock \in Nat
    BY <1>1 DEF OpenDir, Breadcrumb, Tick, vars, IInv, Typed
  <2> QED
    BY <2>1, StutterKeeps
<1>2. CASE Crash
  BY <1>2, CrashKeeps
<1>3. ASSUME NEW r \in Requests, Ask(r) \/ Fail(r) \/ Forbidden(r)
      PROVE  IInv'
  BY <1>3, AskKeeps, FailKeeps, ForbiddenKeeps
<1>4. ASSUME NEW r \in Requests, Upload(r)
      PROVE  IInv'
  BY <1>4, MkdirAllKeeps, OpenFileKeeps, CopyKeeps, CloseKeeps, CreatedKeeps DEF Upload
<1>5. ASSUME NEW r \in Requests, Remover(r)
      PROVE  IInv'
  BY <1>5, ResolveDeleteKeeps, RemoveAllKeeps, ReadDirKeeps, EmptyKeeps DEF Remover
<1>6. ASSUME NEW r \in Requests, Download(r)
      PROVE  IInv'
  BY <1>6, OpenKeeps, NotModifiedKeeps, SendHeaderKeeps, SendKeeps, SentKeeps DEF Download
<1> QED
  BY <1>1, <1>2, <1>3, <1>4, <1>5, <1>6 DEF Next

LEMMA Invariance == Spec => []IInv
<1>1. Init => IInv
  BY InitWhole DEF IInv
<1>2. IInv /\ [Next]_vars => IInv'
  BY InvarianceStep
<1> QED
  BY <1>1, <1>2, PTL DEF Spec

(* Whatever requests overlap, fail or are cut off by a crash: a file whose   *)
(* last upload neither failed nor overlapped another of the same name holds  *)
(* that upload and nothing of older contents (handleUpload,                 *)
(* http_handlers.go:216-274).                                              *)
THEOREM UploadsWholeTheorem == Spec => []UploadsWhole
<1>1. IInv => UploadsWhole
  <2> SUFFICES ASSUME IInv, NEW x \in Paths, tree[x] > 0, Writers(tree[x]) = {},
                      ~data[tree[x]].torn, data[tree[x]].owner > 0
               PROVE  data[tree[x]].chunks =
                        [k \in 1 .. Uploads[data[tree[x]].owner].size |-> data[tree[x]].owner]
    BY DEF UploadsWhole
  <2>1. tree[x] \in Inodes
    BY DEF IInv, Typed, Absent, Dir, Link
  <2>2. WholeFile(tree[x])
    BY <2>1 DEF IInv, Whole
  <2> QED
    BY <2>2 DEF WholeFile
<1> QED
  BY <1>1, Invariance, PTL

(* Paging through any directory of the agent, whoever changes it meanwhile, *)
(* shows what it holds at that time (handleTree, http_handlers.go:98-105).  *)
THEOREM PagesShowAllTheorem == Spec => []PagesShowAll
<1>1. PagesShowAll
  <2>1. IsFiniteSet(Listed(panel.at))
    BY PathsAssumption, FS_Subset DEF Listed, Children, Below
  <2>2. Cardinality(Listed(panel.at)) \in Nat
    BY <2>1, FS_CardinalityType
  <2>3. 2 \in 1 .. 1000
    OBVIOUS
  <2> QED
    BY <2>2, <2>3, PagesCoverTheorem DEF PagesShowAll
<1> QED
  BY <1>1, PTL

(* The size that a download announces is a number, and parseRange is exact  *)
(* for every file of such a size (http_handlers.go:171-187, 323-368).       *)
THEOREM RangesExactTheorem == Spec => []RangesExact
<1>1. IInv => RangesExact
  <2> SUFFICES ASSUME IInv, NEW r \in Requests, NEW first \in -1 .. MaxInt + 1,
                      NEW last \in -1 .. MaxInt + 1
               PROVE  RangeExact(first, last, rq[r].size)
    BY DEF RangesExact
  <2>1. rq[r].size \in Nat
    BY DEF IInv, Typed, LocalOK
  <2>2. first \in Nat \cup {-1} /\ last \in Nat \cup {-1}
    BY IntAssumption
  <2> QED
    BY <2>1, <2>2, RangeExactTheorem
<1> QED
  BY <1>1, Invariance, PTL
=============================================================================
