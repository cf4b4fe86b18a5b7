-------------------------- MODULE AgentTreeProofs --------------------------
(***************************************************************************)
(* Proofs about the tree of an agent's volumes: it stays a tree, only what  *)
(* a user asked for changes, and a tag names the contents at a path.        *)
(***************************************************************************)
EXTENDS AgentFilesProofs, Induction

(* Paths.                                                                   *)

LEMMA PathsAreSequences ==
  /\ \A x \in Paths : x \in Seq(STRING) /\ x # << >>
  /\ \A x \in DOMAIN LinkTarget : x \in Paths /\ LinkTarget[x] \in Paths
  BY TreeAssumption, LinkAssumption

LEMMA PrefixOf ==
  ASSUME NEW S, NEW s \in Seq(S), NEW k \in 0 .. Len(s)
  PROVE  /\ SubSeq(s, 1, k) \in Seq(S) /\ Len(SubSeq(s, 1, k)) = k
         /\ \A i \in 1 .. k : SubSeq(s, 1, k)[i] = s[i]
  OBVIOUS

LEMMA SameSequence ==
  ASSUME NEW S, NEW s \in Seq(S), NEW t \in Seq(S), Len(s) = Len(t),
         \A i \in 1 .. Len(s) : s[i] = t[i]
  PROVE  s = t
  BY SeqEqual

LEMMA WholePrefix == ASSUME NEW S, NEW s \in Seq(S) PROVE SubSeq(s, 1, Len(s)) = s
  OBVIOUS

LEMMA PrefixOfPrefix ==
  ASSUME NEW S, NEW s \in Seq(S), NEW k \in 0 .. Len(s), NEW j \in 0 .. k
  PROVE  SubSeq(SubSeq(s, 1, k), 1, j) = SubSeq(s, 1, j)
<1>1. SubSeq(s, 1, k) \in Seq(S) /\ Len(SubSeq(s, 1, k)) = k /\ j \in 0 .. Len(s)
  OBVIOUS
<1> DEFINE a == SubSeq(SubSeq(s, 1, k), 1, j)
           b == SubSeq(s, 1, j)
<1>2. a \in Seq(S) /\ b \in Seq(S) /\ Len(a) = j /\ Len(b) = j
  BY <1>1, PrefixOf
<1>3. \A i \in 1 .. j : a[i] = s[i] /\ b[i] = s[i]
  BY <1>1, PrefixOf
<1> HIDE DEF a, b
<1> QED
  BY <1>2, <1>3, SameSequence DEF a, b

LEMMA NextPrefix ==
  ASSUME NEW S, NEW s \in Seq(S), NEW k \in 0 .. Len(s) - 1
  PROVE  SubSeq(s, 1, k + 1) = Append(SubSeq(s, 1, k), s[k + 1])
<1> DEFINE a == SubSeq(s, 1, k)
           b == SubSeq(s, 1, k + 1)
<1>1. a \in Seq(S) /\ b \in Seq(S) /\ Len(a) = k /\ Len(b) = k + 1 /\ s[k + 1] \in S
  OBVIOUS
<1>2. (\A i \in 1 .. k : a[i] = s[i]) /\ \A i \in 1 .. k + 1 : b[i] = s[i]
  OBVIOUS
<1> HIDE DEF a, b
<1>3. /\ Append(a, s[k + 1]) \in Seq(S) /\ Len(Append(a, s[k + 1])) = k + 1
      /\ \A i \in 1 .. k + 1 : Append(a, s[k + 1])[i] = b[i]
  BY <1>1, <1>2, AppendProperties
<1> QED
  BY <1>1, <1>3, SameSequence DEF a, b

(* t is s and one element more.                                              *)
Extends(t, s, e) ==
  /\ t \in Seq(STRING) /\ Len(t) = Len(s) + 1 /\ t # << >>
  /\ t[Len(s) + 1] = e
  /\ \A i \in 1 .. Len(s) : t[i] = s[i]

LEMMA Appended ==
  ASSUME NEW s \in Seq(STRING), NEW e \in STRING
  PROVE  Extends(Append(s, e), s, e)
<1>0. PICK t : t = Append(s, e)
  OBVIOUS
<1>1. t \in Seq(STRING) /\ Len(t) = Len(s) + 1
  BY <1>0, AppendProperties
<1>2. t[Len(s) + 1] = e
  BY <1>0, AppendProperties
<1>3. \A i \in 1 .. Len(s) : t[i] = s[i]
  BY <1>0, AppendProperties
<1>4. t # << >>
  <2>1. Len(t) # 0
    BY <1>1
  <2> QED
    BY <2>1
<1>5. Extends(t, s, e)
  BY <1>1, <1>2, <1>3, <1>4 DEF Extends
<1> QED
  BY <1>0, <1>5

LEMMA FrontIsPrefix ==
  ASSUME NEW S, NEW s \in Seq(S), s # << >>
  PROVE  Front(s) = SubSeq(s, 1, Len(s) - 1) /\ Front(s) \in Seq(S)
  BY DEF Front

(* A path below another has it as a prefix, and what is below that too.     *)
LEMMA BelowTyped ==
  ASSUME NEW dir, NEW x \in Below(dir)
  PROVE  x \in Paths /\ x \in Seq(STRING)
  BY PathsAreSequences DEF Below

LEMMA StrictPrefix ==
  ASSUME NEW a \in Seq(STRING), NEW b \in Seq(STRING)
  PROVE  /\ IsStrictPrefix(a, b) <=> Len(a) < Len(b) /\ \A i \in 1 .. Len(a) : a[i] = b[i]
         /\ IsPrefix(a, b) <=> Len(a) <= Len(b) /\ \A i \in 1 .. Len(a) : a[i] = b[i]
  BY DEF IsStrictPrefix, IsPrefix

----------------------------------------------------------------------------
(* Links.                                                                   *)

(* FollowOne and Follow, when L is the set of the links.                     *)
OnIn(L, x) == {k \in 1 .. Len(x) : SubSeq(x, 1, k) \in L}
StepIn(L, x) == IF OnIn(L, x) = {} THEN x ELSE Redirect(x, CHOOSE k \in OnIn(L, x) : TRUE)
FollowIn(L, x) ==
  LET at[n \in 0 .. MaxLinks] == IF n = 0 THEN x ELSE StepIn(L, at[n - 1])
  IN  at[MaxLinks]

LEMMA FollowsLinks ==
  ASSUME NEW x
  PROVE  /\ FollowOne(x) = StepIn(Links, x) /\ Follow(x) = FollowIn(Links, x)
         /\ Place(x) = FollowIn(Links, StepIn(Links, x))
  BY DEF FollowOne, LinksOn, Follow, Place, OnIn, StepIn, FollowIn

(* No link is made, so that every link has a target.                         *)
NoNewLinks == \A x \in Paths : tree[x] = Link => InitialTree[x] = Link

LEMMA LinksHaveTargets == NoNewLinks => Links \subseteq DOMAIN LinkTarget
  BY LinkAssumption DEF NoNewLinks, Links

LEMMA NodeIsLink ==
  ASSUME NEW x
  PROVE  Node(x) = Link <=> x \in Links
<1>1. Absent # Link
  BY DEF Absent, Link
<1> QED
  BY <1>1 DEF Node, Links

LEMMA StepInTyped ==
  ASSUME NEW L, L \subseteq DOMAIN LinkTarget, NEW x \in Seq(STRING)
  PROVE  /\ StepIn(L, x) \in Seq(STRING)
         /\ StepIn(L, x) = x \/ \E k \in OnIn(L, x) : StepIn(L, x) = Redirect(x, k)
<1>1. ASSUME NEW k \in OnIn(L, x)
      PROVE  Redirect(x, k) \in Seq(STRING)
  <2>1. LinkTarget[SubSeq(x, 1, k)] \in Seq(STRING)
    BY PathsAreSequences DEF OnIn
  <2>2. SubSeq(x, k + 1, Len(x)) \in Seq(STRING)
    BY DEF OnIn
  <2> QED
    BY <2>1, <2>2 DEF Redirect
<1> QED
  BY <1>1 DEF StepIn

LEMMA FollowsIn ==
  ASSUME NEW L, L \subseteq DOMAIN LinkTarget, NEW x \in Seq(STRING)
  PROVE  \E at \in [0 .. MaxLinks -> Seq(STRING)] :
           /\ at[0] = x
           /\ \A n \in 1 .. MaxLinks : at[n] = StepIn(L, at[n - 1])
           /\ FollowIn(L, x) = at[MaxLinks]
<1> DEFINE N == MaxLinks
           T == Seq(STRING)
           step == [k \in 1 .. N |-> [y \in T |-> StepIn(L, y)]]
           Is(f) == f = [n \in 0 .. N |-> IF n = 0 THEN x ELSE StepIn(L, f[n - 1])]
           at == CHOOSE f : Is(f)
<1>1. N \in Nat
  BY LinkAssumption
<1>2. step \in [1 .. N -> [T -> T]] /\ x \in T
  BY StepInTyped
<1>3. PICK g : Iterates(g, T, N, x, step)
  <2> HIDE DEF step, N, T
  <2> QED
    BY <1>1, <1>2, Iteration
<1>4. /\ g \in [0 .. N -> T] /\ g[0] = x
      /\ \A k \in 1 .. N : g[k] = StepIn(L, g[k - 1])
  <2> HIDE DEF T
  <2>1. /\ g \in [0 .. N -> T] /\ g[0] = x
        /\ \A k \in 1 .. N : g[k] = step[k][g[k - 1]]
    BY <1>3 DEF Iterates
  <2>2. ASSUME NEW k \in 1 .. N PROVE g[k - 1] \in T
    BY <1>1, <2>1
  <2> QED
    BY <2>1, <2>2
<1>5. Is(g)
  BY <1>1, <1>4
<1>6. Is(at)
  <2> HIDE DEF Is
  <2> QED
    BY <1>5
<1>7. FollowIn(L, x) = at[N]
  BY DEF FollowIn
<1>8. at[0] = x /\ \A k \in 1 .. N : at[k] = StepIn(L, at[k - 1])
  <2> HIDE DEF at
  <2> QED
    BY <1>1, <1>6
<1> DEFINE S == {k \in Nat : k <= N => at[k] \in Seq(STRING)}
<1>9. 0 \in S
  <2> HIDE DEF at
  <2> QED
    BY <1>8
<1>10. ASSUME NEW k \in Nat, k \in S
       PROVE  k + 1 \in S
  <2> HIDE DEF at
  <2> SUFFICES ASSUME k + 1 <= N PROVE at[k + 1] \in Seq(STRING)
    OBVIOUS
  <2>1. at[k] \in Seq(STRING)
    BY <1>1, <1>10
  <2>2. at[k + 1] = StepIn(L, at[k])
    BY <1>1, <1>8
  <2> QED
    BY <2>1, <2>2, StepInTyped
<1>11. Nat \subseteq S
  <2> HIDE DEF S
  <2> QED
    BY <1>9, <1>10, SetInduction
<1>12. at \in [0 .. N -> Seq(STRING)]
  <2> HIDE DEF at
  <2>1. \A k \in 0 .. N : at[k] \in Seq(STRING)
    BY <1>1, <1>11
  <2>2. at = [k \in 0 .. N |-> at[k]]
    BY <1>6
  <2> QED
    BY <2>1, <2>2
<1> HIDE DEF at
<1> QED
  BY <1>7, <1>8, <1>12

(* What holds of x and is kept by following a link holds of what x leads to. *)
LEMMA FollowKeeps ==
  ASSUME NEW L, L \subseteq DOMAIN LinkTarget, NEW x \in Seq(STRING), NEW T, x \in T,
         \A y \in Seq(STRING) : y \in T => StepIn(L, y) \in T
  PROVE  FollowIn(L, x) \in T /\ FollowIn(L, x) \in Seq(STRING)
<1>1. PICK at \in [0 .. MaxLinks -> Seq(STRING)] :
        /\ at[0] = x
        /\ \A n \in 1 .. MaxLinks : at[n] = StepIn(L, at[n - 1])
        /\ FollowIn(L, x) = at[MaxLinks]
  BY FollowsIn
<1>2. MaxLinks \in Nat
  BY LinkAssumption
<1> DEFINE S == {n \in Nat : n <= MaxLinks => at[n] \in T}
<1>3. 0 \in S
  BY <1>1
<1>4. ASSUME NEW n \in Nat, n \in S
      PROVE  n + 1 \in S
  <2> SUFFICES ASSUME n + 1 <= MaxLinks PROVE at[n + 1] \in T
    OBVIOUS
  <2>1. at[n] \in T /\ at[n] \in Seq(STRING) /\ at[n + 1] = StepIn(L, at[n])
    BY <1>1, <1>2, <1>4
  <2> QED
    BY <2>1
<1>5. Nat \subseteq S
  <2> HIDE DEF S
  <2> QED
    BY <1>3, <1>4, SetInduction
<1> QED
  BY <1>1, <1>2, <1>5

LEMMA FollowPlain ==
  ASSUME NEW L, L \subseteq DOMAIN LinkTarget, NEW x \in Seq(STRING), OnIn(L, x) = {}
  PROVE  FollowIn(L, x) = x /\ StepIn(L, x) = x
<1>1. StepIn(L, x) = x
  BY DEF StepIn
<1>2. FollowIn(L, x) \in {x}
  BY <1>1, FollowKeeps
<1> QED
  BY <1>1, <1>2

(* What an entry leads to leads nowhere else.                               *)
LEMMA AimsClosed ==
  ASSUME NEW y \in Paths
  PROVE  /\ y \in Aims[y] /\ Aims[y] \subseteq Paths
         /\ \A x \in Aims[y] : \A k \in 1 .. Len(x) :
              SubSeq(x, 1, k) \in DOMAIN LinkTarget => Redirect(x, k) \in Aims[y]
<1>1. Aims[y] = {x \in Paths : \A S \in ClosedSets : y \in S => x \in S}
  BY DEF Aims
<1>2. ASSUME NEW x \in Aims[y], NEW k \in 1 .. Len(x), SubSeq(x, 1, k) \in DOMAIN LinkTarget
      PROVE  Redirect(x, k) \in Aims[y]
  <2>1. x \in Paths /\ Redirect(x, k) \in Paths
    BY <1>1, <1>2, LinkAssumption
  <2>2. ASSUME NEW S \in ClosedSets, y \in S PROVE Redirect(x, k) \in S
    <3>1. x \in S /\ Closed(S)
      BY <1>1, <2>2 DEF ClosedSets
    <3> QED
      BY <1>2, <3>1 DEF Closed
  <2> QED
    BY <1>1, <2>1, <2>2
<1> QED
  BY <1>1, <1>2

LEMMA FollowAims ==
  ASSUME NoNewLinks, NEW y \in Paths, NEW x \in Aims[y]
  PROVE  FollowOne(x) \in Aims[y] /\ Follow(x) \in Aims[y]
<1>1. Links \subseteq DOMAIN LinkTarget /\ x \in Seq(STRING)
  BY AimsClosed, LinksHaveTargets, PathsAreSequences
<1>2. ASSUME NEW z \in Aims[y] PROVE StepIn(Links, z) \in Aims[y]
  <2>1. z \in Seq(STRING)
    BY AimsClosed, PathsAreSequences
  <2>2. StepIn(Links, z) = z \/ \E k \in OnIn(Links, z) : StepIn(Links, z) = Redirect(z, k)
    BY <1>1, <2>1, StepInTyped
  <2> QED
    BY <1>1, <2>2, AimsClosed DEF OnIn
<1>3. FollowIn(Links, x) \in Aims[y]
  BY <1>1, <1>2, FollowKeeps
<1> QED
  BY <1>2, <1>3, FollowsLinks

(* Front and last segment of a path that has been put together from them.    *)
LEMMA Parts ==
  ASSUME NEW s \in Seq(STRING), NEW name \in STRING
  PROVE  /\ Append(s, name) \in Seq(STRING) /\ Len(Append(s, name)) = Len(s) + 1
         /\ Front(Append(s, name)) = s /\ Last(Append(s, name)) = name
<1>0. PICK t : t = Append(s, name) /\ Extends(t, s, name)
  BY Appended
<1>1. t \in Seq(STRING) /\ Len(t) = Len(s) + 1 /\ t # << >> /\ t[Len(s) + 1] = name
      /\ \A i \in 1 .. Len(s) : t[i] = s[i]
  BY <1>0 DEF Extends
<1>2. Front(t) = SubSeq(t, 1, Len(s)) /\ Last(t) = name
  BY <1>1, FrontIsPrefix DEF Last
<1> DEFINE f == SubSeq(t, 1, Len(s))
<1>3. f \in Seq(STRING) /\ Len(f) = Len(s) /\ \A i \in 1 .. Len(s) : f[i] = s[i]
  <2>1. Len(s) \in 0 .. Len(t)
    BY <1>1
  <2> QED
    BY <1>1, <2>1, PrefixOf
<1> HIDE DEF f
<1>4. f = s
  BY <1>3, SameSequence
<1> QED
  BY <1>0, <1>1, <1>2, <1>4 DEF f

LEMMA FrontAndLast ==
  ASSUME NEW x \in Seq(STRING), x # << >>
  PROVE  /\ Front(x) \in Seq(STRING) /\ Last(x) \in STRING /\ Append(Front(x), Last(x)) = x
<1>1. Len(x) \in Nat \ {0} /\ Len(x) - 1 \in 0 .. Len(x) - 1
  OBVIOUS
<1>2. Front(x) = SubSeq(x, 1, Len(x) - 1) /\ Front(x) \in Seq(STRING)
  BY FrontIsPrefix
<1>3. Last(x) = x[Len(x)] /\ Last(x) \in STRING
  BY <1>1 DEF Last
<1>4. SubSeq(x, 1, Len(x)) = x
  BY WholePrefix
<1>5. SubSeq(x, 1, (Len(x) - 1) + 1) = Append(SubSeq(x, 1, Len(x) - 1), x[(Len(x) - 1) + 1])
  BY <1>1, NextPrefix
<1>6. (Len(x) - 1) + 1 = Len(x)
  BY <1>1
<1> QED
  BY <1>2, <1>3, <1>4, <1>5, <1>6

(* t is s1 followed by s2.                                                  *)
Concats(t, s1, s2) ==
  /\ t \in Seq(STRING) /\ Len(t) = Len(s1) + Len(s2)
  /\ \A i \in 1 .. Len(s1) : t[i] = s1[i]
  /\ \A i \in 1 .. Len(s2) : t[Len(s1) + i] = s2[i]

LEMMA Concatenated ==
  ASSUME NEW s1 \in Seq(STRING), NEW s2 \in Seq(STRING)
  PROVE  Concats(s1 \o s2, s1, s2)
<1>1. PICK t : t = s1 \o s2
  OBVIOUS
<1>2. t \in Seq(STRING) /\ Len(t) = Len(s1) + Len(s2)
  BY <1>1, ConcatProperties
<1>3. \A i \in 1 .. Len(s1) : t[i] = s1[i]
  BY <1>1, ConcatProperties
<1>4. \A i \in 1 .. Len(s2) : t[Len(s1) + i] = s2[i]
  BY <1>1, ConcatProperties
<1>5. Concats(t, s1, s2)
  BY <1>2, <1>3, <1>4 DEF Concats
<1> QED
  BY <1>1, <1>5

LEMMA Regroup ==
  ASSUME NEW s \in Seq(STRING), NEW t \in Seq(STRING), NEW name \in STRING
  PROVE  s \o Append(t, name) = Append(s \o t, name)
<1>1. PICK u : u = Append(t, name) /\ Extends(u, t, name)
  BY Appended
<1>2. PICK c : c = s \o t /\ Concats(c, s, t)
  BY Concatenated
<1>3. u \in Seq(STRING) /\ c \in Seq(STRING)
  BY <1>1, <1>2 DEF Extends, Concats
<1>4. PICK a : a = s \o u /\ Concats(a, s, u)
  BY <1>3, Concatenated
<1>5. PICK b : b = Append(c, name) /\ Extends(b, c, name)
  BY <1>3, Appended
<1>6. PICK m, n \in Nat : m = Len(s) /\ n = Len(t)
  OBVIOUS
<1>7. /\ a \in Seq(STRING) /\ b \in Seq(STRING)
      /\ Len(u) = n + 1 /\ Len(c) = m + n /\ Len(a) = m + n + 1 /\ Len(b) = m + n + 1
  <2>1. a \in Seq(STRING) /\ b \in Seq(STRING) /\ Len(u) = Len(t) + 1
        /\ Len(c) = Len(s) + Len(t) /\ Len(a) = Len(s) + Len(u) /\ Len(b) = Len(c) + 1
    BY <1>1, <1>2, <1>4, <1>5, Zenon DEF Extends, Concats
  <2> QED
    BY <1>6, <2>1
<1>8. ASSUME NEW i \in 1 .. m + n + 1 PROVE a[i] = b[i]
  <2>1. CASE i <= m
    <3>1. i \in 1 .. m /\ i \in 1 .. m + n
      BY <1>6, <2>1
    <3>2. a[i] = s[i] /\ c[i] = s[i] /\ b[i] = c[i]
      BY <1>2, <1>4, <1>5, <1>6, <1>7, <3>1 DEF Extends, Concats
    <3> QED
      BY <3>2
  <2>2. CASE i > m
    <3>1. PICK j : j = i - m
      OBVIOUS
    <3>2. j \in 1 .. n + 1 /\ i = m + j /\ (j # n + 1 => j \in 1 .. n /\ i \in 1 .. m + n)
      BY <1>6, <2>2, <3>1
    <3>3. a[i] = u[j]
      BY <1>4, <1>6, <1>7, <3>2 DEF Concats
    <3>4. CASE j = n + 1
      <4>1. u[j] = name
        BY <1>1, <1>6, <3>4 DEF Extends
      <4>2. i = Len(c) + 1
        BY <1>6, <1>7, <3>2, <3>4
      <4>3. b[i] = name
        BY <1>5, <4>2 DEF Extends
      <4> QED
        BY <3>3, <4>1, <4>3
    <3>5. CASE j # n + 1
      <4>1. u[j] = t[j] /\ c[i] = t[j] /\ b[i] = c[i]
        BY <1>1, <1>2, <1>5, <1>6, <1>7, <3>2, <3>5 DEF Extends, Concats
      <4> QED
        BY <3>3, <4>1
    <3> QED
      BY <3>4, <3>5
  <2> QED
    BY <1>6, <2>1, <2>2
<1>9. a = b
  BY <1>7, <1>8, SameSequence
<1> QED
  BY <1>1, <1>2, <1>4, <1>5, <1>9

(* A link on the way to a name leads there too.                             *)
LEMMA RedirectName ==
  ASSUME NEW x \in Seq(STRING), NEW name \in STRING, NEW k \in 1 .. Len(x),
         SubSeq(x, 1, k) \in DOMAIN LinkTarget
  PROVE  /\ SubSeq(Append(x, name), 1, k) = SubSeq(x, 1, k) /\ k \in 1 .. Len(Append(x, name))
         /\ Redirect(Append(x, name), k) = Append(Redirect(x, k), name)
<1>0. PICK t : t = Append(x, name) /\ Extends(t, x, name)
  BY Appended
<1> DEFINE target == LinkTarget[SubSeq(x, 1, k)]
<1>1. t \in Seq(STRING) /\ Len(t) = Len(x) + 1 /\ t[Len(x) + 1] = name
      /\ \A i \in 1 .. Len(x) : t[i] = x[i]
  BY <1>0 DEF Extends
<1>2. SubSeq(t, 1, k) = SubSeq(x, 1, k) /\ k \in 1 .. Len(t)
  <2> DEFINE a == SubSeq(t, 1, k)
             b == SubSeq(x, 1, k)
  <2>1. k \in 0 .. Len(t) /\ k \in 0 .. Len(x) /\ k \in 1 .. Len(t)
    BY <1>1
  <2>2. a \in Seq(STRING) /\ b \in Seq(STRING) /\ Len(a) = k /\ Len(b) = k
        /\ \A i \in 1 .. k : a[i] = t[i] /\ b[i] = x[i]
    BY <1>1, <2>1, PrefixOf
  <2>3. \A i \in 1 .. k : a[i] = b[i]
    BY <1>1, <2>2
  <2> HIDE DEF a, b
  <2>4. a = b
    BY <2>2, <2>3, SameSequence
  <2> QED
    BY <2>1, <2>4 DEF a, b
<1>3. SubSeq(t, k + 1, Len(t)) = Append(SubSeq(x, k + 1, Len(x)), name)
  <2> DEFINE a == SubSeq(t, k + 1, Len(t))
             b == SubSeq(x, k + 1, Len(x))
  <2>1. /\ a \in Seq(STRING) /\ Len(a) = Len(x) + 1 - k
        /\ \A i \in 1 .. Len(x) + 1 - k : a[i] = t[i + k]
    BY <1>1
  <2>2. /\ b \in Seq(STRING) /\ Len(b) = Len(x) - k
        /\ \A i \in 1 .. Len(x) - k : b[i] = x[i + k]
    OBVIOUS
  <2> HIDE DEF a, b
  <2>0. PICK c : c = Append(b, name) /\ Extends(c, b, name)
    BY <2>2, Appended
  <2>3. /\ c \in Seq(STRING) /\ Len(c) = Len(b) + 1 /\ c[Len(b) + 1] = name
        /\ \A i \in 1 .. Len(b) : c[i] = b[i]
    BY <2>0 DEF Extends
  <2>4. Len(c) = Len(a) /\ Len(a) = Len(x) + 1 - k /\ Len(x) \in Nat
    BY <2>1, <2>2, <2>3
  <2>5. ASSUME NEW i \in 1 .. Len(a) PROVE a[i] = c[i]
    <3>1. CASE i = Len(x) + 1 - k
      <4>1. i \in 1 .. Len(x) + 1 - k /\ i + k = Len(x) + 1 /\ i = Len(b) + 1
        BY <2>2, <2>4, <3>1
      <4>2. a[i] = t[Len(x) + 1] /\ c[i] = name
        BY <2>1, <2>3, <4>1
      <4> QED
        BY <1>1, <4>2
    <3>2. CASE i \in 1 .. Len(x) - k
      <4>1. a[i] = t[i + k] /\ c[i] = x[i + k] /\ i + k \in 1 .. Len(x)
        BY <2>1, <2>2, <2>3, <2>4, <3>2
      <4> QED
        BY <1>1, <4>1
    <3> QED
      BY <2>4, <3>1, <3>2
  <2> QED
    BY <2>0, <2>1, <2>3, <2>4, <2>5, SameSequence DEF a, b
<1>4. target \in Seq(STRING) /\ SubSeq(x, k + 1, Len(x)) \in Seq(STRING)
  BY PathsAreSequences
<1>5. target \o Append(SubSeq(x, k + 1, Len(x)), name) = Append(target \o SubSeq(x, k + 1, Len(x)), name)
  <2> DEFINE rest == SubSeq(x, k + 1, Len(x))
  <2> HIDE DEF rest, target
  <2>1. target \in Seq(STRING) /\ rest \in Seq(STRING)
    BY <1>4 DEF rest
  <2>2. target \o Append(rest, name) = Append(target \o rest, name)
    BY <2>1, Regroup
  <2> QED
    BY <2>2 DEF rest
<1>6. Redirect(t, k) = target \o SubSeq(t, k + 1, Len(t)) /\ Redirect(x, k) = target \o SubSeq(x, k + 1, Len(x))
  BY <1>2 DEF Redirect
<1> QED
  BY <1>0, <1>2, <1>3, <1>5, <1>6

(* The links on the way to the last segment.                                 *)
LEMMA FollowDirAims ==
  ASSUME NoNewLinks, NEW y \in Paths, NEW x \in Aims[y]
  PROVE  FollowDir(x) \in Aims[y]
<1>1. Links \subseteq DOMAIN LinkTarget /\ x \in Seq(STRING) /\ x # << >>
  BY AimsClosed, LinksHaveTargets, PathsAreSequences
<1>2. Front(x) \in Seq(STRING) /\ Last(x) \in STRING /\ Append(Front(x), Last(x)) = x
  BY <1>1, FrontAndLast
<1> DEFINE T == {s \in Seq(STRING) : Append(s, Last(x)) \in Aims[y]}
<1>3. Front(x) \in T
  BY <1>2
<1>4. ASSUME NEW s \in Seq(STRING), s \in T PROVE StepIn(Links, s) \in T
  <2>1. StepIn(Links, s) \in Seq(STRING)
        /\ (StepIn(Links, s) = s \/ \E k \in OnIn(Links, s) : StepIn(Links, s) = Redirect(s, k))
    BY <1>1, StepInTyped
  <2>2. ASSUME NEW k \in OnIn(Links, s)
        PROVE  Append(Redirect(s, k), Last(x)) \in Aims[y]
    <3>1. k \in 1 .. Len(s) /\ SubSeq(s, 1, k) \in DOMAIN LinkTarget
      BY <1>1 DEF OnIn
    <3>2. /\ SubSeq(Append(s, Last(x)), 1, k) = SubSeq(s, 1, k) /\ k \in 1 .. Len(Append(s, Last(x)))
          /\ Redirect(Append(s, Last(x)), k) = Append(Redirect(s, k), Last(x))
      BY <1>2, <3>1, RedirectName
    <3>3. Redirect(Append(s, Last(x)), k) \in Aims[y]
      BY <1>4, <3>1, <3>2, AimsClosed
    <3> QED
      BY <3>2, <3>3
  <2> QED
    BY <1>4, <2>1, <2>2
<1> HIDE DEF T
<1>5. FollowIn(Links, Front(x)) \in T
  BY <1>1, <1>2, <1>3, <1>4, FollowKeeps
<1> QED
  BY <1>5, FollowsLinks DEF FollowDir, T

----------------------------------------------------------------------------
(* Where a request ends on the volumes.                                     *)

StartsAsLink(x) == x \in Paths /\ InitialTree[x] = Link

(* No directory on the way to x is a link, nor is x.                        *)
PlainBefore(x) == \A k \in 1 .. Len(x) - 1 : ~StartsAsLink(SubSeq(x, 1, k))
Plain(x) == \A k \in 1 .. Len(x) : ~StartsAsLink(SubSeq(x, 1, k))

LEMMA PlainStays ==
  ASSUME NoNewLinks, NEW x \in Seq(STRING), Plain(x)
  PROVE  Follow(x) = x
<1>1. OnIn(Links, x) = {}
  BY DEF OnIn, Links, NoNewLinks, Plain, StartsAsLink
<1> QED
  BY <1>1, LinksHaveTargets, FollowPlain, FollowsLinks

(* One step of JoinSecure.                                                  *)
LEMMA WalkTyped ==
  ASSUME NoNewLinks, NEW cur \in Seq(STRING), NEW name \in STRING
  PROVE  Walk(cur, name) \in Seq(STRING)
<1> DEFINE next == Append(cur, name)
           dir == FollowDir(next)
<1>1. next \in Seq(STRING)
  BY AppendProperties
<1> HIDE DEF next, dir
<1>2. Node(dir) = Link => dir \in DOMAIN LinkTarget
  BY NodeIsLink, LinksHaveTargets
<1>3. Walk(cur, name) = IF Node(dir) = Link THEN LinkTarget[dir] ELSE next
  BY DEF Walk, next, dir
<1> QED
  BY <1>1, <1>2, <1>3, PathsAreSequences

LEMMA WalkPlain ==
  ASSUME NoNewLinks, NEW cur \in Seq(STRING), Plain(cur), NEW name \in STRING
  PROVE  Walk(cur, name) = IF Append(cur, name) \in Links THEN LinkTarget[Append(cur, name)]
                           ELSE Append(cur, name)
<1>1. FollowDir(Append(cur, name)) = Append(cur, name)
  BY Parts, PlainStays DEF FollowDir
<1>2. Node(Append(cur, name)) = Link <=> Append(cur, name) \in Links
  BY NodeIsLink
<1> QED
  BY <1>1, <1>2 DEF Walk

(* The places that JoinSecure comes through.                                *)
LEMMA Joining ==
  ASSUME NoNewLinks, NEW root \in Seq(STRING), NEW path \in Seq(STRING)
  PROVE  \E at \in [0 .. Len(path) -> Seq(STRING)] :
           /\ at[0] = root
           /\ \A k \in 1 .. Len(path) : at[k] = Walk(at[k - 1], path[k])
           /\ JoinSecure(root, path) = at[Len(path)]
<1> DEFINE N == Len(path)
           T == Seq(STRING)
           step == [k \in 1 .. N |-> [cur \in T |-> Walk(cur, path[k])]]
           Is(f) == f = [k \in 0 .. N |-> IF k = 0 THEN root ELSE Walk(f[k - 1], path[k])]
           at == CHOOSE f : Is(f)
<1>1. N \in Nat /\ \A k \in 1 .. N : path[k] \in STRING
  OBVIOUS
<1>2. step \in [1 .. N -> [T -> T]] /\ root \in T
  BY <1>1, WalkTyped
<1>3. PICK g : Iterates(g, T, N, root, step)
  <2> HIDE DEF step, N, T
  <2> QED
    BY <1>1, <1>2, Iteration
<1>4. /\ g \in [0 .. N -> T] /\ g[0] = root
      /\ \A k \in 1 .. N : g[k] = Walk(g[k - 1], path[k])
  <2> HIDE DEF T
  <2>1. /\ g \in [0 .. N -> T] /\ g[0] = root
        /\ \A k \in 1 .. N : g[k] = step[k][g[k - 1]]
    BY <1>3 DEF Iterates
  <2>2. ASSUME NEW k \in 1 .. N PROVE g[k - 1] \in T
    BY <1>1, <2>1
  <2> QED
    BY <2>1, <2>2
<1>5. Is(g)
  BY <1>1, <1>4
<1>6. Is(at)
  <2> HIDE DEF Is
  <2> QED
    BY <1>5
<1>7. JoinSecure(root, path) = at[N]
  BY DEF JoinSecure, Joined
<1>8. at[0] = root /\ \A k \in 1 .. N : at[k] = Walk(at[k - 1], path[k])
  <2> HIDE DEF at
  <2> QED
    BY <1>1, <1>6
<1> DEFINE S == {k \in Nat : k <= N => at[k] \in Seq(STRING)}
<1>9. 0 \in S
  <2> HIDE DEF at
  <2> QED
    BY <1>8
<1>10. ASSUME NEW k \in Nat, k \in S
       PROVE  k + 1 \in S
  <2> HIDE DEF at
  <2> SUFFICES ASSUME k + 1 <= N PROVE at[k + 1] \in Seq(STRING)
    OBVIOUS
  <2>1. at[k] \in Seq(STRING) /\ path[k + 1] \in STRING
    BY <1>1, <1>10
  <2>2. at[k + 1] = Walk(at[k], path[k + 1])
    BY <1>1, <1>8
  <2> QED
    BY <2>1, <2>2, WalkTyped
<1>11. Nat \subseteq S
  <2> HIDE DEF S
  <2> QED
    BY <1>9, <1>10, SetInduction
<1>12. at \in [0 .. N -> Seq(STRING)]
  <2> HIDE DEF at
  <2>1. \A k \in 0 .. N : at[k] \in Seq(STRING)
    BY <1>1, <1>11
  <2>2. at = [k \in 0 .. N |-> at[k]]
    BY <1>6
  <2> QED
    BY <2>1, <2>2
<1> HIDE DEF at
<1> QED
  BY <1>7, <1>8, <1>12

LEMMA PlainPrefix ==
  ASSUME NEW x \in Seq(STRING), NEW d \in 0 .. Len(x),
         Plain(x) \/ (PlainBefore(x) /\ d < Len(x))
  PROVE  Plain(SubSeq(x, 1, d))
<1> SUFFICES ASSUME NEW k \in 1 .. Len(SubSeq(x, 1, d))
             PROVE  ~StartsAsLink(SubSeq(SubSeq(x, 1, d), 1, k))
  BY DEF Plain
<1>1. k \in 0 .. d /\ k \in 1 .. Len(x) /\ (d < Len(x) => k \in 1 .. Len(x) - 1)
  <2>1. Len(SubSeq(x, 1, d)) = d
    OBVIOUS
  <2> QED
    BY <2>1
<1>2. SubSeq(SubSeq(x, 1, d), 1, k) = SubSeq(x, 1, k)
  BY <1>1, PrefixOfPrefix
<1> QED
  BY <1>1, <1>2 DEF Plain, PlainBefore

(* The directories on the way are as they are named; only what the last     *)
(* segment names may be a link.                                            *)
LEMMA JoinSecureEnds ==
  ASSUME NoNewLinks, NEW root \in Seq(STRING), NEW path \in Seq(STRING),
         PlainBefore(root \o path), Plain(root)
  PROVE  JoinSecure(root, path) = IF path # << >> /\ root \o path \in Links
                                  THEN LinkTarget[root \o path] ELSE root \o path
<1> DEFINE N == Len(path)
           L == Len(root)
           all == root \o path
<1>1. PICK at \in [0 .. N -> Seq(STRING)] :
        /\ at[0] = root
        /\ \A k \in 1 .. N : at[k] = Walk(at[k - 1], path[k])
        /\ JoinSecure(root, path) = at[N]
  BY Joining
<1>2. /\ N \in Nat /\ L \in Nat /\ all \in Seq(STRING) /\ Len(all) = L + N
      /\ \A k \in 1 .. N : all[L + k] = path[k] /\ path[k] \in STRING
  OBVIOUS
<1>3. SubSeq(all, 1, L) = root
  OBVIOUS
<1> HIDE DEF all, N, L
(* One step on, as long as the place is the one that is named.              *)
<1>4. ASSUME NEW k \in 0 .. N - 1, at[k] = SubSeq(all, 1, L + k)
      PROVE  /\ L + (k + 1) \in 1 .. Len(all)
             /\ at[k + 1] = IF SubSeq(all, 1, L + (k + 1)) \in Links
                            THEN LinkTarget[SubSeq(all, 1, L + (k + 1))]
                            ELSE SubSeq(all, 1, L + (k + 1))
  <2>1. L + k \in 0 .. Len(all) - 1 /\ k + 1 \in 1 .. N /\ L + (k + 1) = L + k + 1 /\ (k + 1) - 1 = k
    <3>1. N \in Nat /\ L \in Nat /\ Len(all) = L + N
      BY <1>2
    <3> QED
      BY <3>1
  <2>2. SubSeq(all, 1, L + k + 1) = Append(SubSeq(all, 1, L + k), all[L + k + 1])
    BY <1>2, <2>1, NextPrefix
  <2>3. all[L + k + 1] = path[k + 1] /\ path[k + 1] \in STRING
    BY <1>2, <2>1
  <2>4. Plain(SubSeq(all, 1, L + k)) /\ SubSeq(all, 1, L + k) \in Seq(STRING)
    <3>1. L + k \in 0 .. Len(all) /\ L + k < Len(all)
      BY <1>2, <2>1
    <3>2. PlainBefore(all)
      BY DEF all
    <3> QED
      BY <1>2, <3>1, <3>2, PlainPrefix, PrefixOf
  <2>5. at[k + 1] = Walk(SubSeq(all, 1, L + k), path[k + 1])
    BY <1>1, <1>4, <2>1
  <2>6. at[k + 1] = IF Append(SubSeq(all, 1, L + k), path[k + 1]) \in Links
                    THEN LinkTarget[Append(SubSeq(all, 1, L + k), path[k + 1])]
                    ELSE Append(SubSeq(all, 1, L + k), path[k + 1])
    BY <2>3, <2>4, <2>5, WalkPlain
  <2>7. Append(SubSeq(all, 1, L + k), path[k + 1]) = SubSeq(all, 1, L + (k + 1))
    BY <2>1, <2>2, <2>3
  <2>8. L + (k + 1) \in 1 .. Len(all)
    BY <1>2, <2>1
  <2> QED
    BY <2>6, <2>7, <2>8
<1> DEFINE S == {k \in Nat : k <= N - 1 => at[k] = SubSeq(all, 1, L + k)}
<1>5. 0 \in S
  BY <1>1, <1>2, <1>3
<1>6. ASSUME NEW k \in Nat, k \in S
      PROVE  k + 1 \in S
  <2> SUFFICES ASSUME k + 1 <= N - 1 PROVE at[k + 1] = SubSeq(all, 1, L + (k + 1))
    OBVIOUS
  <2>1. k \in 0 .. N - 1 /\ at[k] = SubSeq(all, 1, L + k)
    BY <1>2, <1>6
  <2>2. SubSeq(all, 1, L + (k + 1)) \notin Links
    <3>1. L + (k + 1) \in 1 .. Len(all) - 1
      BY <1>2
    <3>2. ~StartsAsLink(SubSeq(all, 1, L + (k + 1)))
      BY <3>1 DEF PlainBefore, all
    <3> QED
      BY <3>2 DEF StartsAsLink, Links, NoNewLinks
  <2> QED
    BY <1>4, <2>1, <2>2
<1>7. Nat \subseteq S
  <2> HIDE DEF S
  <2> QED
    BY <1>5, <1>6, SetInduction
<1>8. CASE N = 0
  <2>1. path = << >>
    BY <1>8 DEF N
  <2>2. all = root /\ at[N] = root
    BY <1>1, <1>8, <2>1, EmptySides DEF all
  <2> QED
    BY <1>1, <2>1, <2>2 DEF all
<1>9. CASE N # 0
  <2>1. N - 1 \in 0 .. N - 1 /\ (N - 1) + 1 = N /\ N - 1 \in Nat /\ L + ((N - 1) + 1) = Len(all)
    BY <1>2, <1>9
  <2>2. at[N - 1] = SubSeq(all, 1, L + (N - 1))
    BY <1>7, <2>1
  <2>3. SubSeq(all, 1, Len(all)) = all
    BY <1>2, WholePrefix
  <2>4. at[(N - 1) + 1] = IF SubSeq(all, 1, L + ((N - 1) + 1)) \in Links
                          THEN LinkTarget[SubSeq(all, 1, L + ((N - 1) + 1))]
                          ELSE SubSeq(all, 1, L + ((N - 1) + 1))
    BY <1>4, <2>1, <2>2
  <2>5. at[N] = IF all \in Links THEN LinkTarget[all] ELSE all
    BY <2>1, <2>3, <2>4
  <2>6. path # << >>
    BY <1>9 DEF N
  <2> QED
    BY <1>1, <2>5, <2>6 DEF all
<1> QED
  BY <1>8, <1>9

----------------------------------------------------------------------------
(* The three ways in which the tree changes.                                *)

TreeOK == TypeOK /\ NoNewLinks

LEMMA FrontIn ==
  ASSUME NEW x \in Paths, Len(x) > 1
  PROVE  Front(x) \in Paths /\ x \in Below(Front(x)) /\ x # Front(x)
<1>1. x \in Seq(STRING) /\ x # << >> /\ Front(x) \in Paths
  BY PathsAreSequences, PathsAssumption
<1>2. Front(x) = SubSeq(x, 1, Len(x) - 1) /\ Front(x) \in Seq(STRING)
  BY <1>1, FrontIsPrefix
<1>3. Len(Front(x)) = Len(x) - 1 /\ \A i \in 1 .. Len(x) - 1 : Front(x)[i] = x[i]
  BY <1>1, <1>2
<1>4. IsStrictPrefix(Front(x), x)
  <2> DEFINE f == Front(x)
  <2>1. f \in Seq(STRING) /\ Len(f) < Len(x) /\ \A i \in 1 .. Len(f) : f[i] = x[i]
    BY <1>1, <1>2, <1>3
  <2> HIDE DEF f
  <2>2. IsStrictPrefix(f, x)
    BY <1>1, <2>1, StrictPrefix
  <2> QED
    BY <2>2 DEF f
<1> QED
  BY <1>1, <1>3, <1>4 DEF Below

LEMMA Values == Absent = 0 /\ Dir = -1 /\ Link = -2 /\ Inodes \subseteq Nat \ {0}
  BY InodesAreInts DEF Absent, Dir, Link

(* MkdirAll.                                                                *)
LEMMA MadeKeeps ==
  ASSUME IInv, TreeOK, NEW full \in Seq(STRING), \A x \in Made(full) : Node(x) \in {Dir, Absent},
         tree' = [x \in Paths |-> IF x \in Made(full) THEN Dir ELSE tree[x]]
  PROVE  /\ TreeOK'
         /\ \A x \in Paths : tree'[x] # tree[x] =>
              tree[x] = Absent /\ tree'[x] = Dir /\ IsPrefix(x, full)
<1>1. \A x \in Paths : tree'[x] = IF x \in Made(full) THEN Dir ELSE tree[x]
  OBVIOUS
<1>2. ASSUME NEW x \in Paths, x \in Made(full)
      PROVE  IsPrefix(x, full) /\ (Len(x) > 1 => Front(x) \in Made(full))
  <2>1. PICK k \in 1 .. Len(full) : x = SubSeq(full, 1, k)
    BY <1>2 DEF Made
  <2>2. x \in Seq(STRING) /\ Len(x) = k /\ \A i \in 1 .. k : x[i] = full[i]
    BY <2>1
  <2>3. IsPrefix(x, full)
    BY <2>2, StrictPrefix
  <2>4. ASSUME Len(x) > 1 PROVE Front(x) \in Made(full)
    <3>1. Front(x) = SubSeq(x, 1, k - 1) /\ k - 1 \in 1 .. Len(full)
      <4>1. x # << >>
        BY PathsAreSequences
      <4>2. Front(x) = SubSeq(x, 1, Len(x) - 1)
        BY <2>2, <4>1, FrontIsPrefix
      <4>3. k > 1
        BY <2>2, <2>4
      <4> QED
        BY <2>2, <4>2, <4>3
    <3>2. SubSeq(x, 1, k - 1) = SubSeq(full, 1, k - 1)
      <4>1. k \in 0 .. Len(full) /\ k - 1 \in 0 .. k
        BY <3>1
      <4> QED
        BY <2>1, <4>1, PrefixOfPrefix
    <3> QED
      BY <3>1, <3>2 DEF Made
  <2> QED
    BY <2>3, <2>4
<1>3. ASSUME NEW x \in Paths
      PROVE  /\ tree'[x] \in {Absent, Dir, Link} \cup Inodes
             /\ tree'[x] # Absent /\ Len(x) > 1 => tree'[Front(x)] = Dir
  <2>1. tree'[x] \in {Absent, Dir, Link} \cup Inodes
    BY <1>1, <1>3 DEF TreeOK, TypeOK
  <2>2. ASSUME tree'[x] # Absent, Len(x) > 1 PROVE tree'[Front(x)] = Dir
    <3>1. Front(x) \in Paths
      BY <2>2, FrontIn
    <3>2. CASE x \in Made(full)
      BY <1>1, <1>2, <2>2, <3>1, <3>2
    <3>3. CASE x \notin Made(full)
      BY <1>1, <2>2, <3>1, <3>3 DEF TreeOK, TypeOK
    <3> QED
      BY <3>2, <3>3
  <2> QED
    BY <2>1, <2>2
<1>4. \A x, y \in Paths : tree'[x] > 0 /\ tree'[x] = tree'[y] => x = y
  BY <1>1, Values DEF TreeOK, TypeOK
<1>5. NoNewLinks'
  BY <1>1, Values DEF TreeOK, NoNewLinks
<1>6. \A x \in Paths : tree'[x] # tree[x] => tree[x] = Absent
  BY <1>1 DEF Node
<1> QED
  BY <1>1, <1>2, <1>3, <1>4, <1>5, <1>6 DEF TreeOK, TypeOK

(* A file is opened, and created if it was not there.                       *)
LEMMA PutKeeps ==
  ASSUME IInv, TreeOK, NEW dst, NEW i \in Inodes,
         Node(Front(dst)) = Dir, Node(dst) \notin {Dir, Link},
         \A x \in Paths : tree[x] = i => x = dst,
         \A x \in Paths : tree'[x] = IF x = dst THEN i ELSE tree[x]
  PROVE  /\ TreeOK'
         /\ \A x \in Paths : tree'[x] # tree[x] => tree'[x] = i /\ x = dst
<1>1. \A x \in Paths : tree'[x] = IF x = dst THEN i ELSE tree[x]
  OBVIOUS
<1>2. ASSUME NEW x \in Paths
      PROVE  /\ tree'[x] \in {Absent, Dir, Link} \cup Inodes
             /\ tree'[x] # Absent /\ Len(x) > 1 => tree'[Front(x)] = Dir
  <2>1. tree'[x] \in {Absent, Dir, Link} \cup Inodes
    BY <1>1 DEF TreeOK, TypeOK
  <2>2. ASSUME tree'[x] # Absent, Len(x) > 1 PROVE tree'[Front(x)] = Dir
    <3>1. Front(x) \in Paths /\ Front(x) # x
      BY <2>2, FrontIn
    <3>2. tree[Front(x)] = Dir
      <4>1. CASE x = dst
        BY <3>1, <4>1 DEF Node
      <4>2. CASE x # dst
        BY <1>1, <2>2, <4>2 DEF TreeOK, TypeOK
      <4> QED
        BY <4>1, <4>2
    <3>3. Front(x) # dst
      BY <3>1, <3>2 DEF Node
    <3> QED
      BY <1>1, <3>1, <3>2, <3>3
  <2> QED
    BY <2>1, <2>2
<1>3. \A x, y \in Paths : tree'[x] > 0 /\ tree'[x] = tree'[y] => x = y
  BY <1>1 DEF TreeOK, TypeOK
<1>4. NoNewLinks'
  BY <1>1, Values DEF TreeOK, NoNewLinks
<1> QED
  BY <1>1, <1>2, <1>3, <1>4 DEF TreeOK, TypeOK

(* One step of RemoveAll.                                                   *)
LEMMA GoneKeeps ==
  ASSUME IInv, TreeOK, NEW top, RemoveOne(top)
  PROVE  /\ TreeOK'
         /\ \A x \in Paths : tree'[x] # tree[x] => tree'[x] = Absent /\ x \in AtOrBelow(top)
<1>1. PICK z \in AtOrBelow(top) :
        (\A y \in Below(z) : tree[y] = Absent) /\ tree' = [tree EXCEPT ![z] = Absent]
  BY DEF RemoveOne, Left
<1>2. \A x \in Paths : tree'[x] = IF x = z THEN Absent ELSE tree[x]
  BY <1>1 DEF IInv, Typed
<1>3. ASSUME NEW x \in Paths
      PROVE  /\ tree'[x] \in {Absent, Dir, Link} \cup Inodes
             /\ tree'[x] # Absent /\ Len(x) > 1 => tree'[Front(x)] = Dir
  <2>1. tree'[x] \in {Absent, Dir, Link} \cup Inodes
    BY <1>2 DEF TreeOK, TypeOK
  <2>2. ASSUME tree'[x] # Absent, Len(x) > 1 PROVE tree'[Front(x)] = Dir
    <3>1. Front(x) \in Paths /\ x \in Below(Front(x))
      BY <2>2, FrontIn
    <3>2. tree[x] # Absent
      BY <1>2, <2>2
    <3>3. Front(x) # z /\ tree[Front(x)] = Dir
      BY <1>1, <2>2, <3>1, <3>2 DEF TreeOK, TypeOK
    <3> QED
      BY <1>2, <3>1, <3>3
  <2> QED
    BY <2>1, <2>2
<1>4. \A x, y \in Paths : tree'[x] > 0 /\ tree'[x] = tree'[y] => x = y
  BY <1>2, Values DEF TreeOK, TypeOK
<1>5. NoNewLinks'
  BY <1>2, Values DEF TreeOK, NoNewLinks
<1> QED
  BY <1>1, <1>2, <1>3, <1>4, <1>5 DEF TreeOK, TypeOK

----------------------------------------------------------------------------
(* The panel and the requests.                                              *)

(* What a request is for, and what it holds once it has been resolved.      *)
RequestOK(q) ==
  q.op # "idle" =>
    /\ q.pvc \in STRING /\ q.url \in Seq(STRING) /\ q.asked \in Seq(STRING)
    /\ Routed(q.pvc, q.url) = q.asked
    /\ PlainBefore(q.asked)
    /\ q.op \in {"upload", "empty"} => Plain(q.asked)
    /\ q.op \in {"delete", "get"} => q.asked \in Paths
    /\ q.op = "upload" /\ q.pc \in {"create", "copy"} =>
         /\ ~readOnly /\ q.full = q.asked /\ q.todo \in Seq(STRING)
         /\ q.pc = "copy" => q.todo # << >>
    /\ q.op = "empty" /\ q.pc = "remove" => ~readOnly /\ q.todo \in Seq(Children(q.asked))
    /\ q.op = "delete" /\ q.pc = "remove" => ~readOnly /\ q.full \in Aims[q.asked]

RequestsOK == \A r \in Requests : RequestOK(rq[r])

(* What a request writes is what its user chose to write.                    *)
Targets ==
  \A r \in Requests : Writes(rq[r]) =>
    \A x \in Paths : tree[x] = rq[r].fd => \E y \in Children(rq[r].asked) : x \in Aims[y]

TreeInv == TreeOK /\ Plain(panel.at) /\ RequestsOK /\ Targets

(* What a step may change of the tree.                                      *)
TreeStep ==
  \A x \in Paths : tree'[x] # tree[x] =>
    /\ tree[x] = Link => tree'[x] = Absent
    /\ ~readOnly
    /\ \E r \in Requests : /\ Asked(r, x)
                           /\ tree'[x] = Absent <=> rq[r].op \in {"delete", "empty"}

LEMMA TreeStays == ASSUME TreeOK, UNCHANGED tree PROVE TreeOK' /\ TreeStep
  BY DEF TreeOK, TypeOK, NoNewLinks, TreeStep

LEMMA OneMoves ==
  ASSUME RequestsOK, UNCHANGED readOnly, NEW r \in Requests,
         \A s \in Requests \ {r} : rq'[s] = rq[s], RequestOK(rq'[r])
  PROVE  RequestsOK'
<1> SUFFICES ASSUME NEW s \in Requests PROVE RequestOK(rq[s])'
  BY DEF RequestsOK
<1>1. RequestOK(rq'[s])
  BY DEF RequestsOK
<1> QED
  BY <1>1 DEF RequestOK

LEMMA NoneMoves == ASSUME RequestsOK, UNCHANGED <<readOnly, rq>> PROVE RequestsOK'
  BY DEF RequestsOK, RequestOK

LEMMA OneEnds ==
  ASSUME IInv, RequestsOK, UNCHANGED readOnly, NEW r \in Requests, End(r)
  PROVE  RequestsOK'
<1>1. rq'[r] = Idle /\ \A s \in Requests \ {r} : rq'[s] = rq[s]
  BY RqUpdate DEF IInv, End
<1>2. RequestOK(rq'[r])
  BY <1>1, IdleOK DEF RequestOK
<1> QED
  BY <1>1, <1>2, OneMoves

(* What a link at the last segment points to.                               *)
LEMMA LinkAims ==
  ASSUME NoNewLinks, NEW x \in Paths, x \in Links
  PROVE  LinkTarget[x] \in Aims[x]
<1>1. x \in DOMAIN LinkTarget /\ x \in Seq(STRING) /\ x # << >>
  BY LinksHaveTargets, PathsAreSequences
<1>2. Len(x) \in 1 .. Len(x) /\ SubSeq(x, 1, Len(x)) = x
  <2>1. Len(x) \in Nat /\ Len(x) # 0
    BY <1>1
  <2> QED
    BY <1>1, <2>1, WholePrefix
<1>3. Redirect(x, Len(x)) \in Aims[x]
  BY <1>1, <1>2, AimsClosed
<1>4. SubSeq(x, Len(x) + 1, Len(x)) = << >> /\ LinkTarget[x] \in Seq(STRING)
  BY <1>1, PathsAreSequences
<1>5. Redirect(x, Len(x)) = LinkTarget[x]
  BY <1>2, <1>4, EmptySides DEF Redirect
<1> QED
  BY <1>3, <1>5

(* Where the agent takes the path of a request.                             *)
LEMMA FullPathAims ==
  ASSUME TreeInv, NEW r \in Requests, rq[r].op # "idle"
  PROVE  /\ FullPath(rq[r]) \in Seq(STRING)
         /\ rq[r].asked \in Paths => FullPath(rq[r]) \in Aims[rq[r].asked]
         /\ Plain(rq[r].asked) => FullPath(rq[r]) = rq[r].asked
<1>1. PICK v \in STRING, url \in Seq(STRING) : v = rq[r].pvc /\ url = rq[r].url
  BY DEF TreeInv, RequestsOK, RequestOK
<1> DEFINE root == DataRoot(v)
           path == Rewrite(v, url)
           all == root \o path
<1>2. root \in Seq(STRING) /\ Len(root) \in {0, 1}
  <2>1. <<v>> \in Seq(STRING) /\ << >> \in Seq(STRING) /\ Len(<<v>>) = 1 /\ Len(<< >>) = 0
    BY Singleton
  <2> QED
    BY <2>1 DEF DataRoot
<1>3. path \in Seq(STRING)
  <2>1. <<v>> \in Seq(STRING)
    BY Singleton
  <2>2. <<v>> \o url \in Seq(STRING)
    BY <2>1
  <2> QED
    BY <2>2 DEF Rewrite
<1>4. all = rq[r].asked /\ PlainBefore(all) /\ NoNewLinks
  BY <1>1 DEF TreeInv, TreeOK, RequestsOK, RequestOK, Routed
<1>5. FullPath(rq[r]) = JoinSecure(root, path)
  BY <1>1 DEF FullPath
<1>6. Concats(all, root, path)
  BY <1>2, <1>3, Concatenated
<1> HIDE DEF root, path, all
<1>7. path = << >> => all = root
  BY <1>2, EmptySides DEF all
<1>8. all \in Seq(STRING) /\ Len(all) = Len(root) + Len(path)
  BY <1>6 DEF Concats
<1>9. Plain(root) \/ path = << >>
  <2> SUFFICES ASSUME path # << >> PROVE Plain(root)
    OBVIOUS
  <2>1. Len(path) > 0 /\ Len(root) \in 0 .. Len(all) /\ Len(root) < Len(all)
    <3>1. Len(path) \in Nat /\ Len(path) # 0
      BY <1>3
    <3> QED
      BY <1>2, <1>8, <3>1
  <2>2. SubSeq(all, 1, Len(root)) = root
    <3> DEFINE p == SubSeq(all, 1, Len(root))
    <3>1. p \in Seq(STRING) /\ Len(p) = Len(root) /\ \A i \in 1 .. Len(root) : p[i] = all[i]
      BY <1>8, <2>1, PrefixOf
    <3>2. \A i \in 1 .. Len(root) : all[i] = root[i]
      BY <1>6 DEF Concats
    <3> HIDE DEF p
    <3>3. p = root
      BY <1>2, <3>1, <3>2, SameSequence
    <3> QED
      BY <3>3 DEF p
  <2> QED
    BY <1>4, <1>8, <2>1, <2>2, PlainPrefix
<1>10. FullPath(rq[r]) = IF path # << >> /\ all \in Links THEN LinkTarget[all] ELSE all
  <2>1. CASE Plain(root)
    BY <1>2, <1>3, <1>4, <1>5, <2>1, JoinSecureEnds DEF all
  <2>2. CASE path = << >>
    <3>1. JoinSecure(root, path) = root
      <4>1. PICK at \in [0 .. Len(path) -> Seq(STRING)] :
              at[0] = root /\ JoinSecure(root, path) = at[Len(path)]
        BY <1>2, <1>3, <1>4, Joining
      <4>2. Len(path) = 0
        BY <2>2
      <4> QED
        BY <4>1, <4>2
    <3> QED
      BY <1>5, <1>7, <2>2, <3>1
  <2> QED
    BY <1>9, <2>1, <2>2
<1>11. all \in Links => LinkTarget[all] \in Seq(STRING)
  BY <1>4, LinksHaveTargets, PathsAreSequences
<1>12. ASSUME all \in Paths PROVE FullPath(rq[r]) \in Aims[all]
  <2>1. all \in Aims[all]
    BY <1>12, AimsClosed
  <2>2. all \in Links => LinkTarget[all] \in Aims[all]
    BY <1>4, <1>12, LinkAims
  <2> QED
    BY <1>10, <2>1, <2>2
<1>13. ASSUME Plain(all), path # << >> PROVE all \notin Links
  <2>1. Len(all) \in 1 .. Len(all) /\ SubSeq(all, 1, Len(all)) = all
    <3>1. Len(path) \in Nat /\ Len(path) # 0 /\ Len(root) \in Nat
      BY <1>2, <1>3, <1>13
    <3>2. Len(all) \in Nat /\ Len(all) # 0
      BY <1>8, <3>1
    <3> QED
      BY <1>8, <3>2, WholePrefix
  <2>2. ~StartsAsLink(all)
    BY <1>13, <2>1 DEF Plain
  <2> QED
    BY <1>4, <2>2 DEF StartsAsLink, Links, NoNewLinks
<1> QED
  BY <1>4, <1>8, <1>10, <1>11, <1>12, <1>13

LEMMA PlainChild ==
  ASSUME NEW dir \in Seq(STRING), Plain(dir), NEW x \in Children(dir)
  PROVE  PlainBefore(x) /\ (InitialTree[x] = Dir => Plain(x))
<1>1. x \in Seq(STRING) /\ Len(x) = Len(dir) + 1 /\ x \in Paths
  BY BelowTyped DEF Children
<1>2. IsPrefix(dir, x)
  BY DEF Children, Below, IsStrictPrefix
<1>3. SubSeq(x, 1, Len(dir)) = dir
  <2>1. \A i \in 1 .. Len(dir) : dir[i] = x[i]
    BY <1>1, <1>2, StrictPrefix
  <2> DEFINE p == SubSeq(x, 1, Len(dir))
  <2>2. Len(dir) \in 0 .. Len(x)
    BY <1>1
  <2>3. p \in Seq(STRING) /\ Len(p) = Len(dir) /\ \A i \in 1 .. Len(dir) : p[i] = x[i]
    BY <1>1, <2>2, PrefixOf
  <2> HIDE DEF p
  <2>4. p = dir
    BY <2>1, <2>3, SameSequence
  <2> QED
    BY <2>4 DEF p
<1>4. ASSUME NEW k \in 1 .. Len(x) - 1
      PROVE  ~StartsAsLink(SubSeq(x, 1, k))
  <2>1. Len(dir) \in 0 .. Len(x) /\ k \in 0 .. Len(dir) /\ k \in 1 .. Len(dir)
    BY <1>1
  <2>2. SubSeq(SubSeq(x, 1, Len(dir)), 1, k) = SubSeq(x, 1, k)
    BY <1>1, <2>1, PrefixOfPrefix
  <2>3. ~StartsAsLink(SubSeq(dir, 1, k))
    BY <2>1 DEF Plain
  <2> QED
    BY <1>3, <2>2, <2>3
<1>5. ASSUME InitialTree[x] = Dir, NEW k \in 1 .. Len(x)
      PROVE  ~StartsAsLink(SubSeq(x, 1, k))
  <2>1. CASE k <= Len(x) - 1
    BY <1>1, <1>4, <2>1
  <2>2. CASE k = Len(x)
    <3>1. SubSeq(x, 1, k) = x
      BY <1>1, <2>2, WholePrefix
    <3>2. ~StartsAsLink(x)
      BY <1>5, Values DEF StartsAsLink
    <3> QED
      BY <3>1, <3>2
  <2> QED
    BY <1>1, <2>1, <2>2
<1> QED
  BY <1>4, <1>5 DEF PlainBefore, Plain

LEMMA PanelStaysPlain ==
  ASSUME PanelInv, PanelInv', Plain(panel.at), OpenDir \/ Breadcrumb \/ UNCHANGED panel
  PROVE  Plain(panel.at)'
<1>0. panel.at \in Seq(STRING) /\ panel'.at \in Seq(STRING) /\ panel.path \in Seq(STRING)
  BY DEF PanelInv
<1>1. CASE OpenDir
  <2>1. PICK x \in Children(panel.at) : InitialTree[x] = Dir /\ panel'.at = x
    BY <1>1 DEF OpenDir, PanelInv
  <2>2. Plain(panel'.at)
    BY <1>0, <2>1, PlainChild
  <2> QED
    BY <2>2 DEF Plain, StartsAsLink
<1>2. CASE Breadcrumb
  <2>1. PICK d : panel'.at = SubSeq(panel.at, 1, d) /\ d \in 0 .. Len(panel.at)
    <3> DEFINE v == panel.pvc
               path == panel.path
               at == panel.at
    <3>1. PICK crumb \in Breadcrumbs(path) :
            panel' = [panel EXCEPT !.path = crumb,
                        !.at = SubSeq(at, 1, IF crumb = << >> THEN 1 ELSE Len(at) - (Len(path) - Len(crumb)))]
      BY <1>2 DEF Breadcrumb
    <3>2. PICK d : d = IF crumb = << >> THEN 1 ELSE Len(at) - (Len(path) - Len(crumb))
      OBVIOUS
    <3>3. Len(crumb) \in 0 .. Len(path)
      BY <1>0, <3>1, PrefixOf DEF Breadcrumbs
    <3>4. panel'.at = SubSeq(at, 1, d)
      BY <3>1, <3>2 DEF PanelInv
    <3>5. Len(at) >= 1 /\ Len(at) >= Len(path)
      <4>1. v \in STRING /\ DataRoot(v) \o Rewrite(v, path) = at
        BY PvcNames DEF PanelInv, Routed
      <4>2. << >> \o path = path /\ << >> \o (<<v>> \o path) = <<v>> \o path
        <5>1. <<v>> \o path \in Seq(STRING)
          BY <1>0, <4>1
        <5> QED
          BY <1>0, <5>1, EmptySides
      <4>3. (at = path /\ path # << >>) \/ at = <<v>> \o path
        BY <4>1, <4>2, ModeAssumption DEF DataRoot, Rewrite
      <4>4. Len(<<v>> \o path) = 1 + Len(path) /\ Len(path) \in Nat /\ (path # << >> => Len(path) >= 1)
        BY <1>0, <4>1
      <4> HIDE DEF at, path, v
      <4> QED
        BY <4>3, <4>4
    <3>6. d \in 0 .. Len(at)
      <4>1. Len(at) \in Nat /\ Len(path) \in Nat
        BY <1>0
      <4> HIDE DEF at, path
      <4> QED
        BY <3>2, <3>3, <3>5, <4>1
    <3> QED
      BY <3>4, <3>6
  <2>2. Plain(panel'.at)
    BY <1>0, <2>1, PlainPrefix
  <2> QED
    BY <2>2 DEF Plain, StartsAsLink
<1>3. CASE UNCHANGED panel
  BY <1>3 DEF Plain, StartsAsLink
<1> QED
  BY <1>1, <1>2, <1>3

----------------------------------------------------------------------------
(* The invariant under each action, and what the action may change.         *)

LEMMA AskSettles ==
  ASSUME IInv, PanelInv, TreeInv, NEW r \in Requests, Ask(r)
  PROVE  RequestsOK'
<1> DEFINE v == panel.pvc
           path == panel.path
           at == panel.at
<1>1. /\ v \in STRING /\ path \in Seq(STRING) /\ at \in Seq(STRING) /\ Plain(at)
      /\ Mode = "agent-per-namespace" /\ path # << >> => path[1] = v
      /\ Routed(v, path) = at
  BY PvcNames DEF PanelInv, TreeInv
<1>2. PICK op, pc, asked, url :
        /\ Begin(r, op, pc, asked, url)
        /\ op \in {"upload", "get", "delete", "empty"} /\ pc \in {"mkdir", "open", "resolve"}
        /\ url \in Seq(STRING) /\ asked \in Seq(STRING) /\ Routed(v, url) = asked
        /\ PlainBefore(asked) /\ (op \in {"upload", "empty"} => Plain(asked))
        /\ op \in {"empty", "delete"} => pc = "resolve"
        /\ op \in {"delete", "get"} => asked \in Paths
  <2>1. CASE AskDirectory(r)
    <3>1. PICK ask \in {<<"upload", "mkdir">>, <<"empty", "resolve">>} :
            Begin(r, ask[1], ask[2], at, path)
      BY <2>1 DEF AskDirectory
    <3>2. PlainBefore(at)
      BY <1>1 DEF Plain, PlainBefore
    <3> HIDE DEF v, path, at
    <3> QED
      BY <1>1, <3>1, <3>2
  <2>2. CASE AskEntry(r)
    <3>1. PICK x \in Children(at) :
            \E ask \in {<<"delete", "resolve">>,
                        IF InitialTree[x] = Dir THEN <<"upload", "mkdir">> ELSE <<"get", "open">>} :
              Begin(r, ask[1], ask[2], x, EntryPath(v, path, Last(x)))
      BY <2>2 DEF AskEntry
    <3> DEFINE next == EntryPath(v, path, Last(x))
    <3> HIDE DEF v, path, at
    <3>2. Last(x) \in STRING /\ x = Append(at, Last(x)) /\ x \in Seq(STRING)
      BY <1>1, ChildIsEntry
    <3>3. next \in Seq(STRING) /\ Routed(v, next) = x
      BY <1>1, <3>2, RoutedEntry
    <3>4. PlainBefore(x) /\ (InitialTree[x] = Dir => Plain(x)) /\ x \in Paths
      BY <1>1, PlainChild, BelowTyped DEF Children
    <3> HIDE DEF next
    <3>5. \/ Begin(r, "delete", "resolve", x, next)
          \/ InitialTree[x] = Dir /\ Begin(r, "upload", "mkdir", x, next)
          \/ Begin(r, "get", "open", x, next)
      BY <3>1 DEF next
    <3> QED
      BY <3>2, <3>3, <3>4, <3>5
  <2> QED
    BY <2>1, <2>2 DEF Ask
<1> DEFINE q == [Idle EXCEPT !.op = op, !.pc = pc, !.pvc = v, !.asked = asked, !.url = url]
<1>3. q.op = op /\ q.pc = pc /\ q.pvc = v /\ q.asked = asked /\ q.url = url
  BY DEF Idle
<1>4. rq' = [rq EXCEPT ![r] = q] /\ UNCHANGED readOnly
  BY <1>2 DEF Begin
<1> HIDE DEF q, v, path, at
<1>5. rq'[r] = q /\ \A s \in Requests \ {r} : rq'[s] = rq[s]
  BY <1>4, RqUpdate DEF IInv
<1>6. RequestOK(q)
  BY <1>1, <1>2, <1>3 DEF RequestOK
<1> QED
  BY <1>4, <1>5, <1>6, OneMoves DEF TreeInv

(* A download needs no more than what it was asked for with.                *)
LEMMA SameToAll ==
  ASSUME IInv, RequestsOK, UNCHANGED readOnly, NEW r \in Requests, NEW q,
         rq' = [rq EXCEPT ![r] = q], q.op = rq[r].op, q.op = "get", q.pvc = rq[r].pvc,
         q.url = rq[r].url, q.asked = rq[r].asked
  PROVE  RequestsOK'
<1>1. rq'[r] = q /\ \A s \in Requests \ {r} : rq'[s] = rq[s]
  BY RqUpdate DEF IInv
<1>2. RequestOK(q)
  BY DEF RequestsOK, RequestOK
<1> QED
  BY <1>1, <1>2, OneMoves

LEMMA DownloadSettles ==
  ASSUME IInv, RequestsOK, NEW r \in Requests, Download(r)
  PROVE  RequestsOK'
<1>1. UNCHANGED readOnly /\ rq[r].op = "get" /\ LocalOK(rq[r])
  BY DEF Download, Open, NotModified, SendHeader, Send, Sent, At, IInv, Typed
<1>2. CASE End(r)
  BY <1>1, <1>2, OneEnds
<1>3. CASE \E fd : rq' = [rq EXCEPT ![r].pc = "stat", ![r].fd = fd]
  <2>1. PICK fd : rq' = [rq EXCEPT ![r].pc = "stat", ![r].fd = fd]
    BY <1>3
  <2> DEFINE q == [rq[r] EXCEPT !.pc = "stat", !.fd = fd]
  <2>2. rq' = [rq EXCEPT ![r] = q]
    BY <2>1
  <2>3. q.op = rq[r].op /\ q.pvc = rq[r].pvc /\ q.url = rq[r].url /\ q.asked = rq[r].asked
    BY <1>1, Fields DEF LocalOK
  <2> HIDE DEF q
  <2> QED
    BY <1>1, <2>2, <2>3, SameToAll
<1>4. CASE \E tag, sure : rq' = [rq EXCEPT ![r].pc = "send", ![r].mtime = tag[1], ![r].size = tag[2],
                                  ![r].sure = sure]
  <2>1. PICK tag, sure : rq' = [rq EXCEPT ![r].pc = "send", ![r].mtime = tag[1], ![r].size = tag[2],
                                  ![r].sure = sure]
    BY <1>4
  <2> DEFINE q == [rq[r] EXCEPT !.pc = "send", !.mtime = tag[1], !.size = tag[2],
                                  !.sure = sure]
  <2>2. rq' = [rq EXCEPT ![r] = q]
    BY <2>1
  <2>3. q.op = rq[r].op /\ q.pvc = rq[r].pvc /\ q.url = rq[r].url /\ q.asked = rq[r].asked
    BY <1>1, Fields DEF LocalOK
  <2> HIDE DEF q
  <2> QED
    BY <1>1, <2>2, <2>3, SameToAll
<1>5. CASE Send(r)
  <2>1. PICK c : rq' = [rq EXCEPT ![r].body = Append(@, c)]
    BY <1>5 DEF Send
  <2> DEFINE q == [rq[r] EXCEPT !.body = Append(@, c)]
  <2>2. rq' = [rq EXCEPT ![r] = q]
    BY <2>1
  <2>3. q.op = rq[r].op /\ q.pvc = rq[r].pvc /\ q.url = rq[r].url /\ q.asked = rq[r].asked
    BY <1>1, Fields DEF LocalOK
  <2> HIDE DEF q
  <2> QED
    BY <1>1, <2>2, <2>3, SameToAll
<1> QED
  BY <1>2, <1>3, <1>4, <1>5 DEF Download, Open, NotModified, SendHeader, Sent

LEMMA MkdirAllSettles ==
  ASSUME IInv, TreeInv, NEW r \in Requests, MkdirAll(r)
  PROVE  RequestsOK' /\ TreeOK' /\ TreeStep
<1> DEFINE full == FullPath(rq[r])
<1>1. /\ rq[r].op = "upload" /\ rq[r].pc = "mkdir" /\ ~readOnly /\ UNCHANGED readOnly
      /\ uploaded' = uploaded + 1 /\ uploaded < Len(Uploads)
  BY DEF MkdirAll, At
<1>2. TreeOK /\ RequestsOK /\ RequestOK(rq[r]) /\ LocalOK(rq[r])
  BY DEF TreeInv, RequestsOK, IInv, Typed
<1>3. full \in Seq(STRING) /\ full = rq[r].asked /\ Follow(full) = full
  <2>1. full \in Seq(STRING) /\ full = rq[r].asked /\ Plain(rq[r].asked)
    BY <1>1, <1>2, FullPathAims DEF RequestOK
  <2> QED
    BY <1>2, <2>1, PlainStays DEF TreeOK
<1>4. CASE End(r) /\ UNCHANGED tree
  BY <1>1, <1>2, <1>4, OneEnds, TreeStays
<1>5. CASE /\ ~Blocked(full)
           /\ tree' = [x \in Paths |-> IF x \in Made(Follow(full)) THEN Dir ELSE tree[x]]
           /\ rq' = [rq EXCEPT ![r].pc = "create", ![r].full = full, ![r].upload = uploaded',
                               ![r].todo = Uploads[uploaded'].names]
  <2> DEFINE q == [rq[r] EXCEPT !.pc = "create", !.full = full, !.upload = uploaded',
                                !.todo = Uploads[uploaded'].names]
  <2>1. rq' = [rq EXCEPT ![r] = q]
    BY <1>5
  <2>2. /\ q.op = rq[r].op /\ q.pvc = rq[r].pvc /\ q.url = rq[r].url /\ q.asked = rq[r].asked
        /\ q.pc = "create" /\ q.full = full /\ q.todo = Uploads[uploaded'].names
    BY <1>2, Fields DEF LocalOK
  <2>3. uploaded' \in 1 .. Len(Uploads)
    BY <1>1, UploadsTyped DEF IInv, Typed
  <2> HIDE DEF q, full
  <2>4. rq'[r] = q /\ \A s \in Requests \ {r} : rq'[s] = rq[s]
    BY <2>1, RqUpdate DEF IInv
  <2>5. RequestOK(q)
    BY <1>1, <1>2, <1>3, <2>2, <2>3, UploadsTyped DEF RequestOK
  <2>6. TreeOK' /\ \A x \in Paths : tree'[x] # tree[x] =>
          tree[x] = Absent /\ tree'[x] = Dir /\ IsPrefix(x, full)
    <3>1. \A x \in Made(full) : Node(x) \in {Dir, Absent}
      BY <1>3, <1>5 DEF Blocked
    <3> QED
      BY <1>2, <1>3, <1>5, <3>1, MadeKeeps
  <2>7. TreeStep
    BY <1>1, <1>3, <2>6, Values DEF TreeStep, Asked
  <2> QED
    BY <1>1, <1>2, <2>4, <2>5, <2>6, <2>7, OneMoves
<1> QED
  BY <1>4, <1>5 DEF MkdirAll

LEMMA JoinOne ==
  ASSUME NoNewLinks, NEW dir \in Seq(STRING), NEW name \in STRING
  PROVE  JoinSecure(dir, <<name>>) = Walk(dir, name)
<1>1. <<name>> \in Seq(STRING) /\ Len(<<name>>) = 1 /\ <<name>>[1] = name
  BY Singleton
<1> DEFINE path == <<name>>
<1> HIDE DEF path
<1>2. PICK at \in [0 .. Len(path) -> Seq(STRING)] :
        /\ at[0] = dir
        /\ \A k \in 1 .. Len(path) : at[k] = Walk(at[k - 1], path[k])
        /\ JoinSecure(dir, path) = at[Len(path)]
  BY <1>1, Joining DEF path
<1>3. Len(path) = 1 /\ path[1] = name
  BY <1>1 DEF path
<1>4. at[1] = Walk(at[1 - 1], path[1])
  BY <1>2, <1>3
<1> QED
  BY <1>2, <1>3, <1>4 DEF path

(* A name is put into the directory of its upload, or it is that of a link  *)
(* there, and what this leads to is written.                                *)
LEMMA NameAims ==
  ASSUME NoNewLinks, NEW dir \in Seq(STRING), Plain(dir), NEW name \in STRING,
         Follow(JoinSecure(dir, <<name>>)) \in Paths
  PROVE  \E y \in Children(dir) : Follow(JoinSecure(dir, <<name>>)) \in Aims[y]
<1>0. PICK next : next = Append(dir, name) /\ Extends(next, dir, name)
  BY Appended
<1>1. /\ next \in Seq(STRING) /\ Len(next) = Len(dir) + 1
      /\ \A i \in 1 .. Len(dir) : next[i] = dir[i]
  BY <1>0 DEF Extends
<1>2. JoinSecure(dir, <<name>>) = Walk(dir, name)
  BY JoinOne
<1>3. Walk(dir, name) = IF next \in Links THEN LinkTarget[next] ELSE next
  BY <1>0, WalkPlain
<1>4. CASE next \notin Paths
  <2>1. Walk(dir, name) = next
    BY <1>3, <1>4 DEF Links
  <2>2. OnIn(Links, next) = {}
    <3> SUFFICES ASSUME NEW k \in 1 .. Len(next), SubSeq(next, 1, k) \in Links PROVE FALSE
      BY DEF OnIn
    <3>1. CASE k = Len(next)
      BY <1>1, <1>4, <3>1, WholePrefix DEF Links
    <3>2. CASE k # Len(next)
      <4>1. k \in 0 .. Len(dir) /\ k \in 1 .. Len(dir) /\ Len(dir) \in 0 .. Len(next) /\ k \in 0 .. Len(next)
        BY <1>1, <3>2
      <4> DEFINE a == SubSeq(next, 1, k)
                 b == SubSeq(dir, 1, k)
      <4>2. a \in Seq(STRING) /\ b \in Seq(STRING) /\ Len(a) = k /\ Len(b) = k
            /\ \A i \in 1 .. k : a[i] = next[i] /\ b[i] = dir[i]
        BY <1>1, <4>1, PrefixOf
      <4>3. \A i \in 1 .. k : a[i] = b[i]
        BY <1>1, <4>1, <4>2
      <4> HIDE DEF a, b
      <4>4. a = b
        BY <4>2, <4>3, SameSequence
      <4>5. ~StartsAsLink(SubSeq(dir, 1, k))
        BY <4>1 DEF Plain
      <4> QED
        BY <4>4, <4>5 DEF a, b, StartsAsLink, Links, NoNewLinks
    <3> QED
      BY <3>1, <3>2
  <2>3. Follow(next) = next
    BY <1>1, <2>2, LinksHaveTargets, FollowPlain, FollowsLinks
  <2> QED
    BY <1>2, <1>4, <2>1, <2>3
<1>5. CASE next \in Paths
  <2>1. next \in Children(dir)
    <3>1. IsStrictPrefix(dir, next)
      <4>1. Len(dir) < Len(next)
        BY <1>1
      <4> QED
        BY <1>1, <4>1, StrictPrefix
    <3> QED
      BY <1>1, <1>5, <3>1 DEF Children, Below
  <2>2. next \in Aims[next]
    BY <1>5, AimsClosed
  <2>3. next \in Links => LinkTarget[next] \in Aims[next]
    BY <1>5, LinkAims
  <2>4. Follow(Walk(dir, name)) \in Aims[next]
    BY <1>3, <1>5, <2>2, <2>3, FollowAims
  <2> QED
    BY <1>2, <2>1, <2>4
<1> QED
  BY <1>4, <1>5

LEMMA OpenFileSettles ==
  ASSUME IInv, TreeInv, NEW r \in Requests, OpenFile(r)
  PROVE  /\ RequestsOK' /\ TreeOK' /\ TreeStep
         /\ \/ UNCHANGED <<tree, data>> /\ rq'[r] = Idle
            \/ \E dst \in Paths, i \in Inodes :
                 /\ data'[i].mtime = clock
                 /\ \A j \in Inodes : j # i => data'[j] = data[j]
                 /\ \A x \in Paths : tree'[x] = IF x = dst THEN i ELSE tree[x]
                 /\ rq'[r].fd = i /\ rq'[r].asked = rq[r].asked
                 /\ tree[dst] = i \/ (i \in Free /\ tree[dst] = Absent)
                 /\ \E y \in Children(rq[r].asked) : dst \in Aims[y]
<1> DEFINE name == Head(rq[r].todo)
           dst == Follow(JoinSecure(rq[r].full, <<name>>))
           old == Node(dst)
<1>0. PICK i : i = IF old = Absent THEN FreeInode ELSE old
  OBVIOUS
<1>1. /\ rq[r].op = "upload" /\ rq[r].pc = "create" /\ rq[r].todo # << >> /\ UNCHANGED readOnly
  BY DEF OpenFile, At
<1>2. TreeOK /\ RequestsOK /\ RequestOK(rq[r]) /\ LocalOK(rq[r]) /\ NoNewLinks
  BY DEF TreeInv, TreeOK, RequestsOK, IInv, Typed
<1>3. /\ ~readOnly /\ rq[r].full = rq[r].asked /\ rq[r].asked \in Seq(STRING) /\ Plain(rq[r].asked)
      /\ name \in STRING
  BY <1>1, <1>2 DEF RequestOK
<1>4. CASE End(r) /\ UNCHANGED <<tree, data>>
  <2>1. rq'[r] = Idle
    BY <1>4, RqUpdate DEF IInv, End
  <2> QED
    BY <1>1, <1>2, <1>4, <2>1, OneEnds, TreeStays
<1>5. CASE /\ dst \in Paths
           /\ ~(Node(Front(dst)) # Dir \/ old \in {Dir, Link} \/ (old = Absent /\ Free = {}))
           /\ Opened(r, i, old) /\ tree' = [tree EXCEPT ![dst] = i]
  <2> DEFINE q == [rq[r] EXCEPT !.pc = "copy", !.fd = i, !.size = 0]
  <2>1. rq' = [rq EXCEPT ![r] = q]
    BY <1>5 DEF Opened
  <2>2. /\ q.op = rq[r].op /\ q.pvc = rq[r].pvc /\ q.url = rq[r].url /\ q.asked = rq[r].asked
        /\ q.pc = "copy" /\ q.full = rq[r].full /\ q.todo = rq[r].todo /\ q.fd = i
    BY <1>2, Fields DEF LocalOK
  <2>3. \E y \in Children(rq[r].asked) : dst \in Aims[y]
    BY <1>2, <1>3, <1>5, NameAims
  <2> HIDE DEF q, dst, name
  <2>4. rq'[r] = q /\ \A s \in Requests \ {r} : rq'[s] = rq[s]
    BY <2>1, RqUpdate DEF IInv
  <2>5. RequestOK(q)
    BY <1>1, <1>2, <2>2 DEF RequestOK
  <2>0. i \in Inodes /\ (tree[dst] = i \/ (i \in Free /\ tree[dst] = Absent))
    <3>1. CASE old = Absent
      <4>1. i \in Free
        BY <1>0, <1>5, <3>1 DEF FreeInode
      <4> QED
        BY <1>5, <3>1, <4>1 DEF Free, Node
    <3>2. CASE old # Absent
      BY <1>0, <1>5, <3>2 DEF Node, IInv, Typed
    <3> QED
      BY <3>1, <3>2
  <2>6. \A x \in Paths : tree[x] = i => x = dst
    <3>1. CASE i \in Free
      BY <3>1 DEF Free, Referred
    <3>2. CASE tree[dst] = i
      <4>1. i > 0
        BY <2>0, Values
      <4> QED
        BY <1>2, <1>5, <3>2, <4>1 DEF TreeOK, TypeOK
    <3> QED
      BY <2>0, <3>1, <3>2
  <2>7. /\ TreeOK' /\ \A x \in Paths : tree'[x] # tree[x] => tree'[x] = i /\ x = dst
        /\ \A x \in Paths : tree'[x] = IF x = dst THEN i ELSE tree[x]
    <3>1. /\ Node(Front(dst)) = Dir /\ Node(dst) \notin {Dir, Link}
          /\ \A x \in Paths : tree'[x] = IF x = dst THEN i ELSE tree[x]
      BY <1>5 DEF IInv, Typed
    <3> HIDE DEF old
    <3> QED
      BY <1>2, <2>0, <2>6, <3>1, PutKeeps
  <2>8. TreeStep
    <3> SUFFICES ASSUME NEW x \in Paths, tree'[x] # tree[x]
                 PROVE  Asked(r, x) /\ tree'[x] # Absent /\ tree[x] # Link
      BY <1>1, <1>3 DEF TreeStep
    <3>1. x = dst /\ tree[x] # Link
      BY <1>5, <2>7 DEF Node
    <3> QED
      BY <1>1, <2>0, <2>3, <2>7, <3>1, Values DEF Asked
  <2>9. data'[i].mtime = clock /\ \A j \in Inodes : j # i => data'[j] = data[j]
    BY <1>5, <2>0 DEF Opened, IInv, Typed
  <2> QED
    BY <1>1, <1>2, <1>5, <2>0, <2>2, <2>3, <2>4, <2>5, <2>7, <2>8, <2>9, OneMoves
<1> QED
  BY <1>0, <1>4, <1>5 DEF OpenFile

LEMMA CopySettles ==
  ASSUME IInv, RequestsOK, NEW r \in Requests, Copy(r)
  PROVE  RequestsOK'
<1>1. /\ rq[r].op = "upload" /\ rq[r].pc = "copy" /\ UNCHANGED readOnly /\ LocalOK(rq[r])
      /\ rq' = [rq EXCEPT ![r].size = @ + 1] /\ RequestOK(rq[r])
  BY DEF Copy, At, IInv, Typed, RequestsOK
<1> DEFINE q == [rq[r] EXCEPT !.size = @ + 1]
<1>2. rq' = [rq EXCEPT ![r] = q]
  BY <1>1
<1>3. /\ q.op = rq[r].op /\ q.pvc = rq[r].pvc /\ q.url = rq[r].url /\ q.asked = rq[r].asked
      /\ q.pc = rq[r].pc /\ q.full = rq[r].full /\ q.todo = rq[r].todo
  BY <1>1, Fields DEF LocalOK
<1> HIDE DEF q
<1>4. rq'[r] = q /\ \A s \in Requests \ {r} : rq'[s] = rq[s]
  BY <1>2, RqUpdate DEF IInv
<1>5. RequestOK(q)
  BY <1>1, <1>3 DEF RequestOK
<1> QED
  BY <1>1, <1>4, <1>5, OneMoves

LEMMA CloseSettles ==
  ASSUME IInv, RequestsOK, NEW r \in Requests, Close(r)
  PROVE  RequestsOK'
<1>1. /\ rq[r].op = "upload" /\ rq[r].pc = "copy" /\ UNCHANGED readOnly /\ LocalOK(rq[r])
      /\ rq' = [rq EXCEPT ![r].pc = "create", ![r].todo = Tail(@), ![r].fd = 0, ![r].size = 0]
      /\ RequestOK(rq[r])
  BY DEF Close, At, IInv, Typed, RequestsOK
<1> DEFINE q == [rq[r] EXCEPT !.pc = "create", !.todo = Tail(@), !.fd = 0, !.size = 0]
<1>2. rq' = [rq EXCEPT ![r] = q]
  BY <1>1
<1>3. /\ q.op = rq[r].op /\ q.pvc = rq[r].pvc /\ q.url = rq[r].url /\ q.asked = rq[r].asked
      /\ q.pc = "create" /\ q.full = rq[r].full /\ q.todo = Tail(rq[r].todo)
  BY <1>1, Fields DEF LocalOK
<1> HIDE DEF q
<1>4. rq'[r] = q /\ \A s \in Requests \ {r} : rq'[s] = rq[s]
  BY <1>2, RqUpdate DEF IInv
<1>5. rq[r].todo \in Seq(STRING) /\ rq[r].todo # << >>
  BY <1>1 DEF RequestOK
<1>6. Tail(rq[r].todo) \in Seq(STRING)
  BY <1>5, HeadTailProperties
<1>7. RequestOK(q)
  BY <1>1, <1>3, <1>6 DEF RequestOK
<1> QED
  BY <1>1, <1>4, <1>7, OneMoves

LEMMA UploadSettles ==
  ASSUME IInv, TreeInv, NEW r \in Requests, Upload(r)
  PROVE  RequestsOK' /\ TreeOK' /\ TreeStep
<1>1. RequestsOK /\ TreeOK
  BY DEF TreeInv
<1>2. CASE Copy(r)
  BY <1>1, <1>2, CopySettles, TreeStays DEF Copy
<1>3. CASE Close(r)
  BY <1>1, <1>3, CloseSettles, TreeStays DEF Close
<1>4. CASE Created(r)
  BY <1>1, <1>4, OneEnds, TreeStays DEF Created
<1> QED
  BY <1>2, <1>3, <1>4, MkdirAllSettles, OpenFileSettles DEF Upload

LEMMA ResolveDeleteSettles ==
  ASSUME IInv, TreeInv, NEW r \in Requests, ResolveDelete(r)
  PROVE  RequestsOK'
<1> DEFINE full == FollowDir(FullPath(rq[r]))
           q == [rq[r] EXCEPT !.pc = "remove", !.full = full]
<1>1. /\ rq[r].op = "delete" /\ ~readOnly /\ UNCHANGED readOnly
      /\ RequestsOK /\ RequestOK(rq[r]) /\ LocalOK(rq[r]) /\ NoNewLinks
  BY DEF ResolveDelete, At, TreeInv, TreeOK, RequestsOK, IInv, Typed
<1>2. full \in Aims[rq[r].asked]
  <2>1. rq[r].asked \in Paths
    BY <1>1 DEF RequestOK
  <2>2. FullPath(rq[r]) \in Aims[rq[r].asked]
    BY <1>1, <2>1, FullPathAims
  <2> QED
    BY <1>1, <2>1, <2>2, FollowDirAims
<1>3. CASE End(r)
  BY <1>1, <1>3, OneEnds
<1>4. CASE rq' = [rq EXCEPT ![r].pc = "remove", ![r].full = full]
  <2>1. rq' = [rq EXCEPT ![r] = q]
    BY <1>4
  <2>2. /\ q.op = rq[r].op /\ q.pvc = rq[r].pvc /\ q.url = rq[r].url /\ q.asked = rq[r].asked
        /\ q.full = full
    BY <1>1, Fields DEF LocalOK
  <2> HIDE DEF q, full
  <2>3. rq'[r] = q /\ \A s \in Requests \ {r} : rq'[s] = rq[s]
    BY <2>1, RqUpdate DEF IInv
  <2>4. RequestOK(q)
    BY <1>1, <1>2, <2>2 DEF RequestOK
  <2> QED
    BY <1>1, <2>3, <2>4, OneMoves
<1> QED
  BY <1>3, <1>4 DEF ResolveDelete

LEMMA RemoveAllSettles ==
  ASSUME IInv, TreeInv, NEW r \in Requests, RemoveAll(r)
  PROVE  RequestsOK' /\ TreeOK' /\ TreeStep
<1>1. /\ rq[r].op = "delete" /\ rq[r].pc = "remove" /\ UNCHANGED readOnly
      /\ TreeOK /\ RequestsOK /\ RequestOK(rq[r])
  BY DEF RemoveAll, At, TreeInv, RequestsOK
<1>2. CASE End(r) /\ UNCHANGED tree
  BY <1>1, <1>2, OneEnds, TreeStays
<1>3. CASE RemoveOne(rq[r].full) /\ UNCHANGED rq
  <2>1. /\ TreeOK'
        /\ \A x \in Paths : tree'[x] # tree[x] => tree'[x] = Absent /\ x \in AtOrBelow(rq[r].full)
    BY <1>1, <1>3, GoneKeeps
  <2>2. ~readOnly /\ rq[r].full \in Aims[rq[r].asked]
    BY <1>1 DEF RequestOK
  <2>3. TreeStep
    BY <1>1, <2>1, <2>2 DEF TreeStep, Asked
  <2> QED
    BY <1>1, <1>3, <2>1, <2>3, NoneMoves
<1> QED
  BY <1>2, <1>3 DEF RemoveAll

(* SetToSeq lists a finite set.                                             *)
LEMMA ListedInFull ==
  ASSUME NEW S, IsFiniteSet(S)
  PROVE  SetToSeq(S) \in Seq(S)
<1>1. Cardinality(S) \in Nat
  BY FS_CardinalityType
<1>2. ExistsBijection(1 .. Cardinality(S), S)
  BY FS_NatBijection, FS_CountingElements, FS_CardinalityType
<1>3. PICK f \in [1 .. Cardinality(S) -> S] : IsInjective(f)
  BY <1>2 DEF ExistsBijection, Bijection, Injection, IsInjective
<1>4. SetToSeq(S) \in [1 .. Cardinality(S) -> S]
  BY <1>3 DEF SetToSeq
<1> HIDE DEF SetToSeq
<1> QED
  BY <1>1, <1>4

LEMMA ReadDirSettles ==
  ASSUME IInv, TreeInv, NEW r \in Requests, ReadDir(r)
  PROVE  RequestsOK'
<1> DEFINE full == Follow(FullPath(rq[r]))
           todo == SetToSeq(Listed(full))
           q == [rq[r] EXCEPT !.pc = "remove", !.full = full, !.todo = todo]
<1>1. /\ rq[r].op = "empty" /\ ~readOnly /\ UNCHANGED readOnly
      /\ RequestsOK /\ RequestOK(rq[r]) /\ LocalOK(rq[r])
  BY DEF ReadDir, At, TreeInv, RequestsOK, IInv, Typed
<1>2. CASE End(r)
  BY <1>1, <1>2, OneEnds
<1>3. CASE rq' = [rq EXCEPT ![r].pc = "remove", ![r].full = full, ![r].todo = todo]
  <2>1. full = rq[r].asked
    <3>1. FullPath(rq[r]) = rq[r].asked /\ Plain(rq[r].asked) /\ rq[r].asked \in Seq(STRING)
      BY <1>1, FullPathAims DEF RequestOK
    <3> QED
      BY <3>1, PlainStays DEF TreeInv, TreeOK
  <2>2. todo \in Seq(Children(rq[r].asked))
    <3>1. IsFiniteSet(Listed(full)) /\ Listed(full) \subseteq Children(full)
      BY PathsAssumption, FS_Subset DEF Listed, Children, Below
    <3>2. todo \in Seq(Listed(full))
      BY <3>1, ListedInFull
    <3> HIDE DEF todo, full
    <3>3. Len(todo) \in Nat /\ \A k \in 1 .. Len(todo) : todo[k] \in Children(full)
      BY <3>1, <3>2
    <3>4. todo \in Seq(Children(full))
      BY <3>1, <3>2, <3>3
    <3> QED
      BY <2>1, <3>4
  <2>3. rq' = [rq EXCEPT ![r] = q]
    BY <1>3
  <2>4. /\ q.op = rq[r].op /\ q.pvc = rq[r].pvc /\ q.url = rq[r].url /\ q.asked = rq[r].asked
        /\ q.todo = todo
    BY <1>1, Fields DEF LocalOK
  <2> HIDE DEF q, todo, full
  <2>5. rq'[r] = q /\ \A s \in Requests \ {r} : rq'[s] = rq[s]
    BY <2>3, RqUpdate DEF IInv
  <2>6. RequestOK(q)
    BY <1>1, <2>2, <2>4 DEF RequestOK
  <2> QED
    BY <1>1, <2>5, <2>6, OneMoves
<1> QED
  BY <1>2, <1>3 DEF ReadDir

(* What is at or below an entry of a directory is below the directory.      *)
LEMMA BelowChild ==
  ASSUME NEW dir \in Seq(STRING), NEW x \in Children(dir), NEW y \in AtOrBelow(x)
  PROVE  y \in Below(dir)
<1>1. x \in Below(dir) /\ x \in Seq(STRING)
  BY BelowTyped DEF Children
<1>2. CASE y = x
  BY <1>1, <1>2
<1>3. CASE y \in Below(x)
  <2>1. y \in Paths /\ y \in Seq(STRING) /\ IsStrictPrefix(x, y) /\ IsStrictPrefix(dir, x)
    BY <1>1, <1>3, BelowTyped DEF Below
  <2>2. /\ Len(dir) < Len(x) /\ (\A i \in 1 .. Len(dir) : dir[i] = x[i])
        /\ Len(x) < Len(y) /\ (\A i \in 1 .. Len(x) : x[i] = y[i])
    BY <1>1, <2>1, StrictPrefix
  <2>3. Len(dir) \in Nat /\ Len(x) \in Nat /\ Len(y) \in Nat
    BY <1>1, <2>1
  <2>4. Len(dir) < Len(y) /\ \A i \in 1 .. Len(dir) : dir[i] = y[i]
    BY <2>2, <2>3
  <2>5. IsStrictPrefix(dir, y)
    BY <2>1, <2>4, StrictPrefix
  <2> QED
    BY <2>1, <2>5 DEF Below
<1> QED
  BY <1>2, <1>3 DEF AtOrBelow

LEMMA EmptySettles ==
  ASSUME IInv, TreeInv, NEW r \in Requests, Empty(r)
  PROVE  RequestsOK' /\ TreeOK' /\ TreeStep
<1>1. /\ rq[r].op = "empty" /\ rq[r].pc = "remove" /\ UNCHANGED readOnly
      /\ TreeOK /\ RequestsOK /\ RequestOK(rq[r]) /\ LocalOK(rq[r])
  BY DEF Empty, At, TreeInv, RequestsOK, IInv, Typed
<1>2. ~readOnly /\ rq[r].todo \in Seq(Children(rq[r].asked)) /\ rq[r].asked \in Seq(STRING)
  BY <1>1 DEF RequestOK
<1>3. CASE End(r) /\ UNCHANGED tree
  BY <1>1, <1>3, OneEnds, TreeStays
<1>4. CASE rq[r].todo # << >> /\ rq' = [rq EXCEPT ![r].todo = Tail(@)] /\ UNCHANGED tree
  <2> DEFINE q == [rq[r] EXCEPT !.todo = Tail(@)]
  <2>1. rq' = [rq EXCEPT ![r] = q]
    BY <1>4
  <2>2. /\ q.op = rq[r].op /\ q.pvc = rq[r].pvc /\ q.url = rq[r].url /\ q.asked = rq[r].asked
        /\ q.todo = Tail(rq[r].todo)
    BY <1>1, Fields DEF LocalOK
  <2>3. Tail(rq[r].todo) \in Seq(Children(rq[r].asked))
    BY <1>2, <1>4, HeadTailProperties
  <2> HIDE DEF q
  <2>4. rq'[r] = q /\ \A s \in Requests \ {r} : rq'[s] = rq[s]
    BY <2>1, RqUpdate DEF IInv
  <2>5. RequestOK(q)
    BY <1>1, <1>2, <2>2, <2>3 DEF RequestOK
  <2> QED
    BY <1>1, <1>4, <2>4, <2>5, OneMoves, TreeStays
<1>5. CASE rq[r].todo # << >> /\ RemoveOne(Head(rq[r].todo)) /\ UNCHANGED rq
  <2> DEFINE top == Head(rq[r].todo)
  <2>1. top \in Children(rq[r].asked)
    BY <1>2, <1>5, HeadTailProperties
  <2>2. /\ TreeOK'
        /\ \A x \in Paths : tree'[x] # tree[x] => tree'[x] = Absent /\ x \in AtOrBelow(top)
    BY <1>1, <1>5, GoneKeeps
  <2>3. \A x \in AtOrBelow(top) : x \in Below(rq[r].asked)
    BY <1>2, <2>1, BelowChild
  <2>4. TreeStep
    BY <1>1, <1>2, <2>2, <2>3 DEF TreeStep, Asked
  <2> QED
    BY <1>1, <1>5, <2>2, <2>4, NoneMoves
<1> QED
  BY <1>3, <1>4, <1>5 DEF Empty

LEMMA RemoverSettles ==
  ASSUME IInv, TreeInv, NEW r \in Requests, Remover(r)
  PROVE  RequestsOK' /\ TreeOK' /\ TreeStep
<1>1. TreeOK
  BY DEF TreeInv
<1>2. CASE ResolveDelete(r)
  BY <1>1, <1>2, ResolveDeleteSettles, TreeStays DEF ResolveDelete
<1>3. CASE ReadDir(r)
  BY <1>1, <1>3, ReadDirSettles, TreeStays DEF ReadDir
<1> QED
  BY <1>2, <1>3, RemoveAllSettles, EmptySettles DEF Remover

LEMMA AllIdle ==
  ASSUME rq' = [r \in Requests |-> Idle]
  PROVE  RequestsOK'
<1> SUFFICES ASSUME NEW r \in Requests PROVE RequestOK(rq[r])'
  BY DEF RequestsOK
<1>1. rq'[r].op = "idle"
  BY IdleOK
<1> QED
  BY <1>1 DEF RequestOK

LEMMA TreeInit == Init => TreeInv
<1> SUFFICES ASSUME Init PROVE TreeInv
  OBVIOUS
<1>1. RequestsOK /\ Targets
  BY IdleOK DEF Init, RequestsOK, RequestOK, Targets, Writes
<1>2. Plain(panel.at)
  <2>1. PICK v \in Pvcs : panel = [pvc |-> v, path |-> << >>, at |-> <<v>>]
    BY DEF Init
  <2>2. InitialTree[<<v>>] = Dir /\ v \in STRING
    BY ShapeAssumption, PvcNames
  <2>3. <<v>> \in Seq(STRING) /\ Len(<<v>>) = 1 /\ SubSeq(<<v>>, 1, 1) = <<v>>
    BY <2>2, Singleton, WholePrefix
  <2>4. ~StartsAsLink(<<v>>)
    BY <2>2, Values DEF StartsAsLink
  <2>5. ASSUME NEW k \in 1 .. Len(<<v>>) PROVE ~StartsAsLink(SubSeq(<<v>>, 1, k))
    <3>1. k = 1
      BY <2>3
    <3> QED
      BY <2>3, <2>4, <3>1
  <2>6. panel.at = <<v>>
    BY <2>1
  <2> QED
    BY <2>5, <2>6 DEF Plain
<1>3. TypeOK
  BY TreeAssumption, ShapeAssumption DEF Init, TypeOK
<1>4. NoNewLinks
  BY DEF Init, NoNewLinks
<1> QED
  BY <1>1, <1>2, <1>3, <1>4 DEF TreeInv, TreeOK

(* The step of a request.                                                   *)
HandlerStep(r) == Ask(r) \/ Fail(r) \/ Forbidden(r) \/ Upload(r) \/ Remover(r) \/ Download(r)

LEMMA RequestsNext ==
  ASSUME IInv, PanelInv, PanelInv', TreeInv, [Next]_vars
  PROVE  TreeOK' /\ Plain(panel.at)' /\ RequestsOK' /\ TreeStep
<1>1. TreeOK /\ RequestsOK /\ Plain(panel.at)
  BY DEF TreeInv
<1>2. CASE OpenDir \/ Breadcrumb \/ Tick \/ UNCHANGED vars
  <2>1. UNCHANGED <<readOnly, tree, rq>> /\ (OpenDir \/ Breadcrumb \/ UNCHANGED panel)
    BY <1>2 DEF OpenDir, Breadcrumb, Tick, vars
  <2> QED
    BY <1>1, <2>1, PanelStaysPlain, TreeStays, NoneMoves
<1>3. CASE Crash
  <2>1. UNCHANGED <<tree, panel>> /\ rq' = [r \in Requests |-> Idle]
    BY <1>3 DEF Crash
  <2> QED
    BY <1>1, <2>1, PanelStaysPlain, TreeStays, AllIdle
<1>4. ASSUME NEW r \in Requests, HandlerStep(r)
      PROVE  TreeOK' /\ Plain(panel.at)' /\ RequestsOK' /\ TreeStep
  <2>1. UNCHANGED panel
    BY <1>4 DEF HandlerStep, Ask, AskEntry, AskDirectory, Begin, Fail, Forbidden,
                Upload, MkdirAll, OpenFile, Copy, Close, Created,
                Remover, ResolveDelete, RemoveAll, ReadDir, Empty,
                Download, Open, NotModified, SendHeader, Send, Sent
  <2>2. Plain(panel.at)'
    BY <1>1, <2>1, PanelStaysPlain
  <2>3. CASE Ask(r)
    <3>1. UNCHANGED tree
      BY <2>3 DEF Ask, AskEntry, AskDirectory, Begin
    <3> QED
      BY <1>1, <2>2, <2>3, <3>1, AskSettles, TreeStays
  <2>4. CASE Fail(r) \/ Forbidden(r)
    <3>1. UNCHANGED <<readOnly, tree>> /\ End(r)
      BY <2>4 DEF Fail, Forbidden
    <3> QED
      BY <1>1, <2>2, <3>1, OneEnds, TreeStays
  <2>5. CASE Download(r)
    <3>1. UNCHANGED tree
      BY <2>5 DEF Download, Open, NotModified, SendHeader, Send, Sent
    <3> QED
      BY <1>1, <2>2, <2>5, <3>1, DownloadSettles, TreeStays
  <2>6. CASE Upload(r) \/ Remover(r)
    BY <2>2, <2>6, UploadSettles, RemoverSettles
  <2> QED
    BY <1>4, <2>3, <2>4, <2>5, <2>6 DEF HandlerStep
<1> QED
  BY <1>2, <1>3, <1>4 DEF Next, HandlerStep

----------------------------------------------------------------------------
(* The contents of the files.                                               *)

(* A request moves on alone; it comes to copy or to send only as an upload   *)
(* and a download do.                                                       *)
LEMMA RequestMoves ==
  ASSUME IInv, NEW r \in Requests, HandlerStep(r)
  PROVE  /\ \A s \in Requests \ {r} : rq'[s] = rq[s]
         /\ Sends(rq'[r]) => SendHeader(r) \/ Send(r)
         /\ Writes(rq'[r]) => OpenFile(r) \/ Copy(r)
         /\ RemoveAll(r) \/ Empty(r) => ~Writes(rq'[r])
<1>1. Typed /\ LocalOK(rq[r])
  BY DEF IInv, Typed
<1>2. ASSUME NEW q, rq' = [rq EXCEPT ![r] = q]
      PROVE  rq'[r] = q /\ \A s \in Requests \ {r} : rq'[s] = rq[s]
  BY <1>1, <1>2, RqUpdate
<1>3. CASE End(r)
  <2>1. rq'[r] = Idle /\ \A s \in Requests \ {r} : rq'[s] = rq[s]
    BY <1>2, <1>3 DEF End
  <2> QED
    BY <2>1, IdleOK
<1>4. ASSUME NEW q, rq' = [rq EXCEPT ![r] = q], ~Sends(q), ~Writes(q)
      PROVE  /\ \A s \in Requests \ {r} : rq'[s] = rq[s]
             /\ ~Sends(rq'[r]) /\ ~Writes(rq'[r])
  BY <1>2, <1>4
<1>5. CASE Ask(r)
  <2>1. PICK op, pc, asked, url : Begin(r, op, pc, asked, url) /\ pc \in {"mkdir", "open", "resolve"}
    BY <1>5 DEF Ask, AskEntry, AskDirectory
  <2> DEFINE q == [Idle EXCEPT !.op = op, !.pc = pc, !.pvc = panel.pvc, !.asked = asked, !.url = url]
  <2>2. rq' = [rq EXCEPT ![r] = q]
    BY <2>1 DEF Begin
  <2>3. q.pc = pc
    BY DEF Idle
  <2> HIDE DEF q
  <2>4. ~Sends(q) /\ ~Writes(q)
    BY <2>1, <2>3 DEF Sends, Writes
  <2> QED
    BY <1>4, <2>2, <2>4
<1>6. CASE Fail(r) \/ Forbidden(r) \/ Created(r) \/ NotModified(r) \/ Sent(r)
  BY <1>3, <1>6 DEF Fail, Forbidden, Created, NotModified, Sent
<1>7. CASE MkdirAll(r)
  <2> DEFINE q == [rq[r] EXCEPT !.pc = "create", !.full = FullPath(rq[r]), !.upload = uploaded',
                                !.todo = Uploads[uploaded'].names]
  <2>1. End(r) \/ rq' = [rq EXCEPT ![r] = q]
    BY <1>7 DEF MkdirAll
  <2>2. q.pc = "create"
    BY <1>1, Fields DEF LocalOK
  <2> HIDE DEF q
  <2>3. ~Sends(q) /\ ~Writes(q)
    BY <2>2 DEF Sends, Writes
  <2> QED
    BY <1>3, <1>4, <2>1, <2>3
<1>8. CASE OpenFile(r) \/ Copy(r)
  <2>1. \A s \in Requests \ {r} : rq'[s] = rq[s]
    <3>1. PICK q : rq' = [rq EXCEPT ![r] = q]
      BY <1>8 DEF OpenFile, Opened, Copy, End
    <3> QED
      BY <1>2, <3>1
  <2>2. rq'[r].op # "get"
    <3>1. rq[r].op = "upload"
      BY <1>8 DEF OpenFile, Copy, At
    <3>2. CASE End(r)
      BY <1>3, <1>2, <3>2, IdleOK DEF End
    <3>3. CASE \E i : rq' = [rq EXCEPT ![r].pc = "copy", ![r].fd = i, ![r].size = 0]
      <4>1. PICK i : rq' = [rq EXCEPT ![r] = [rq[r] EXCEPT !.pc = "copy", !.fd = i, !.size = 0]]
        BY <3>3
      <4> DEFINE q == [rq[r] EXCEPT !.pc = "copy", !.fd = i, !.size = 0]
      <4>2. q.op = rq[r].op
        BY <1>1, Fields DEF LocalOK
      <4> HIDE DEF q
      <4> QED
        BY <1>2, <3>1, <4>1, <4>2 DEF q
    <3>4. CASE rq' = [rq EXCEPT ![r].size = @ + 1]
      <4> DEFINE q == [rq[r] EXCEPT !.size = @ + 1]
      <4>1. rq' = [rq EXCEPT ![r] = q]
        BY <3>4
      <4>2. q.op = rq[r].op
        BY <1>1, Fields DEF LocalOK
      <4> HIDE DEF q
      <4> QED
        BY <1>2, <3>1, <4>1, <4>2
    <3> QED
      BY <1>8, <3>2, <3>3, <3>4 DEF OpenFile, Opened, Copy
  <2>3. ~RemoveAll(r) /\ ~Empty(r)
    BY <1>8 DEF OpenFile, Copy, RemoveAll, Empty, At
  <2> QED
    BY <1>8, <2>1, <2>2, <2>3 DEF Sends
<1>9. CASE Close(r)
  <2> DEFINE q == [rq[r] EXCEPT !.pc = "create", !.todo = Tail(@), !.fd = 0, !.size = 0]
  <2>1. rq' = [rq EXCEPT ![r] = q]
    BY <1>9 DEF Close
  <2>2. q.pc = "create"
    BY <1>1, Fields DEF LocalOK
  <2> HIDE DEF q
  <2>3. ~Sends(q) /\ ~Writes(q)
    BY <2>2 DEF Sends, Writes
  <2> QED
    BY <1>4, <2>1, <2>3
<1>10. CASE Remover(r)
  <2>2. rq[r].op \in {"delete", "empty"}
    BY <1>10 DEF Remover, ResolveDelete, RemoveAll, ReadDir, Empty, At
  <2>3. CASE UNCHANGED rq
    BY <2>2, <2>3 DEF Sends, Writes
  <2>4. ASSUME NEW q, rq' = [rq EXCEPT ![r] = q], q.op = rq[r].op
        PROVE  /\ \A s \in Requests \ {r} : rq'[s] = rq[s]
               /\ ~Sends(rq'[r]) /\ ~Writes(rq'[r])
    BY <1>4, <2>2, <2>4 DEF Sends, Writes
  <2>5. CASE ResolveDelete(r)
    <3> DEFINE q == [rq[r] EXCEPT !.pc = "remove", !.full = FollowDir(FullPath(rq[r]))]
    <3>1. End(r) \/ rq' = [rq EXCEPT ![r] = q]
      BY <2>5 DEF ResolveDelete
    <3>2. q.op = rq[r].op
      BY <1>1, Fields DEF LocalOK
    <3> HIDE DEF q
    <3> QED
      BY <1>3, <2>4, <3>1, <3>2
  <2>6. CASE ReadDir(r)
    <3> DEFINE full == Follow(FullPath(rq[r]))
               q == [rq[r] EXCEPT !.pc = "remove", !.full = full, !.todo = SetToSeq(Listed(full))]
    <3>1. End(r) \/ rq' = [rq EXCEPT ![r] = q]
      BY <2>6 DEF ReadDir
    <3>2. q.op = rq[r].op
      BY <1>1, Fields DEF LocalOK
    <3> HIDE DEF q
    <3> QED
      BY <1>3, <2>4, <3>1, <3>2
  <2>7. CASE RemoveAll(r) \/ Empty(r)
    <3> DEFINE q == [rq[r] EXCEPT !.todo = Tail(@)]
    <3>1. End(r) \/ UNCHANGED rq \/ rq' = [rq EXCEPT ![r] = q]
      BY <2>7 DEF RemoveAll, Empty
    <3>2. q.op = rq[r].op
      BY <1>1, Fields DEF LocalOK
    <3> HIDE DEF q
    <3> QED
      BY <1>3, <2>3, <2>4, <3>1, <3>2
  <2> QED
    BY <1>10, <2>5, <2>6, <2>7 DEF Remover
<1>11. CASE Open(r)
  <2> DEFINE q == [rq[r] EXCEPT !.pc = "stat", !.fd = Node(Follow(FullPath(rq[r])))]
  <2>1. End(r) \/ rq' = [rq EXCEPT ![r] = q]
    BY <1>11 DEF Open
  <2>2. q.pc = "stat"
    BY <1>1, Fields DEF LocalOK
  <2> HIDE DEF q
  <2>3. ~Sends(q) /\ ~Writes(q)
    BY <2>2 DEF Sends, Writes
  <2> QED
    BY <1>3, <1>4, <2>1, <2>3
<1>12. CASE SendHeader(r) \/ Send(r)
  <2>1. \A s \in Requests \ {r} : rq'[s] = rq[s]
    <3>1. PICK q : rq' = [rq EXCEPT ![r] = q]
      BY <1>12 DEF SendHeader, Send
    <3> QED
      BY <1>2, <3>1
  <2>2. rq[r].op = "get"
    BY <1>12 DEF SendHeader, Send, At
  <2>3. ASSUME SendHeader(r) PROVE rq'[r].op # "upload"
    <3> DEFINE file == data[rq[r].fd]
               sure == file.mtime < clock /\ Node(Place(rq[r].asked)) = rq[r].fd
               q == [rq[r] EXCEPT !.pc = "send", !.mtime = file.mtime, !.size = Len(file.chunks),
                                  !.sure = sure]
    <3>1. rq' = [rq EXCEPT ![r] = q]
      BY <2>3 DEF SendHeader, ETag
    <3>2. q.op = rq[r].op
      BY <1>1, Fields DEF LocalOK
    <3> HIDE DEF q
    <3> QED
      BY <1>2, <2>2, <3>1, <3>2
  <2>4. ASSUME Send(r) PROVE rq'[r].op # "upload"
    <3>1. PICK c : rq' = [rq EXCEPT ![r].body = Append(@, c)]
      BY <2>4 DEF Send
    <3> DEFINE q == [rq[r] EXCEPT !.body = Append(@, c)]
    <3>2. rq' = [rq EXCEPT ![r] = q]
      BY <3>1
    <3>3. q.op = rq[r].op
      BY <1>1, Fields DEF LocalOK
    <3> HIDE DEF q
    <3> QED
      BY <1>2, <2>2, <3>2, <3>3
  <2>5. rq'[r].op # "upload"
    BY <1>12, <2>2, <2>3, <2>4
  <2> QED
    BY <1>12, <2>1, <2>5 DEF Writes
<1> QED
  BY <1>5, <1>6, <1>7, <1>8, <1>9, <1>10, <1>11, <1>12 DEF HandlerStep, Upload, Download

----------------------------------------------------------------------------
(* All but an upload that opens or copies a file leaves the files that are  *)
(* referred to as they are.                                                 *)
FilesStay ==
  \A i \in Inodes : i \in Referred(tree', rq') =>
    data'[i].chunks = data[i].chunks /\ data'[i].mtime = data[i].mtime

LEMMA Tearing ==
  ASSUME Typed, NEW T, data' = Forget([i \in Inodes |-> IF i \in T THEN [data[i] EXCEPT !.torn = TRUE]
                                                        ELSE data[i]])
  PROVE  FilesStay
<1> SUFFICES ASSUME NEW i \in Inodes, i \in Referred(tree', rq')
             PROVE  data'[i].chunks = data[i].chunks /\ data'[i].mtime = data[i].mtime
  BY DEF FilesStay
<1>1. data'[i] = IF i \in T THEN [data[i] EXCEPT !.torn = TRUE] ELSE data[i]
  BY DEF Forget
<1>2. data[i] \in File
  BY DEF Typed
<1>3. /\ [data[i] EXCEPT !.torn = TRUE].chunks = data[i].chunks
      /\ [data[i] EXCEPT !.torn = TRUE].mtime = data[i].mtime
  BY <1>2 DEF File
<1> QED
  BY <1>1, <1>3

LEMMA StepKinds ==
  ASSUME IInv, [Next]_vars
  PROVE  \/ FilesStay /\ \A x \in Paths : tree'[x] = tree[x] \/ tree'[x] \in {Absent, Dir}
         \/ \E r \in Requests : OpenFile(r) \/ Copy(r)
<1>1. Typed
  BY DEF IInv
<1>2. ASSUME data' = data \/ data' = Forget(data) PROVE FilesStay
  BY <1>2 DEF FilesStay, Forget
<1>3. ASSUME UNCHANGED tree PROVE \A x \in Paths : tree'[x] = tree[x]
  BY <1>3
<1>4. ASSUME NEW top, RemoveOne(top) PROVE \A x \in Paths : tree'[x] = tree[x] \/ tree'[x] = Absent
  BY <1>1, <1>4 DEF RemoveOne, Typed
<1>5. CASE OpenDir \/ Breadcrumb \/ Tick \/ UNCHANGED vars
  BY <1>2, <1>3, <1>5 DEF OpenDir, Breadcrumb, Tick, vars
<1>6. CASE Crash
  <2>1. data' = Forget([i \in Inodes |-> IF i \in {j \in Inodes : Writers(j) # {}}
                                         THEN [data[i] EXCEPT !.torn = TRUE] ELSE data[i]])
    <3>1. [i \in Inodes |-> IF Writers(i) # {} THEN [data[i] EXCEPT !.torn = TRUE] ELSE data[i]]
            = [i \in Inodes |-> IF i \in {j \in Inodes : Writers(j) # {}}
                                THEN [data[i] EXCEPT !.torn = TRUE] ELSE data[i]]
      OBVIOUS
    <3> QED
      BY <1>6, <3>1 DEF Crash
  <2> QED
    BY <1>1, <1>3, <1>6, <2>1, Tearing DEF Crash
<1>7. ASSUME NEW r \in Requests, Fail(r)
      PROVE  FilesStay /\ UNCHANGED tree
  <2> DEFINE T == {i \in Inodes : At(r, "upload", "copy") /\ rq[r].fd = i}
  <2>1. data' = Forget([i \in Inodes |-> IF i \in T THEN [data[i] EXCEPT !.torn = TRUE] ELSE data[i]])
    <3>1. [i \in Inodes |-> IF At(r, "upload", "copy") /\ rq[r].fd = i
                            THEN [data[i] EXCEPT !.torn = TRUE] ELSE data[i]]
            = [i \in Inodes |-> IF i \in T THEN [data[i] EXCEPT !.torn = TRUE] ELSE data[i]]
      OBVIOUS
    <3> QED
      BY <1>7, <3>1 DEF Fail
  <2> HIDE DEF T
  <2> QED
    BY <1>1, <1>7, <2>1, Tearing DEF Fail
<1>8. ASSUME NEW r \in Requests, Ask(r) \/ Forbidden(r) \/ Close(r) \/ Created(r) \/ ResolveDelete(r)
                                 \/ ReadDir(r) \/ Download(r)
      PROVE  FilesStay /\ UNCHANGED tree
  <2>1. UNCHANGED tree /\ (data' = data \/ data' = Forget(data))
    BY <1>8 DEF Ask, AskEntry, AskDirectory, Begin, Forbidden, Close, Created, ResolveDelete,
                ReadDir, Download, Open, NotModified, SendHeader, Send, Sent
  <2> QED
    BY <1>2, <2>1
<1>9. ASSUME NEW r \in Requests, RemoveAll(r) \/ Empty(r)
      PROVE  FilesStay /\ \A x \in Paths : tree'[x] = tree[x] \/ tree'[x] = Absent
  <2>1. data' = Forget(data) /\ (UNCHANGED tree \/ \E top : RemoveOne(top))
    BY <1>9 DEF RemoveAll, Empty
  <2> QED
    BY <1>2, <1>3, <1>4, <2>1
<1>10. ASSUME NEW r \in Requests, MkdirAll(r)
       PROVE  FilesStay /\ \A x \in Paths : tree'[x] = tree[x] \/ tree'[x] = Dir
  <2>1. UNCHANGED data /\ (UNCHANGED tree \/ \E S : tree' = [x \in Paths |-> IF x \in S THEN Dir ELSE tree[x]])
    BY <1>10 DEF MkdirAll
  <2> QED
    BY <1>2, <1>3, <2>1
<1> QED
  <2>1. ASSUME NEW r \in Requests, HandlerStep(r)
        PROVE  \/ FilesStay /\ \A x \in Paths : tree'[x] = tree[x] \/ tree'[x] \in {Absent, Dir}
               \/ OpenFile(r) \/ Copy(r)
    <3>1. Ask(r) \/ Forbidden(r) \/ Close(r) \/ Created(r) \/ ResolveDelete(r) \/ ReadDir(r)
          \/ Download(r) \/ Fail(r) \/ RemoveAll(r) \/ Empty(r) \/ MkdirAll(r) \/ OpenFile(r) \/ Copy(r)
      BY <2>1 DEF HandlerStep, Upload, Remover
    <3> QED
      BY <1>3, <1>7, <1>8, <1>9, <1>10, <3>1
  <2> QED
    BY <1>5, <1>6, <2>1 DEF Next, HandlerStep

(* A write of io.Copy changes the file that the request has opened.          *)
LEMMA CopyWrites ==
  ASSUME IInv, NEW r \in Requests, Copy(r)
  PROVE  /\ UNCHANGED <<tree, readOnly, clock>> /\ Writes(rq[r]) /\ rq[r].fd \in Inodes
         /\ data'[rq[r].fd].mtime = clock
         /\ \A j \in Inodes : j # rq[r].fd => data'[j] = data[j]
         /\ rq'[r].fd = rq[r].fd /\ rq'[r].asked = rq[r].asked
<1>1. Typed /\ LocalOK(rq[r]) /\ Writes(rq[r]) /\ rq[r].fd \in Inodes
  BY DEF IInv, Typed, LocalOK, Writes, Copy, At
<1> DEFINE q == [rq[r] EXCEPT !.size = @ + 1]
           i == rq[r].fd
           file == [data[i] EXCEPT !.chunks = WriteAt(@, rq[r].size + 1, rq[r].upload), !.mtime = clock]
<1>2. rq' = [rq EXCEPT ![r] = q] /\ data' = [data EXCEPT ![i] = file]
      /\ UNCHANGED <<tree, readOnly, clock>>
  BY DEF Copy
<1>3. q.fd = rq[r].fd /\ q.asked = rq[r].asked
  BY <1>1, Fields DEF LocalOK
<1>4. file.mtime = clock
  <2>1. data[i] \in File
    BY <1>1 DEF Typed
  <2> QED
    BY <2>1 DEF File
<1> HIDE DEF q, file
<1>5. rq'[r] = q
  BY <1>1, <1>2, RqUpdate
<1>6. data'[i] = file /\ \A j \in Inodes : j # i => data'[j] = data[j]
  BY <1>1, <1>2 DEF Typed
<1> QED
  BY <1>1, <1>2, <1>3, <1>4, <1>5, <1>6

LEMMA TargetsNext ==
  ASSUME IInv, TreeInv, [Next]_vars
  PROVE  Targets'
<1> SUFFICES ASSUME NEW r \in Requests, Writes(rq'[r]), NEW x \in Paths, tree'[x] = rq'[r].fd
             PROVE  \E y \in Children(rq'[r].asked) : x \in Aims[y]
  BY DEF Targets, Writes, Children, Below, Aims, ClosedSets, Closed
<1>1. /\ Targets /\ TreeOK /\ IInv'
  BY InvarianceStep DEF TreeInv
<1>2. rq'[r].fd \in Inodes /\ rq'[r].fd > 0
  <2>1. LocalOK(rq'[r])
    <3>1. LocalOK(rq[r])'
      BY <1>1 DEF IInv, Typed
    <3> QED
      BY <3>1 DEF LocalOK, Writes, Sends
  <2>2. rq'[r].fd \in Inodes
    BY <2>1 DEF LocalOK
  <2>3. \A i \in Inodes : i > 0
    BY Values
  <2> QED
    BY <2>2, <2>3
<1>3. CASE OpenFile(r)
  <2>1. PICK dst \in Paths, i \in Inodes :
          /\ \A z \in Paths : tree'[z] = IF z = dst THEN i ELSE tree[z]
          /\ rq'[r].fd = i /\ rq'[r].asked = rq[r].asked
          /\ tree[dst] = i \/ (i \in Free /\ tree[dst] = Absent)
          /\ \E y \in Children(rq[r].asked) : dst \in Aims[y]
    BY <1>2, <1>3, IdleOK, OpenFileSettles DEF Writes
  <2>2. x = dst
    <3>1. CASE i \in Free
      BY <2>1, <3>1 DEF Free, Referred
    <3>2. CASE tree[dst] = i
      BY <1>1, <1>2, <2>1, <3>2 DEF TreeOK, TypeOK
    <3> QED
      BY <2>1, <3>1, <3>2
  <2> QED
    BY <2>1, <2>2
<1>4. CASE ~OpenFile(r)
  <2>1. Writes(rq[r]) /\ rq'[r].fd = rq[r].fd /\ rq'[r].asked = rq[r].asked
    <3>1. CASE Copy(r)
      BY <3>1, CopyWrites
    <3>2. CASE UNCHANGED rq
      BY <3>2
    <3>3. CASE rq' = [s \in Requests |-> Idle]
      BY <3>3, IdleOK
    <3>4. CASE \E s \in Requests : HandlerStep(s)
      <4>1. PICK s \in Requests : HandlerStep(s)
        BY <3>4
      <4>2. CASE s = r
        BY <1>4, <3>1, <4>1, <4>2, RequestMoves
      <4>3. CASE s # r
        <5>1. rq'[r] = rq[r]
          BY <4>1, <4>3, RequestMoves
        <5> QED
          BY <5>1
      <4> QED
        BY <4>2, <4>3
    <3> QED
      BY <3>2, <3>3, <3>4 DEF Next, HandlerStep, OpenDir, Breadcrumb, Tick, Crash, vars
  <2>2. CASE tree'[x] = tree[x]
    BY <1>1, <2>1, <2>2 DEF Targets
  <2>3. CASE tree'[x] \in {Absent, Dir}
    BY <1>2, <2>3, Values
  <2>4. CASE \E s \in Requests : OpenFile(s) /\ tree'[x] # tree[x]
    <3>1. PICK s \in Requests : OpenFile(s) /\ tree'[x] # tree[x]
      BY <2>4
    <3>2. PICK dst \in Paths, i \in Inodes :
            /\ \A z \in Paths : tree'[z] = IF z = dst THEN i ELSE tree[z]
            /\ tree[dst] = i \/ (i \in Free /\ tree[dst] = Absent)
      BY <3>1, OpenFileSettles
    <3>3. i \in Free /\ i = rq[r].fd
      BY <2>1, <3>1, <3>2
    <3> QED
      BY <3>3 DEF Free, Referred
  <2>5. CASE \E s \in Requests : Copy(s)
    BY <2>2, <2>5, CopyWrites
  <2> QED
    BY <2>2, <2>3, <2>4, <2>5, StepKinds
<1> QED
  BY <1>3, <1>4

LEMMA TreeNext ==
  ASSUME IInv, PanelInv, PanelInv', TreeInv, [Next]_vars
  PROVE  TreeInv' /\ TreeStep
  BY RequestsNext, TargetsNext DEF TreeInv

LEMMA TreeInvariance == Spec => []TreeInv
<1>1. TreeInv /\ IInv /\ PanelInv /\ PanelInv' /\ [Next]_vars => TreeInv'
  BY TreeNext
<1> QED
  BY <1>1, TreeInit, Invariance, PanelInvariance, PTL DEF Spec

(* The volumes stay a tree, whatever requests overlap, fail or are cut off  *)
(* by a crash: what exists is in a directory that exists, and no two paths  *)
(* share a file (MkdirAll, Create and RemoveAll in http_handlers.go).       *)
THEOREM AgentFilesTypeOK == Spec => []TypeOK
<1>1. TreeInv => TypeOK
  BY DEF TreeInv, TreeOK
<1> QED
  BY <1>1, TreeInvariance, PTL

(* What a step of OnlyAskedChanges may do.                                   *)
AskedStep ==
  \A x \in Paths : Seen(x)' # Seen(x) =>
    /\ ~readOnly
    /\ \E r \in Requests : /\ Asked(r, x)
                           /\ tree'[x] = Absent <=> rq[r].op \in {"delete", "empty"}

LEMMA ChangesAreAsked ==
  ASSUME IInv, TreeInv, TreeStep, [Next]_vars
  PROVE  AskedStep
<1> SUFFICES ASSUME NEW x \in Paths, Seen(x)' # Seen(x)
             PROVE  /\ ~readOnly
                    /\ \E r \in Requests :
                         /\ Asked(r, x)
                         /\ tree'[x] = Absent <=> rq[r].op \in {"delete", "empty"}
  BY DEF AskedStep
<1>1. CASE tree'[x] # tree[x]
  BY <1>1 DEF TreeStep
<1>2. CASE tree'[x] = tree[x]
  <2>1. tree[x] > 0 /\ data'[tree[x]].chunks # data[tree[x]].chunks
    BY <1>2 DEF Seen
  <2>2. tree[x] \in Inodes /\ tree[x] # Absent /\ tree[x] \in Referred(tree', rq')
    <3>1. tree[x] \in {Absent, Dir, Link} \cup Inodes
      BY DEF IInv, Typed
    <3> QED
      BY <1>2, <2>1, <3>1, Values DEF Referred
  <2>3. ~FilesStay
    BY <2>1, <2>2 DEF FilesStay
  <2>4. PICK r \in Requests : OpenFile(r) \/ Copy(r)
    BY <2>3, StepKinds
  <2>5. rq[r].op = "upload" /\ RequestOK(rq[r]) /\ rq[r].pc \in {"create", "copy"}
    BY <2>4 DEF OpenFile, Copy, At, TreeInv, RequestsOK
  <2>6. \E y \in Children(rq[r].asked) : x \in Aims[y]
    <3>1. CASE Copy(r)
      <4>1. tree[x] = rq[r].fd
        BY <2>1, <2>2, <3>1, CopyWrites
      <4> QED
        BY <3>1, <4>1, CopyWrites DEF TreeInv, Targets
    <3>2. CASE OpenFile(r)
      <4>1. PICK dst \in Paths, i \in Inodes :
              /\ \A j \in Inodes : j # i => data'[j] = data[j]
              /\ \A z \in Paths : tree'[z] = IF z = dst THEN i ELSE tree[z]
              /\ tree[dst] = i \/ (i \in Free /\ tree[dst] = Absent)
              /\ \E y \in Children(rq[r].asked) : dst \in Aims[y]
        BY <2>1, <3>2, OpenFileSettles
      <4>2. tree[x] = i
        BY <2>1, <2>2, <4>1
      <4>3. tree[dst] = i
        BY <4>1, <4>2 DEF Free, Referred
      <4>4. x = dst
        BY <2>1, <4>2, <4>3 DEF TreeInv, TreeOK, TypeOK
      <4> QED
        BY <4>1, <4>4
    <3> QED
      BY <2>4, <3>1, <3>2
  <2>7. Asked(r, x) /\ ~readOnly
    BY <2>5, <2>6 DEF Asked, RequestOK
  <2> QED
    BY <1>2, <2>2, <2>5, <2>7
<1> QED
  BY <1>1, <1>2

(* What changes on the volumes, the contents of the files included, is what *)
(* the user of a running request has asked for, by the path that the panel   *)
(* showed: it survives the rewriting of computeRouting, the joining of      *)
(* JoinSecure, which follows a link in each segment, the links that the     *)
(* kernel goes on to follow, and whatever other requests do in between.     *)
THEOREM OnlyAskedChangesTheorem == Spec => OnlyAskedChanges
<1>1. TreeInv /\ IInv /\ PanelInv /\ PanelInv' /\ [Next]_vars =>
        [\A x \in Paths : Seen(x)' # Seen(x) =>
           /\ ~readOnly
           /\ \E r \in Requests : /\ Asked(r, x)
                                  /\ tree'[x] = Absent <=> rq[r].op \in {"delete", "empty"}]_vars
  BY TreeNext, ChangesAreAsked DEF AskedStep
<1> QED
  BY <1>1, TreeInvariance, Invariance, PanelInvariance, PTL DEF Spec, OnlyAskedChanges

----------------------------------------------------------------------------
(* Tags: where a path leads from one step to the next.                      *)

(* What is above an entry is a directory.                                   *)
LEMMA PrefixIsDirIn ==
  ASSUME NEW t, \A y \in Paths : t[y] # Absent /\ Len(y) > 1 => t[Front(y)] = Dir,
         NEW x \in Paths, t[x] # Absent, NEW k \in 1 .. Len(x) - 1
  PROVE  SubSeq(x, 1, k) \in Paths /\ t[SubSeq(x, 1, k)] = Dir
<1>1. x \in Seq(STRING) /\ Len(x) \in Nat
  BY PathsAreSequences
<1> DEFINE Up(n) == SubSeq(x, 1, Len(x) - n)
           S == {n \in Nat : n < Len(x) - 1 => Up(n + 1) \in Paths /\ t[Up(n + 1)] = Dir}
<1>2. ASSUME NEW n \in Nat, n < Len(x) - 1, Up(n) \in Paths, t[Up(n)] # Absent
      PROVE  Up(n + 1) \in Paths /\ t[Up(n + 1)] = Dir
  <2>1. PICK p \in Paths : p = Up(n)
    BY <1>2
  <2>2. Len(x) - n \in 0 .. Len(x) /\ Len(x) - n > 1 /\ Len(x) - (n + 1) \in 0 .. Len(x) - n
        /\ Len(x) - (n + 1) = Len(x) - n - 1
    BY <1>1, <1>2
  <2>3. p \in Seq(STRING) /\ Len(p) = Len(x) - n /\ p # << >>
    BY <1>1, <2>1, <2>2, PrefixOf, PathsAreSequences
  <2>4. Front(p) = SubSeq(p, 1, Len(p) - 1)
    BY <2>3, FrontIsPrefix
  <2>5. SubSeq(SubSeq(x, 1, Len(x) - n), 1, Len(x) - (n + 1)) = SubSeq(x, 1, Len(x) - (n + 1))
    BY <1>1, <2>2, PrefixOfPrefix
  <2>6. Front(p) = Up(n + 1)
    BY <2>1, <2>2, <2>3, <2>4, <2>5
  <2>7. Len(p) > 1 /\ t[p] # Absent
    BY <1>2, <2>1, <2>2, <2>3
  <2>8. Front(p) \in Paths /\ t[Front(p)] = Dir
    BY <2>7, FrontIn
  <2> QED
    BY <2>6, <2>8
<1>3. Up(0) = x
  BY <1>1, WholePrefix
<1> HIDE DEF Up
<1>4. 0 \in S
  BY <1>1, <1>2, <1>3
<1>5. ASSUME NEW n \in Nat, n \in S PROVE n + 1 \in S
  <2> SUFFICES ASSUME n + 1 < Len(x) - 1
               PROVE  Up(n + 1 + 1) \in Paths /\ t[Up(n + 1 + 1)] = Dir
    OBVIOUS
  <2>1. Up(n + 1) \in Paths /\ t[Up(n + 1)] = Dir
    BY <1>1, <1>5
  <2>2. t[Up(n + 1)] # Absent
    BY <2>1, Values
  <2> QED
    BY <1>2, <2>1, <2>2
<1>6. Nat \subseteq S
  <2> HIDE DEF S
  <2> QED
    BY <1>4, <1>5, SetInduction
<1>7. PICK n : n = Len(x) - k - 1
  OBVIOUS
<1>8. n \in Nat /\ n < Len(x) - 1 /\ Len(x) - (n + 1) = k
  BY <1>1, <1>7
<1>9. Up(n + 1) \in Paths /\ t[Up(n + 1)] = Dir
  BY <1>6, <1>8
<1>10. Up(n + 1) = SubSeq(x, 1, k)
  BY <1>8 DEF Up
<1> QED
  BY <1>9, <1>10

LEMMA PrefixIsDir ==
  ASSUME TypeOK, NEW x \in Paths, tree[x] # Absent, NEW k \in 1 .. Len(x) - 1
  PROVE  SubSeq(x, 1, k) \in Paths /\ tree[SubSeq(x, 1, k)] = Dir
<1>1. \A y \in Paths : tree[y] # Absent /\ Len(y) > 1 => tree[Front(y)] = Dir
  BY DEF TypeOK
<1> QED
  BY <1>1, PrefixIsDirIn

LEMMA PrefixIsDirNext ==
  ASSUME TypeOK', NEW x \in Paths, tree'[x] # Absent, NEW k \in 1 .. Len(x) - 1
  PROVE  SubSeq(x, 1, k) \in Paths /\ tree'[SubSeq(x, 1, k)] = Dir
<1>1. \A y \in Paths : tree'[y] # Absent /\ Len(y) > 1 => tree'[Front(y)] = Dir
  BY DEF TypeOK
<1> QED
  BY <1>1, PrefixIsDirIn

(* No two links are on one path.                                            *)
LEMMA OneLinkOnPath ==
  ASSUME TypeOK, NEW s \in Seq(STRING), NEW j \in OnIn(Links, s), NEW k \in OnIn(Links, s)
  PROVE  j = k
<1>1. ASSUME NEW m \in OnIn(Links, s), NEW n \in OnIn(Links, s), m < n PROVE FALSE
  <2>1. PICK x \in Paths : x = SubSeq(s, 1, n) /\ tree[x] = Link
    BY DEF OnIn, Links
  <2>2. m \in 0 .. n /\ n \in 0 .. Len(s)
    BY <1>1 DEF OnIn
  <2>3. Len(x) = n
    BY <2>1, <2>2, PrefixOf
  <2>4. SubSeq(x, 1, m) = SubSeq(s, 1, m)
    BY <2>1, <2>2, PrefixOfPrefix
  <2>5. m \in 1 .. Len(x) - 1 /\ tree[x] # Absent
    BY <1>1, <2>1, <2>3, Values DEF OnIn
  <2>6. PICK z : z = SubSeq(s, 1, m)
    OBVIOUS
  <2>7. tree[SubSeq(x, 1, m)] = Dir
    BY <2>5, PrefixIsDir
  <2>8. tree[z] = Dir
    BY <2>4, <2>6, <2>7
  <2>9. tree[z] = Link
    BY <2>6 DEF OnIn, Links
  <2> QED
    BY <2>8, <2>9 DEF Dir, Link
<1>2. j \in Nat /\ k \in Nat
  BY DEF OnIn
<1> QED
  BY <1>1, <1>2

(* What leads over a link that has gone.                                    *)
Dead(L, M, s) == \E k \in 1 .. Len(s) : SubSeq(s, 1, k) \in L \ M

LEMMA StepOver ==
  ASSUME TypeOK, NEW M \in SUBSET Links, NEW s \in Seq(STRING)
  PROVE  IF Dead(Links, M, s) THEN StepIn(M, s) = s ELSE StepIn(M, s) = StepIn(Links, s)
<1>1. OnIn(M, s) \subseteq OnIn(Links, s)
  BY DEF OnIn
<1>2. CASE Dead(Links, M, s)
  <2>1. PICK k \in OnIn(Links, s) : SubSeq(s, 1, k) \notin M
    BY <1>2 DEF Dead, OnIn
  <2>2. OnIn(M, s) = {}
    BY <1>1, <2>1, OneLinkOnPath DEF OnIn
  <2> QED
    BY <1>2, <2>2 DEF StepIn
<1>3. CASE ~Dead(Links, M, s)
  <2>1. OnIn(M, s) = OnIn(Links, s)
    BY <1>1, <1>3 DEF Dead, OnIn
  <2> QED
    BY <1>3, <2>1 DEF StepIn
<1> QED
  BY <1>2, <1>3

LEMMA FollowOver ==
  ASSUME TypeOK, NoNewLinks, NEW M \in SUBSET Links, NEW s \in Seq(STRING)
  PROVE  FollowIn(M, s) = FollowIn(Links, s) \/ Dead(Links, M, FollowIn(M, s))
<1>1. Links \subseteq DOMAIN LinkTarget /\ M \subseteq DOMAIN LinkTarget /\ MaxLinks \in Nat
  BY LinksHaveTargets, LinkAssumption
<1>2. PICK at \in [0 .. MaxLinks -> Seq(STRING)] :
        /\ at[0] = s
        /\ \A n \in 1 .. MaxLinks : at[n] = StepIn(Links, at[n - 1])
        /\ FollowIn(Links, s) = at[MaxLinks]
  BY <1>1, FollowsIn
<1>3. PICK to \in [0 .. MaxLinks -> Seq(STRING)] :
        /\ to[0] = s
        /\ \A n \in 1 .. MaxLinks : to[n] = StepIn(M, to[n - 1])
        /\ FollowIn(M, s) = to[MaxLinks]
  BY <1>1, FollowsIn
<1> DEFINE S == {n \in Nat : n <= MaxLinks => to[n] = at[n] \/ Dead(Links, M, to[n])}
<1>4. 0 \in S
  BY <1>2, <1>3
<1>5. ASSUME NEW n \in Nat, n \in S PROVE n + 1 \in S
  <2> SUFFICES ASSUME n + 1 <= MaxLinks
               PROVE  to[n + 1] = at[n + 1] \/ Dead(Links, M, to[n + 1])
    OBVIOUS
  <2>1. n + 1 \in 1 .. MaxLinks /\ n \in 0 .. MaxLinks /\ (n + 1) - 1 = n
    BY <1>1
  <2>2. /\ to[n] = at[n] \/ Dead(Links, M, to[n])
        /\ at[n + 1] = StepIn(Links, at[n]) /\ to[n + 1] = StepIn(M, to[n])
    BY <1>1, <1>2, <1>3, <1>5, <2>1
  <2>3. to[n] \in Seq(STRING)
    BY <1>3, <2>1
  <2>4. IF Dead(Links, M, to[n]) THEN to[n + 1] = to[n] ELSE to[n + 1] = StepIn(Links, to[n])
    BY <2>2, <2>3, StepOver
  <2> QED
    BY <2>2, <2>4
<1>6. Nat \subseteq S
  <2> HIDE DEF S
  <2> QED
    BY <1>4, <1>5, SetInduction
<1> QED
  BY <1>1, <1>2, <1>3, <1>6

(* A place where there is a file after a step is where the path led before. *)
LEMMA PlaceKeeps ==
  ASSUME IInv, TreeOK, TreeOK', TreeStep, NEW a \in Seq(STRING), Node(Place(a))' > 0,
         \A x \in Paths : tree'[x] = Link => tree[x] = Link
  PROVE  Place(a)' = Place(a)
<1> DEFINE M == Links'
           one == StepIn(Links, a)
           two == StepIn(M, a)
<1>1. TypeOK /\ NoNewLinks /\ M \in SUBSET Links /\ Links \subseteq DOMAIN LinkTarget
  BY LinksHaveTargets DEF TreeOK, Links
<1>2. M \subseteq DOMAIN LinkTarget
  BY <1>1
<1>3. Place(a) = FollowIn(Links, one) /\ Place(a)' = FollowIn(M, two)
  BY DEF Place, Follow, FollowOne, LinksOn, OnIn, StepIn, FollowIn
<1>4. one \in Seq(STRING) /\ two \in Seq(STRING)
  BY <1>1, <1>2, StepInTyped
<1> HIDE DEF M, one, two
<1>5. ASSUME NEW s \in Seq(STRING), Dead(Links, M, s), s = Place(a)'
      PROVE  FALSE
  <2>1. PICK k \in 1 .. Len(s) : SubSeq(s, 1, k) \in Links \ M
    BY <1>5 DEF Dead
  <2>2. PICK y \in Paths : y = SubSeq(s, 1, k) /\ tree[y] = Link /\ tree'[y] # Link
    BY <2>1 DEF Links, M
  <2>3. tree'[y] = Absent
    BY <2>2 DEF TreeStep
  <2>4. s \in Paths /\ tree'[s] > 0
    <3>1. Node(Place(a))' = IF Place(a)' \in Paths THEN tree'[Place(a)'] ELSE Absent
      BY DEF Node
    <3> QED
      BY <1>5, <3>1, Values
  <2>5. y = s \/ tree'[y] = Dir
    <3>1. CASE k = Len(s)
      BY <2>2, <3>1, WholePrefix
    <3>2. CASE k # Len(s)
      <4>1. k \in 1 .. Len(s) - 1 /\ tree'[s] # Absent
        BY <2>4, <3>2, Values
      <4> QED
        BY <2>2, <2>4, <4>1, PrefixIsDirNext DEF TreeOK
    <3> QED
      BY <3>1, <3>2
  <2> QED
    BY <2>3, <2>4, <2>5, Values
<1>6. IF Dead(Links, M, a) THEN two = a ELSE two = one
  BY <1>1, StepOver DEF one, two
<1>7. FollowIn(M, two) \in Seq(STRING)
  <2>1. FollowIn(M, two) \in Seq(STRING)
    <3>1. two \in Seq(STRING) /\ \A y \in Seq(STRING) : y \in Seq(STRING) => StepIn(M, y) \in Seq(STRING)
      BY <1>2, <1>4, StepInTyped
    <3> QED
      BY <1>2, <3>1, FollowKeeps
  <2> QED
    BY <2>1
<1>8. CASE two = one
  <2>1. FollowIn(M, one) = FollowIn(Links, one) \/ Dead(Links, M, FollowIn(M, one))
    BY <1>1, <1>4, FollowOver
  <2> QED
    BY <1>3, <1>5, <1>7, <1>8, <2>1
<1>9. CASE Dead(Links, M, a) /\ two = a
  <2>1. StepIn(M, a) = a
    BY <1>9 DEF two
  <2>2. FollowIn(M, a) \in {a}
    BY <1>2, <2>1, FollowKeeps
  <2> QED
    BY <1>3, <1>5, <1>9, <2>2
<1> QED
  BY <1>6, <1>8, <1>9

----------------------------------------------------------------------------
(* Tags: the inductive invariant.                                           *)

(* As long as the path of a download leads to a file with the tag that was   *)
(* sent, and this tag is sure, that file is the one that is being sent, and  *)
(* what has been sent is what it begins with.                               *)
Sending(q) ==
  Sends(q) /\ q.sure =>
    /\ q.mtime < clock
    /\ LET i == Node(Place(q.asked))
       IN  i > 0 /\ data[i].mtime = q.mtime /\ Len(data[i].chunks) = q.size =>
             /\ i = q.fd /\ Len(q.body) <= Len(data[i].chunks)
             /\ \A k \in 1 .. Len(q.body) : q.body[k] = data[i].chunks[k]

TagInv ==
  /\ cached.asked \in Seq(STRING) /\ cached.mtime \in Nat
  /\ cached.sure => cached.mtime < clock
  /\ TagNamesContents
  /\ \A r \in Requests : Sending(rq[r])

LEMMA TagInit == Init => TagInv
<1> SUFFICES ASSUME Init PROVE TagInv
  OBVIOUS
<1> DEFINE first == InitialTree[Downloaded]
<1>1. first \in Inodes /\ Downloaded \in Seq(STRING) /\ Downloaded \in Paths
  BY TreeAssumption
<1>2. ASSUME NEW x \in Paths, tree[x] > 0
      PROVE  tree[x] \in Inodes /\ data[tree[x]].chunks = <<0, 0>> /\ data[tree[x]].mtime = tree[x]
  <2>1. tree[x] = InitialTree[x] /\ tree[x] \in Inodes
    <3>1. tree = InitialTree
      BY DEF Init
    <3>2. InitialTree[x] \in {Absent, Dir, Link} \cup Inodes
      BY TreeAssumption
    <3> QED
      BY <1>2, <3>1, <3>2, Values
  <2>2. data[tree[x]] = [NoFile EXCEPT !.chunks = <<0, 0>>, !.mtime = tree[x]]
    BY <2>1 DEF Init
  <2>3. PICK i : i = tree[x]
    OBVIOUS
  <2>4. [NoFile EXCEPT !.chunks = <<0, 0>>, !.mtime = i].chunks = <<0, 0>>
        /\ [NoFile EXCEPT !.chunks = <<0, 0>>, !.mtime = i].mtime = i
    BY DEF NoFile
  <2> QED
    BY <2>1, <2>2, <2>3, <2>4
<1>3. tree[Downloaded] = first /\ first > 0
  <2>1. tree = InitialTree
    BY DEF Init
  <2>2. \A i \in Inodes : i > 0
    BY Values
  <2> QED
    BY <1>1, <2>1, <2>2
<1>4. data[first].chunks = <<0, 0>> /\ data[first].mtime = first
  BY <1>1, <1>2, <1>3
<1>5. /\ cached.asked = Downloaded /\ cached.mtime = data[first].mtime
      /\ cached.sure = (data[first].mtime < clock) /\ cached.body = data[first].chunks
  BY DEF Init
<1>6. TagNamesContents
  <2> SUFFICES ASSUME Node(Place(cached.asked)) > 0
               PROVE  data[Node(Place(cached.asked))].chunks = cached.body
    BY DEF TagNamesContents
  <2>1. Place(cached.asked) \in Paths /\ Node(Place(cached.asked)) = tree[Place(cached.asked)]
    BY Values DEF Node
  <2> QED
    BY <1>2, <1>4, <1>5, <2>1
<1>7. \A r \in Requests : Sending(rq[r])
  BY IdleOK DEF Init, Sending
<1>8. cached.asked \in Seq(STRING) /\ cached.mtime \in Nat /\ (cached.sure => cached.mtime < clock)
  BY <1>1, <1>4, <1>5, Values
<1> QED
  BY <1>6, <1>7, <1>8 DEF TagInv

(* A file with a tag of the past that a path leads to after a step was       *)
(* there before, as it is.                                                  *)
LEMMA TagKept ==
  ASSUME IInv, TreeInv, TreeInv', TreeStep, [Next]_vars, NEW a \in Seq(STRING), NEW m, m < clock,
         Node(Place(a))' > 0, data'[Node(Place(a))'].mtime = m
  PROVE  /\ Node(Place(a))' = Node(Place(a)) /\ Node(Place(a)) > 0
         /\ data'[Node(Place(a))].chunks = data[Node(Place(a))].chunks
         /\ data'[Node(Place(a))].mtime = data[Node(Place(a))].mtime
<1>0. PICK p, i : p = Place(a)' /\ i = Node(Place(a))'
  OBVIOUS
<1>1. p \in Paths /\ i = tree'[p] /\ i > 0 /\ data'[i].mtime = m
  <2>1. Node(Place(a))' = IF Place(a)' \in Paths THEN tree'[Place(a)'] ELSE Absent
    BY DEF Node
  <2> QED
    BY <1>0, <2>1, Values
<1>2. i \in Inodes
  <2>1. TypeOK'
    BY DEF TreeInv, TreeOK
  <2>2. tree'[p] \in {Absent, Dir, Link} \cup Inodes
    BY <1>1, <2>1 DEF TypeOK
  <2> QED
    BY <1>1, <2>2, Values
<1>3. clock \in Nat
  BY DEF IInv, Typed
<1>4. /\ \A x \in Paths : tree'[x] = Link => tree[x] = Link
      /\ tree[p] = i /\ data'[i].chunks = data[i].chunks /\ data'[i].mtime = data[i].mtime
  <2>1. CASE FilesStay /\ \A x \in Paths : tree'[x] = tree[x] \/ tree'[x] \in {Absent, Dir}
    <3>1. tree[p] = i
      BY <1>1, <2>1, Values
    <3>2. i \in Referred(tree', rq')
      BY <1>1 DEF Referred
    <3>3. \A x \in Paths : tree'[x] = Link => tree[x] = Link
      BY <2>1, Values
    <3> QED
      BY <1>2, <2>1, <3>1, <3>2, <3>3 DEF FilesStay
  <2>2. ASSUME NEW r \in Requests, OpenFile(r)
        PROVE  /\ \A x \in Paths : tree'[x] = Link => tree[x] = Link
               /\ tree[p] = i /\ data'[i].chunks = data[i].chunks /\ data'[i].mtime = data[i].mtime
    <3>1. CASE UNCHANGED <<tree, data>>
      BY <1>1, <3>1
    <3>2. CASE \E dst \in Paths, j \in Inodes :
                 /\ data'[j].mtime = clock
                 /\ \A k \in Inodes : k # j => data'[k] = data[k]
                 /\ \A x \in Paths : tree'[x] = IF x = dst THEN j ELSE tree[x]
      <4>1. PICK dst \in Paths, j \in Inodes :
              /\ data'[j].mtime = clock
              /\ \A k \in Inodes : k # j => data'[k] = data[k]
              /\ \A x \in Paths : tree'[x] = IF x = dst THEN j ELSE tree[x]
        BY <3>2
      <4>2. i # j
        BY <1>1, <1>3, <4>1
      <4>3. tree[p] = i /\ data'[i] = data[i]
        BY <1>1, <1>2, <4>1, <4>2
      <4>4. \A x \in Paths : tree'[x] = Link => tree[x] = Link
        BY <4>1, Values
      <4> QED
        BY <4>3, <4>4
    <3> QED
      BY <2>2, <3>1, <3>2, OpenFileSettles
  <2>3. ASSUME NEW r \in Requests, Copy(r)
        PROVE  /\ \A x \in Paths : tree'[x] = Link => tree[x] = Link
               /\ tree[p] = i /\ data'[i].chunks = data[i].chunks /\ data'[i].mtime = data[i].mtime
    <3>1. /\ UNCHANGED tree /\ data'[rq[r].fd].mtime = clock
          /\ \A j \in Inodes : j # rq[r].fd => data'[j] = data[j]
      BY <2>3, CopyWrites
    <3>2. i # rq[r].fd
      BY <1>1, <1>3, <3>1
    <3>3. data'[i] = data[i]
      BY <1>2, <3>1, <3>2
    <3> QED
      BY <1>1, <3>1, <3>3
  <2> QED
    BY <2>1, <2>2, <2>3, StepKinds
<1>5. Place(a) = p
  BY <1>0, <1>4, PlaceKeeps DEF TreeInv
<1>6. Node(Place(a)) = i
  BY <1>1, <1>4, <1>5 DEF Node
<1> QED
  BY <1>0, <1>1, <1>4, <1>6

LEMMA ClockGrows == ASSUME IInv, [Next]_vars PROVE clock' >= clock /\ clock \in Nat /\ clock' \in Nat
<1>1. clock \in Nat
  BY DEF IInv, Typed
<1>2. UNCHANGED clock \/ clock' = clock + 1
  BY DEF Next, vars, OpenDir, Breadcrumb, Tick, Crash,
         Ask, AskEntry, AskDirectory, Begin, Fail, Forbidden,
         Upload, MkdirAll, OpenFile, Copy, Close, Created,
         Remover, ResolveDelete, RemoveAll, ReadDir, Empty,
         Download, Open, NotModified, SendHeader, Send, Sent
<1> QED
  BY <1>1, <1>2

LEMMA CachedKept ==
  ASSUME [Next]_vars
  PROVE  UNCHANGED cached \/ \E r \in Requests : Sent(r) /\ Len(rq[r].body) = rq[r].size
<1>1. ASSUME NEW r \in Requests, HandlerStep(r), ~Sent(r)
      PROVE  UNCHANGED cached
  BY <1>1 DEF HandlerStep, Ask, AskEntry, AskDirectory, Begin, Fail, Forbidden,
         Upload, MkdirAll, OpenFile, Copy, Close, Created,
         Remover, ResolveDelete, RemoveAll, ReadDir, Empty,
         Download, Open, NotModified, SendHeader, Send
<1>2. ASSUME NEW r \in Requests, Sent(r), Len(rq[r].body) # rq[r].size
      PROVE  UNCHANGED cached
  BY <1>2 DEF Sent
<1>3. CASE OpenDir \/ Breadcrumb \/ Tick \/ Crash \/ UNCHANGED vars
  BY <1>3 DEF vars, OpenDir, Breadcrumb, Tick, Crash
<1> QED
  BY <1>1, <1>2, <1>3 DEF Next, HandlerStep

LEMMA CachedTagNext ==
  ASSUME IInv, TreeInv, TreeInv', TreeStep, TagInv, [Next]_vars
  PROVE  /\ cached'.asked \in Seq(STRING) /\ cached'.mtime \in Nat
         /\ cached'.sure => cached'.mtime < clock'
         /\ TagNamesContents'
<1>1. clock' >= clock /\ clock \in Nat /\ clock' \in Nat
  BY ClockGrows
<1>2. CASE UNCHANGED cached
  <2>1. cached.asked \in Seq(STRING) /\ cached.mtime \in Nat /\ (cached.sure => cached.mtime < clock)
    BY DEF TagInv
  <2>2. ASSUME cached.sure, Node(Place(cached.asked))' > 0,
               data'[Node(Place(cached.asked))'].mtime = cached.mtime,
               Len(data'[Node(Place(cached.asked))'].chunks) = cached.size
        PROVE  data'[Node(Place(cached.asked))'].chunks = cached.body
    <3>1. PICK a, m, i : a = cached.asked /\ m = cached.mtime /\ i = Node(Place(cached.asked))
      OBVIOUS
    <3>2. a \in Seq(STRING) /\ m < clock /\ Node(Place(a))' > 0 /\ data'[Node(Place(a))'].mtime = m
      BY <1>2, <2>1, <2>2, <3>1
    <3>3. /\ Node(Place(a))' = i /\ i > 0
          /\ data'[i].chunks = data[i].chunks /\ data'[i].mtime = data[i].mtime
      BY <3>1, <3>2, TagKept
    <3>4. Node(Place(cached.asked))' = Node(Place(a))'
      BY <1>2, <3>1
    <3>5. data[i].mtime = cached.mtime /\ Len(data[i].chunks) = cached.size
      BY <2>2, <3>3, <3>4
    <3>6. data[i].chunks = cached.body
      BY <2>2, <3>1, <3>3, <3>5 DEF TagInv, TagNamesContents, ETag
    <3> QED
      BY <3>3, <3>4, <3>6
  <2>3. TagNamesContents'
    BY <1>2, <2>2 DEF TagNamesContents, ETag
  <2> QED
    BY <1>1, <1>2, <2>1, <2>3
<1>3. CASE \E r \in Requests : Sent(r) /\ Len(rq[r].body) = rq[r].size
  <2>1. PICK r \in Requests : Sent(r) /\ Len(rq[r].body) = rq[r].size
    BY <1>3
  <2>2. PICK a, m, n, b, sure :
          /\ a = rq[r].asked /\ m = rq[r].mtime /\ n = rq[r].size /\ b = rq[r].body /\ sure = rq[r].sure
          /\ cached' = [asked |-> a, mtime |-> m, size |-> n, sure |-> sure, body |-> b]
    BY <2>1 DEF Sent
  <2>3. Sends(rq[r]) /\ Sending(rq[r]) /\ LocalOK(rq[r]) /\ RequestOK(rq[r]) /\ rq[r].op # "idle"
    BY <2>1 DEF Sent, At, Sends, TagInv, IInv, Typed, TreeInv, RequestsOK
  <2>4. a \in Seq(STRING) /\ m \in Nat /\ b \in Seq(Nat) /\ (sure => m < clock) /\ Len(b) = n
    BY <2>1, <2>2, <2>3 DEF Sending, LocalOK, RequestOK
  <2>5. ASSUME sure, Node(Place(a))' > 0, data'[Node(Place(a))'].mtime = m,
               Len(data'[Node(Place(a))'].chunks) = n
        PROVE  data'[Node(Place(a))'].chunks = b
    <3>1. PICK i : i = Node(Place(a))
      OBVIOUS
    <3>2. /\ Node(Place(a))' = i /\ i > 0
          /\ data'[i].chunks = data[i].chunks /\ data'[i].mtime = data[i].mtime
      BY <2>4, <2>5, <3>1, TagKept
    <3>3. /\ Len(b) <= Len(data[i].chunks) /\ \A k \in 1 .. Len(b) : b[k] = data[i].chunks[k]
          /\ i = rq[r].fd
      BY <2>2, <2>3, <2>5, <3>1, <3>2 DEF Sending
    <3>4. data[i].chunks \in Seq(Nat)
      <4>1. i \in Inodes
        BY <2>3, <3>3 DEF LocalOK, Sends
      <4> QED
        BY <4>1, FileFields DEF IInv, Typed
    <3>5. b = data[i].chunks
      BY <2>4, <2>5, <3>2, <3>3, <3>4, SameSequence
    <3> QED
      BY <3>2, <3>5
  <2>6. /\ cached'.asked = a /\ cached'.mtime = m /\ cached'.size = n /\ cached'.sure = sure
        /\ cached'.body = b
    BY <2>2
  <2>7. Node(Place(cached.asked))' = Node(Place(a))'
    BY <2>6 DEF Node, Place, Follow, FollowOne, LinksOn, Links
  <2>8. TagNamesContents'
    BY <2>5, <2>6, <2>7 DEF TagNamesContents, ETag
  <2> QED
    BY <1>1, <2>4, <2>6, <2>8
<1> QED
  BY <1>2, <1>3, CachedKept

(* A body that is what a file begins with still is with the next chunk.       *)
Begins(b, c) == Len(b) <= Len(c) /\ \A k \in 1 .. Len(b) : b[k] = c[k]

LEMMA NextChunk ==
  ASSUME NEW b \in Seq(Nat), NEW c \in Seq(Nat), Len(b) + 1 <= Len(c), Begins(b, c)
  PROVE  Begins(Append(b, c[Len(b) + 1]), c)
<1>1. c[Len(b) + 1] \in Nat
  <2>1. Len(b) + 1 \in 1 .. Len(c)
    OBVIOUS
  <2> QED
    BY <2>1
<1>2. PICK d : d = Append(b, c[Len(b) + 1])
  OBVIOUS
<1>3. Len(d) = Len(b) + 1 /\ d[Len(b) + 1] = c[Len(b) + 1] /\ \A k \in 1 .. Len(b) : d[k] = b[k]
  BY <1>1, <1>2, AppendProperties
<1>4. Len(b) \in Nat /\ Len(c) \in Nat
  OBVIOUS
<1>5. ASSUME NEW k \in 1 .. Len(d) PROVE d[k] = c[k]
  <2>1. k = Len(b) + 1 \/ k \in 1 .. Len(b)
    BY <1>3, <1>4
  <2> QED
    BY <1>3, <2>1 DEF Begins
<1> QED
  BY <1>2, <1>3, <1>4, <1>5 DEF Begins

LEMMA SendingNext ==
  ASSUME IInv, TreeInv, TreeInv', TreeStep, TagInv, [Next]_vars, NEW r \in Requests
  PROVE  Sending(rq[r])'
<1> SUFFICES ASSUME Sends(rq'[r]), rq'[r].sure
             PROVE  /\ rq'[r].mtime < clock'
                    /\ LET i == Node(Place(rq[r].asked))'
                       IN  i > 0 /\ data'[i].mtime = rq'[r].mtime /\ Len(data'[i].chunks) = rq'[r].size =>
                             /\ i = rq'[r].fd /\ Len(rq'[r].body) <= Len(data'[i].chunks)
                             /\ \A k \in 1 .. Len(rq'[r].body) : rq'[r].body[k] = data'[i].chunks[k]
  BY DEF Sending, Sends
<1>1. /\ clock' >= clock /\ clock \in Nat /\ clock' \in Nat
      /\ Sending(rq[r]) /\ LocalOK(rq[r]) /\ RequestOK(rq[r])
  BY ClockGrows DEF TagInv, IInv, Typed, TreeInv, RequestsOK
<1>2. SendHeader(r) \/ Send(r) \/ rq'[r] = rq[r]
  <2>1. CASE UNCHANGED rq
    BY <2>1
  <2>2. CASE rq' = [s \in Requests |-> Idle]
    BY <2>2, IdleOK
  <2>3. CASE \E s \in Requests : HandlerStep(s)
    <3>1. PICK s \in Requests : HandlerStep(s)
      BY <2>3
    <3>2. CASE s = r
      BY <3>1, <3>2, RequestMoves
    <3>3. CASE s # r
      BY <3>1, <3>3, RequestMoves
    <3> QED
      BY <3>2, <3>3
  <2> QED
    BY <2>1, <2>2, <2>3 DEF Next, HandlerStep, OpenDir, Breadcrumb, Tick, Crash, vars
(* The tag and its file stay.                                               *)
<1>3. ASSUME NEW q, q = rq[r], Sends(q), q.sure, rq'[r].asked = q.asked, rq'[r].mtime = q.mtime,
             rq'[r].size = q.size, rq'[r].fd = q.fd,
             Node(Place(rq[r].asked))' > 0,
             data'[Node(Place(rq[r].asked))'].mtime = q.mtime,
             Len(data'[Node(Place(rq[r].asked))'].chunks) = q.size
      PROVE  /\ Node(Place(rq[r].asked))' = q.fd /\ data'[q.fd].chunks = data[q.fd].chunks
             /\ Len(q.body) <= Len(data[q.fd].chunks)
             /\ \A k \in 1 .. Len(q.body) : q.body[k] = data[q.fd].chunks[k]
  <2>1. PICK a, m, i : a = q.asked /\ m = q.mtime /\ i = Node(Place(q.asked))
    OBVIOUS
  <2>0. rq'[r].asked = a
    BY <1>3, <2>1
  <2>2. Node(Place(rq[r].asked))' = Node(Place(a))'
    BY <2>0 DEF Node, Place, Follow, FollowOne, LinksOn, Links
  <2>3. a \in Seq(STRING) /\ m < clock
    BY <1>1, <1>3, <2>1 DEF RequestOK, Sending, Sends
  <2>4. Node(Place(a))' > 0 /\ data'[Node(Place(a))'].mtime = m
    BY <1>3, <2>1, <2>2
  <2>5. /\ Node(Place(a))' = i /\ i > 0
        /\ data'[i].chunks = data[i].chunks /\ data'[i].mtime = data[i].mtime
    BY <2>1, <2>3, <2>4, TagKept
  <2>6. data[i].mtime = q.mtime /\ Len(data[i].chunks) = q.size
    BY <1>3, <2>1, <2>2, <2>5
  <2>7. /\ i = q.fd /\ Len(q.body) <= Len(data[i].chunks)
        /\ \A k \in 1 .. Len(q.body) : q.body[k] = data[i].chunks[k]
    BY <1>1, <1>3, <2>1, <2>5, <2>6 DEF Sending
  <2> QED
    BY <2>2, <2>5, <2>7
<1>4. CASE rq'[r] = rq[r]
  <2>1. Sends(rq[r]) /\ rq[r].sure
    BY <1>4 DEF Sends
  <2>2. rq[r].mtime < clock /\ rq[r].mtime \in Nat
    BY <1>1, <2>1 DEF Sending, LocalOK
  <2>3. rq'[r].mtime < clock'
    BY <1>1, <1>4, <2>2
  <2>4. PICK i : i = Node(Place(rq[r].asked))'
    OBVIOUS
  <2>5. ASSUME i > 0, data'[i].mtime = rq'[r].mtime, Len(data'[i].chunks) = rq'[r].size
        PROVE  /\ i = rq'[r].fd /\ Len(rq'[r].body) <= Len(data'[i].chunks)
               /\ \A k \in 1 .. Len(rq'[r].body) : rq'[r].body[k] = data'[i].chunks[k]
    BY <1>3, <1>4, <2>1, <2>4, <2>5
  <2> QED
    BY <2>3, <2>4, <2>5
<1>5. CASE Send(r)
  <2> DEFINE file == data[rq[r].fd]
             next == Len(rq[r].body) + 1
             q == [rq[r] EXCEPT !.body = Append(@, file.chunks[next])]
  <2>1. /\ rq' = [rq EXCEPT ![r] = q] /\ Sends(rq[r]) /\ next <= Len(file.chunks)
        /\ UNCHANGED clock
    BY <1>5 DEF Send, At, Sends
  <2>2. /\ q.asked = rq[r].asked /\ q.mtime = rq[r].mtime /\ q.size = rq[r].size /\ q.fd = rq[r].fd
        /\ q.sure = rq[r].sure /\ q.body = Append(rq[r].body, file.chunks[next])
    BY <1>1, Fields DEF LocalOK
  <2> HIDE DEF q
  <2>3. rq'[r] = q
    BY <2>1, RqUpdate DEF IInv
  <2>4. rq[r].fd \in Inodes /\ file.chunks \in Seq(Nat) /\ rq[r].body \in Seq(Nat)
    <3>1. rq[r].fd \in Inodes /\ rq[r].body \in Seq(Nat)
      BY <1>1, <2>1 DEF LocalOK, Sends
    <3> QED
      BY <3>1, FileFields DEF IInv, Typed
  <2>5. rq'[r].mtime < clock' /\ rq[r].sure
    BY <1>1, <2>1, <2>2, <2>3 DEF Sending
  <2>6. PICK i, b, c : i = Node(Place(rq[r].asked))' /\ b = rq[r].body /\ c = file.chunks
    OBVIOUS
  <2>7. ASSUME i > 0, data'[i].mtime = rq'[r].mtime, Len(data'[i].chunks) = rq'[r].size
        PROVE  /\ i = rq'[r].fd /\ Len(rq'[r].body) <= Len(data'[i].chunks)
               /\ \A k \in 1 .. Len(rq'[r].body) : rq'[r].body[k] = data'[i].chunks[k]
    <3>1. /\ i = rq[r].fd /\ data'[i].chunks = c
          /\ Len(b) <= Len(c) /\ \A k \in 1 .. Len(b) : b[k] = c[k]
      BY <1>3, <2>1, <2>2, <2>3, <2>5, <2>6, <2>7
    <3>2. PICK d : d = Append(b, c[Len(b) + 1]) /\ d = rq'[r].body
      BY <2>2, <2>3, <2>6
    <3>3. b \in Seq(Nat) /\ c \in Seq(Nat) /\ Len(b) + 1 <= Len(c)
      <4>1. next <= Len(file.chunks) /\ next = Len(rq[r].body) + 1
        BY <2>1
      <4> QED
        BY <2>4, <2>6, <4>1
    <3>4. Begins(b, c)
      BY <3>1 DEF Begins
    <3>5. Begins(d, c)
      BY <3>2, <3>3, <3>4, NextChunk
    <3> QED
      BY <2>2, <2>3, <3>1, <3>2, <3>5 DEF Begins
  <2> QED
    BY <2>5, <2>6, <2>7
<1>6. CASE SendHeader(r)
  <2> DEFINE file == data[rq[r].fd]
             sure == file.mtime < clock /\ Node(Place(rq[r].asked)) = rq[r].fd
             q == [rq[r] EXCEPT !.pc = "send", !.mtime = file.mtime, !.size = Len(file.chunks),
                                !.sure = sure]
  <2>1. /\ rq' = [rq EXCEPT ![r] = q] /\ rq[r].op = "get" /\ rq[r].pc = "stat"
        /\ UNCHANGED <<tree, data, clock>>
    BY <1>6 DEF SendHeader, At, ETag
  <2>2. /\ q.asked = rq[r].asked /\ q.mtime = file.mtime /\ q.sure = sure /\ q.fd = rq[r].fd
        /\ q.body = rq[r].body
    BY <1>1, Fields DEF LocalOK
  <2> HIDE DEF q
  <2>3. rq'[r] = q
    BY <2>1, RqUpdate DEF IInv
  <2>4. rq[r].body = << >> /\ rq[r].fd \in Inodes
    BY <1>1, <2>1 DEF LocalOK, Sends
  <2>5. file.chunks \in Seq(Nat)
    BY <2>4, FileFields DEF IInv, Typed
  <2>7. PICK a : a = rq[r].asked /\ a = rq'[r].asked
    BY <2>2, <2>3
  <2>8. Node(Place(rq[r].asked))' = Node(Place(a))' /\ Node(Place(a))' = Node(Place(a))
    BY <2>1, <2>7 DEF Node, Place, Follow, FollowOne, LinksOn, Links
  <2>9. file.mtime < clock /\ Node(Place(a)) = rq[r].fd
    BY <2>2, <2>3, <2>7
  <2>10. Node(Place(rq[r].asked))' = rq[r].fd
    BY <2>8, <2>9
  <2>11. Len(<< >>) = 0 /\ Len(file.chunks) \in Nat /\ 1 .. 0 = {}
    BY <2>5
  <2>12. /\ rq'[r].fd = rq[r].fd /\ rq'[r].body = << >> /\ rq'[r].mtime < clock'
         /\ data'[rq[r].fd].chunks = file.chunks
    BY <2>1, <2>2, <2>3, <2>4, <2>9
  <2> QED
    BY <2>10, <2>11, <2>12
<1> QED
  BY <1>2, <1>4, <1>5, <1>6

LEMMA TagInvariance == Spec => []TagInv
<1>1. TagInv /\ TreeInv /\ IInv /\ PanelInv /\ PanelInv' /\ [Next]_vars => TagInv'
  <2> SUFFICES ASSUME TagInv, TreeInv, IInv, PanelInv, PanelInv', [Next]_vars PROVE TagInv'
    OBVIOUS
  <2>1. TreeInv' /\ TreeStep
    BY TreeNext
  <2>2. \A r \in Requests : Sending(rq[r])'
    BY <2>1, SendingNext
  <2>3. /\ cached'.asked \in Seq(STRING) /\ cached'.mtime \in Nat
        /\ cached'.sure => cached'.mtime < clock'
        /\ TagNamesContents'
    BY <2>1, CachedTagNext
  <2> QED
    BY <2>2, <2>3 DEF TagInv
<1> QED
  BY <1>1, TagInit, TreeInvariance, Invariance, PanelInvariance, PTL DEF Spec

(* A tag names contents, so that a 304 is true: whatever is written, deleted *)
(* and created again, the file that a path leads to has the contents that    *)
(* were downloaded from it as long as it has the tag, if the tag was that of *)
(* a past tick of the file system's clock when the agent took it. Writes     *)
(* within one tick may well leave the same tag (ModTime().UnixNano() and     *)
(* Size(), http_handlers.go:160).                                           *)
THEOREM TagNamesContentsTheorem == Spec => []TagNamesContents
<1>1. TagInv => TagNamesContents
  BY DEF TagInv
<1> QED
  BY <1>1, TagInvariance, PTL

=============================================================================
