---------------------------- MODULE PanelProofs ----------------------------
(***************************************************************************)
(* Proofs about Panel, for any namespaces, PVCs, directories and numbers of *)
(* clicks, changes and failures: the panel shows what is selected.          *)
(***************************************************************************)
EXTENDS Panel, TLAPS

Changes == [id : Nat, version : Nat]

Typed ==
  /\ namespace \in Namespaces \cup {None} /\ pvc \in Pvcs \cup {None}
  /\ pvcs \in Namespaces \cup {None} /\ lists \subseteq Namespaces
  /\ pvcsCache \in [Namespaces -> Namespaces \cup {None}]
  /\ path \in Paths /\ offset \in Nat
  /\ entries \in Listings \cup {None} /\ fetches \subseteq Listings
  /\ version \in Nat /\ seen \in 0 .. version
  /\ changes \subseteq Changes /\ \A c \in changes : c.version <= version
  /\ budget \in [{"click", "change", "failure"} -> Nat]

(* There is at most one request, for what is selected; if its headers have  *)
(* arrived it shows the files as they are after all changes that have been   *)
(* answered, and the total is the one that goes with it.                    *)
OnlyCurrent ==
  /\ \A f, g \in fetches : f = g
  /\ \A f \in fetches :
       /\ f.ns = namespace /\ f.pvc = pvc /\ f.path = path /\ f.offset = offset
       /\ f.phase = "body" => f.version >= seen /\ total = Pages[path]

IInv == Typed /\ OnlyCurrent /\ ShownBelongsToSelection /\ QuietShowsSelection

LEMMA ListingFields ==
  ASSUME NEW f \in Listings
  PROVE  /\ f.ns \in Namespaces /\ f.pvc \in Pvcs /\ f.path \in Paths /\ f.offset \in Nat
         /\ f.phase \in {"sent", "body"} /\ f.version \in Nat /\ f # None
  BY SelectionAssumption DEF Listings

LEMMA SpendTyped ==
  ASSUME Typed, NEW kind \in {"click", "change", "failure"}, Spend(kind)
  PROVE  budget' \in [{"click", "change", "failure"} -> Nat] /\ budget[kind] \in Nat
  BY DEF Typed, Spend

(* The request that is made for a selection.                                *)
LEMMA FetchedFields ==
  ASSUME NEW ns \in Namespaces \cup {None}, NEW p \in Pvcs \cup {None},
         NEW q \in Paths, NEW o \in Nat
  PROVE  /\ Fetched(ns, p, q, o) \subseteq Listings
         /\ \A f, g \in Fetched(ns, p, q, o) : f = g
         /\ \A f \in Fetched(ns, p, q, o) :
              f.ns = ns /\ f.pvc = p /\ f.path = q /\ f.offset = o /\ f.phase = "sent"
         /\ None \notin {ns, p} => Fetched(ns, p, q, o) # {}
<1>1. CASE None \in {ns, p}
  BY <1>1 DEF Fetched
<1>2. CASE None \notin {ns, p}
  <2>1. Fetched(ns, p, q, o) = {Request(ns, p, q, o)} /\ ns \in Namespaces /\ p \in Pvcs
    BY <1>2 DEF Fetched
  <2>2. Request(ns, p, q, o) \in Listings
    BY <2>1 DEF Request, Listings
  <2>3. LET f == Request(ns, p, q, o)
        IN  f.ns = ns /\ f.pvc = p /\ f.path = q /\ f.offset = o /\ f.phase = "sent"
    BY DEF Request
  <2> QED
    BY <2>1, <2>2, <2>3
<1> QED
  BY <1>1, <1>2

(* After the effect has run for the selection the invariant holds again, if  *)
(* what is on show belongs to the selection.                                *)
LEMMA RefetchKeeps ==
  ASSUME IInv, Typed', Refetch(namespace', pvc', path', offset'),
         entries' # None => entries'.ns = namespace' /\ entries'.pvc = pvc'
  PROVE  IInv'
<1>1. /\ fetches' = Fetched(namespace', pvc', path', offset')
      /\ namespace' \in Namespaces \cup {None} /\ pvc' \in Pvcs \cup {None}
      /\ path' \in Paths /\ offset' \in Nat
  BY DEF Refetch, Typed
<1>2. /\ \A f, g \in fetches' : f = g
      /\ \A f \in fetches' : /\ f.ns = namespace' /\ f.pvc = pvc' /\ f.path = path'
                             /\ f.offset = offset' /\ f.phase = "sent"
      /\ None \notin {namespace', pvc'} => fetches' # {}
  BY <1>1, FetchedFields
<1>3. OnlyCurrent'
  BY <1>2 DEF OnlyCurrent
<1>4. ShownBelongsToSelection' /\ QuietShowsSelection'
  BY <1>2 DEF ShownBelongsToSelection, QuietShowsSelection
<1> QED
  BY <1>3, <1>4 DEF IInv

LEMMA SelectNamespaceKeeps ==
  ASSUME IInv, NEW n \in Namespaces \cup {None}, SelectNamespace(n)
  PROVE  IInv'
<1>1. /\ namespace' = n /\ pvc' = None /\ path' = Root /\ offset' = 0 /\ entries' = None
      /\ Refetch(n, None, Root, 0) /\ UNCHANGED <<pvcsCache, files>>
      /\ Typed /\ Spend("click")
  BY DEF SelectNamespace, Reset, IInv
<1>2. pvcs' \in Namespaces \cup {None} /\ lists' \subseteq Namespaces
  BY <1>1 DEF SelectNamespace, Typed
<1>3. fetches' \subseteq Listings
  BY <1>1, FetchedFields, SelectionAssumption DEF Refetch
<1>4. Typed'
  BY <1>1, <1>2, <1>3, SpendTyped, SelectionAssumption DEF Typed, files
<1> QED
  BY <1>1, <1>4, RefetchKeeps

LEMMA SelectPvcKeeps ==
  ASSUME IInv, NEW p \in Pvcs \cup {None}, SelectPvc(p)
  PROVE  IInv'
<1>1. /\ namespace' = namespace /\ pvc' = p /\ path' = Root /\ offset' = 0 /\ entries' = None
      /\ Refetch(namespace, p, Root, 0) /\ UNCHANGED <<pvcs, pvcsCache, lists, files>>
      /\ Typed /\ Spend("click")
  BY DEF SelectPvc, Reset, IInv
<1>2. fetches' \subseteq Listings
  BY <1>1, FetchedFields, SelectionAssumption DEF Refetch, Typed
<1>3. Typed'
  BY <1>1, <1>2, SpendTyped, SelectionAssumption DEF Typed, files
<1> QED
  BY <1>1, <1>3, RefetchKeeps

LEMMA GoToKeeps ==
  ASSUME IInv, NEW q \in Paths, NEW o \in Nat, GoTo(q, o)
  PROVE  IInv'
<1>1. /\ path' = q /\ offset' = o /\ entries' = Kept
      /\ Refetch(namespace, pvc, q, o) /\ UNCHANGED <<selection, files>>
      /\ Typed /\ Spend("click")
  BY DEF GoTo, IInv
<1>2. fetches' \subseteq Listings
  BY <1>1, FetchedFields DEF Refetch, Typed
<1>3. Typed'
  BY <1>1, <1>2, SpendTyped DEF Typed, files, selection, Kept
<1>4. entries' # None => entries'.ns = namespace' /\ entries'.pvc = pvc'
  BY <1>1 DEF IInv, ShownBelongsToSelection, Kept, selection
<1> QED
  BY <1>1, <1>3, <1>4, RefetchKeeps DEF selection

LEMMA ChangeKeeps == ASSUME IInv, Change PROVE IInv'
<1>1. Typed'
  <2>1. [id |-> budget["change"], version |-> 0] \in Changes
    BY SpendTyped DEF Change, Changes, IInv
  <2>2. [id |-> budget["change"], version |-> 0].version = 0
    OBVIOUS
  <2>3. budget' \in [{"click", "change", "failure"} -> Nat]
    BY SpendTyped DEF Change, IInv
  <2> QED
    BY <2>1, <2>2, <2>3 DEF Change, IInv, Typed, selection, panel
<1>2. OnlyCurrent' /\ ShownBelongsToSelection' /\ QuietShowsSelection'
  BY DEF Change, IInv, selection, panel, OnlyCurrent, ShownBelongsToSelection, QuietShowsSelection
<1> QED
  BY <1>1, <1>2 DEF IInv

LEMMA ListKeeps ==
  ASSUME IInv, NEW n \in Namespaces, ListAnswered(n) \/ ListFails(n)
  PROVE  IInv'
<1>1. Typed'
  BY SpendTyped DEF ListAnswered, ListFails, IInv, Typed, panel, files
<1>2. OnlyCurrent' /\ ShownBelongsToSelection' /\ QuietShowsSelection'
  BY DEF ListAnswered, ListFails, IInv, panel, files, OnlyCurrent, ShownBelongsToSelection,
         QuietShowsSelection
<1> QED
  BY <1>1, <1>2 DEF IInv

LEMMA HeadersKeeps ==
  ASSUME IInv, NEW f \in fetches, Headers(f)
  PROVE  IInv'
<1> DEFINE g == [f EXCEPT !.phase = "body", !.version = version]
<1>1. /\ total' = Pages[path] /\ fetches' = {g}
      /\ UNCHANGED <<selection, path, offset, entries, failed, files, budget>> /\ Typed
  BY DEF Headers, IInv, OnlyCurrent
<1>2. /\ g \in Listings /\ g.ns = namespace /\ g.pvc = pvc /\ g.path = path /\ g.offset = offset
      /\ g.version = version
  <2>1. /\ f \in Listings /\ f.ns = namespace /\ f.pvc = pvc /\ f.path = path /\ f.offset = offset
        /\ version \in Nat
    BY DEF IInv, Typed, OnlyCurrent
  <2> QED
    BY <2>1 DEF Listings
<1> HIDE DEF g
<1>3. Typed'
  BY <1>1, <1>2 DEF Typed, selection, files
<1>4. OnlyCurrent'
  BY <1>1, <1>2 DEF OnlyCurrent, Typed, selection, files
<1>5. ShownBelongsToSelection' /\ QuietShowsSelection'
  BY <1>1 DEF IInv, ShownBelongsToSelection, QuietShowsSelection, selection
<1> QED
  BY <1>3, <1>4, <1>5 DEF IInv

LEMMA BodyKeeps ==
  ASSUME IInv, NEW f \in fetches, Body(f)
  PROVE  IInv'
<1>1. /\ f.phase = "body" /\ fetches' = {} /\ entries' = f
      /\ UNCHANGED <<selection, path, offset, total, failed, files, budget>> /\ Typed
  BY DEF Body, IInv, OnlyCurrent
<1>2. f \in Listings /\ f # None
  BY <1>1, ListingFields DEF Typed
<1>3. /\ f.ns = namespace /\ f.pvc = pvc /\ f.path = path /\ f.offset = offset
      /\ f.version >= seen /\ total = Pages[path]
  BY <1>1 DEF IInv, OnlyCurrent
<1>4. Typed' /\ OnlyCurrent'
  BY <1>1, <1>2 DEF Typed, OnlyCurrent, selection, files
<1>5. ShownBelongsToSelection' /\ QuietShowsSelection'
  BY <1>1, <1>2, <1>3 DEF ShownBelongsToSelection, QuietShowsSelection, selection, files
<1> QED
  BY <1>4, <1>5 DEF IInv

LEMMA FailureKeeps ==
  ASSUME IInv, NEW f \in fetches, NoHeaders(f) \/ NoBody(f)
  PROVE  IInv'
<1>1. /\ fetches' = {} /\ failed' = TRUE /\ entries' \in {entries, None}
      /\ UNCHANGED <<selection, path, offset, total, files>> /\ Typed
      /\ UNCHANGED budget \/ Spend("failure")
  BY DEF NoHeaders, NoBody, IInv, OnlyCurrent
<1>2. Typed' /\ OnlyCurrent'
  BY <1>1, SpendTyped DEF Typed, OnlyCurrent, selection, files
<1>3. ShownBelongsToSelection' /\ QuietShowsSelection'
  BY <1>1 DEF IInv, ShownBelongsToSelection, QuietShowsSelection, selection
<1> QED
  BY <1>2, <1>3 DEF IInv

LEMMA AppliedKeeps ==
  ASSUME IInv, NEW c \in changes, Applied(c)
  PROVE  IInv'
<1> DEFINE d == [c EXCEPT !.version = version + 1]
<1>1. /\ version' = version + 1 /\ changes' = (changes \ {c}) \cup {d}
      /\ UNCHANGED <<selection, panel, seen, budget>> /\ Typed
  BY DEF Applied, IInv
<1>2. d \in Changes /\ d.version = version + 1
  BY <1>1 DEF Typed, Changes
<1> HIDE DEF d
<1>3. Typed'
  <2>1. \A e \in changes' : e.version <= version'
    <3> SUFFICES ASSUME NEW e \in changes, e.version <= version PROVE e.version <= version + 1
      BY <1>1, <1>2 DEF Typed
    <3>1. e.version \in Nat
      BY <1>1 DEF Typed, Changes
    <3> QED
      BY <1>1, <3>1 DEF Typed
  <2> QED
    BY <1>1, <1>2, <2>1 DEF Typed, selection, panel
<1>4. OnlyCurrent' /\ ShownBelongsToSelection' /\ QuietShowsSelection'
  BY <1>1 DEF IInv, selection, panel, OnlyCurrent, ShownBelongsToSelection, QuietShowsSelection
<1> QED
  BY <1>3, <1>4 DEF IInv

LEMMA ChangedKeeps ==
  ASSUME IInv, NEW c \in changes, Changed(c)
  PROVE  IInv'
<1>1. /\ changes' = changes \ {c} /\ seen' = (IF c.version > seen THEN c.version ELSE seen)
      /\ Refetch(namespace, pvc, path, offset) /\ entries' = Kept
      /\ UNCHANGED <<selection, path, offset, total, version, budget>> /\ Typed
  BY DEF Changed, Reload, IInv
<1>2. fetches' \subseteq Listings
  BY <1>1, FetchedFields DEF Refetch, Typed
<1>3. seen' \in 0 .. version
  BY <1>1 DEF Typed, Changes
<1>4. Typed'
  BY <1>1, <1>2, <1>3 DEF Typed, selection, Kept
<1>5. entries' # None => entries'.ns = namespace' /\ entries'.pvc = pvc'
  BY <1>1 DEF IInv, ShownBelongsToSelection, Kept, selection
<1> QED
  BY <1>1, <1>4, <1>5, RefetchKeeps DEF selection

LEMMA ChangeFailsKeeps ==
  ASSUME IInv, NEW c \in changes, ChangeFails(c)
  PROVE  IInv'
<1>1. Typed'
  BY SpendTyped DEF ChangeFails, IInv, Typed, selection, panel
<1>2. OnlyCurrent' /\ ShownBelongsToSelection' /\ QuietShowsSelection'
  BY DEF ChangeFails, IInv, selection, panel, OnlyCurrent, ShownBelongsToSelection,
         QuietShowsSelection
<1> QED
  BY <1>1, <1>2 DEF IInv

LEMMA InitHolds == Init => IInv
<1> SUFFICES ASSUME Init PROVE IInv
  OBVIOUS
<1>1. Typed
  BY SelectionAssumption, PanelBoundsAssumption DEF Init, Typed
<1> QED
  BY <1>1 DEF Init, IInv, OnlyCurrent, ShownBelongsToSelection, QuietShowsSelection

LEMMA Invariance == Spec => []IInv
<1>1. IInv /\ [Next]_vars => IInv'
  <2> SUFFICES ASSUME IInv, [Next]_vars PROVE IInv'
    OBVIOUS
  <2>1. CASE UNCHANGED vars
    BY <2>1 DEF vars, selection, panel, files, IInv, Typed, OnlyCurrent, ShownBelongsToSelection,
                QuietShowsSelection
  <2>2. CASE User
    <3>1. ASSUME NEW n \in Namespaces \cup {None}, SelectNamespace(n)
          PROVE  IInv'
      BY <3>1, SelectNamespaceKeeps
    <3>2. ASSUME pvcs # None, NEW p \in PvcsOf[pvcs] \cup {None}, SelectPvc(p)
          PROVE  IInv'
      <4>1. p \in Pvcs \cup {None}
        BY <3>2 DEF IInv, Typed, Pvcs
      <4> QED
        BY <3>2, <4>1, SelectPvcKeeps
    <3>3. CASE Navigate
      BY <3>3, GoToKeeps DEF Navigate
    <3>4. CASE Previous
      <4>1. offset - 1 \in Nat /\ path \in Paths
        BY <3>4 DEF Previous, IInv, Typed
      <4> QED
        BY <3>4, <4>1, GoToKeeps DEF Previous
    <3>5. CASE NextPage
      <4>1. offset + 1 \in Nat /\ path \in Paths
        BY DEF IInv, Typed
      <4> QED
        BY <3>5, <4>1, GoToKeeps DEF NextPage
    <3> QED
      BY <2>2, <3>1, <3>2, <3>3, <3>4, <3>5, ChangeKeeps DEF User
  <2>3. CASE Answer
    BY <2>3, ListKeeps, HeadersKeeps, BodyKeeps, FailureKeeps, AppliedKeeps, ChangedKeeps,
       ChangeFailsKeeps DEF Answer
  <2> QED
    BY <2>1, <2>2, <2>3 DEF Next
<1> QED
  BY <1>1, InitHolds, PTL DEF Spec

(* No answer, however late, puts the files of another PVC on show           *)
(* (FilePanel.tsx:24-47).                                                  *)
THEOREM ShownBelongsTheorem == Spec => []ShownBelongsToSelection
  BY Invariance, PTL DEF IInv

(* Whatever the order of clicks, changes and answers, a panel that waits for *)
(* no listing and whose last one did not fail shows the selected window, as  *)
(* it is after all own changes that have been answered                      *)
(* (FilePanel.tsx:24-47, 235-271).                                         *)
THEOREM QuietShowsTheorem == Spec => []QuietShowsSelection
  BY Invariance, PTL DEF IInv

=============================================================================
