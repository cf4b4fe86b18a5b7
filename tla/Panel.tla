------------------------------- MODULE Panel -------------------------------
(***************************************************************************)
(* The selection of App and the listing of FilePanel, against answers that  *)
(* arrive late, out of order or not at all.  React runs an event's updates  *)
(* and their effects before the next event, so each event is one step.  A   *)
(* list of PVCs stands for itself by its namespace, a listing by what it    *)
(* was asked for and by the version of the files that it shows.             *)
(***************************************************************************)
EXTENDS Naturals, FiniteSets

CONSTANTS
  Namespaces,   \* the namespaces on offer
  PvcsOf,       \* [Namespaces -> SUBSET names]: the PVCs of each
  Paths,        \* directories, the same in each PVC
  Root,         \* "/"
  Pages,        \* [Paths -> Nat]: windows of FilePanel.limit entries
  None,         \* nothing selected, shown or stored
  Budgets       \* bounds on clicks, own changes of files and failing answers

Pvcs == UNION {PvcsOf[n] : n \in Namespaces}
Listings == [ns : Namespaces, pvc : Pvcs, path : Paths, offset : Nat, phase : {"sent", "body"},
             version : Nat]

ASSUME SelectionAssumption == Root \in Paths /\ None \notin Namespaces \cup Pvcs \cup Listings
ASSUME PanelBoundsAssumption ==
  /\ DOMAIN PvcsOf = Namespaces
  /\ Pages \in [Paths -> Nat] /\ Budgets \in [{"click", "change", "failure"} -> Nat]

VARIABLES
  namespace, pvc,   \* App: the selection
  pvcs,             \* App: the list on show
  pvcsCache,        \* App: [Namespaces -> a list or None]
  lists,            \* App: namespaces whose list is being fetched
  path, offset,     \* FilePanel: the directory and the window on show
  entries, total,   \* FilePanel: the listing on show, and the size announced
  fetches,          \* FilePanel: requests for listings, not aborted
  changes,          \* uploads and deletions under way
  version,          \* how often the files have changed
  seen,             \* history: the newest change whose answer has arrived
  failed,           \* history: the last listing asked for did not arrive
  budget

selection == <<namespace, pvc, pvcs, pvcsCache, lists>>
panel == <<path, offset, entries, total, fetches, failed>>
files == <<changes, version, seen>>
vars == <<selection, panel, files, budget>>

Init ==
  /\ namespace = None /\ pvc = None /\ pvcs = None
  /\ pvcsCache = [n \in Namespaces |-> None]
  /\ lists = {}
  /\ path = Root /\ offset = 0 /\ entries = None /\ total = 0
  /\ fetches = {} /\ failed = FALSE
  /\ changes = {} /\ version = 0 /\ seen = 0
  /\ budget = Budgets

Spend(kind) == budget[kind] > 0 /\ budget' = [budget EXCEPT ![kind] = @ - 1]

----------------------------------------------------------------------------
(* FilePanel's effect.                                                     *)

Request(ns, p, q, o) ==
  [ns |-> ns, pvc |-> p, path |-> q, offset |-> o, phase |-> "sent", version |-> 0]

(* Mutant: the requests under way are not aborted.                         *)
MutFetched(ns, p, q, o) ==
  fetches \cup IF None \in {ns, p} THEN {} ELSE {Request(ns, p, q, o)}

(* The clean-up aborts the request under way; a new one is made for what is *)
(* selected now, if anything.                                              *)
Fetched(ns, p, q, o) == IF None \in {ns, p} THEN {} ELSE {Request(ns, p, q, o)}

(* What stays on show: when the request that is aborted was in its body,    *)
(* its catch makes it an empty listing.                                    *)
Kept == IF \E f \in fetches : f.phase = "body" THEN None ELSE entries

(* The effect runs again as one of its dependencies has changed.            *)
Refetch(ns, p, q, o) ==
  /\ fetches' = Fetched(ns, p, q, o)
  /\ failed' = FALSE

(* A change of the selection resets the panel first.                        *)
Reset(ns, p) ==
  /\ path' = Root /\ offset' = 0 /\ entries' = None /\ total' = 0
  /\ Refetch(ns, p, Root, 0)

----------------------------------------------------------------------------
(* The user.                                                               *)

SelectNamespace(n) ==
  /\ n # namespace
  /\ Spend("click")
  /\ namespace' = n
  /\ pvc' = None
  /\ pvcs' = IF n = None THEN None ELSE pvcsCache[n]
  /\ lists' = lists \cup ({n} \ {None})
  /\ Reset(n, None)
  /\ UNCHANGED <<pvcsCache, files>>

SelectPvc(p) ==
  /\ p # pvc
  /\ Spend("click")
  /\ pvc' = p
  /\ Reset(namespace, p)
  /\ UNCHANGED <<namespace, pvcs, pvcsCache, lists, files>>

GoTo(q, o) ==
  /\ pvc # None
  /\ <<q, o>> # <<path, offset>>
  /\ Spend("click")
  /\ path' = q /\ offset' = o
  /\ Refetch(namespace, pvc, q, o)
  /\ entries' = Kept
  /\ UNCHANGED <<selection, total, files>>

(* A directory of the listing or of the tree view, a breadcrumb.            *)
Navigate == \E q \in Paths : GoTo(q, 0)
Previous == offset > 0 /\ GoTo(path, offset - 1)
NextPage == offset + 1 < total /\ GoTo(path, offset + 1)

(* Upload, delete or empty in the PVC on show.                             *)
Change ==
  /\ pvc # None
  /\ Spend("change")
  /\ changes' = changes \cup {[id |-> budget["change"], version |-> 0]}
  /\ UNCHANGED <<selection, panel, version, seen>>

User ==
  \/ \E n \in Namespaces \cup {None} : SelectNamespace(n)
  \/ pvcs # None /\ \E p \in PvcsOf[pvcs] \cup {None} : SelectPvc(p)
  \/ Navigate \/ Previous \/ NextPage \/ Change

----------------------------------------------------------------------------
(* Answers, in any order.                                                  *)

(* The list is shown whatever namespace is selected by now.                *)
ListAnswered(n) ==
  /\ n \in lists
  /\ lists' = lists \ {n}
  /\ pvcs' = n
  /\ pvcsCache' = [pvcsCache EXCEPT ![n] = n]
  /\ UNCHANGED <<namespace, pvc, panel, files, budget>>

ListFails(n) ==
  /\ n \in lists
  /\ Spend("failure")
  /\ lists' = lists \ {n}
  /\ UNCHANGED <<namespace, pvc, pvcs, pvcsCache, panel, files>>

(* The headers: the agent has read the directory, the total is stored.      *)
Headers(f) ==
  /\ f.phase = "sent"
  /\ f.pvc \in PvcsOf[f.ns]
  /\ total' = Pages[f.path]
  /\ fetches' = (fetches \ {f}) \cup {[f EXCEPT !.phase = "body", !.version = version]}
  /\ UNCHANGED <<selection, path, offset, entries, failed, files, budget>>

Body(f) ==
  /\ f.phase = "body"
  /\ fetches' = fetches \ {f}
  /\ entries' = f
  /\ UNCHANGED <<selection, path, offset, total, failed, files, budget>>

(* No such PVC, no agent, no directory, no network: an error is shown and   *)
(* the listing stays.                                                      *)
NoHeaders(f) ==
  /\ f.phase = "sent"
  /\ IF f.pvc \in PvcsOf[f.ns] THEN Spend("failure") ELSE UNCHANGED budget
  /\ fetches' = fetches \ {f}
  /\ failed' = TRUE
  /\ UNCHANGED <<selection, path, offset, entries, total, files>>

(* The body breaks off: the catch makes it an empty listing.                *)
NoBody(f) ==
  /\ f.phase = "body"
  /\ Spend("failure")
  /\ fetches' = fetches \ {f}
  /\ entries' = None
  /\ failed' = TRUE
  /\ UNCHANGED <<selection, path, offset, total, files>>

Applied(c) ==
  /\ c.version = 0
  /\ version' = version + 1
  /\ changes' = (changes \ {c}) \cup {[c EXCEPT !.version = version + 1]}
  /\ UNCHANGED <<selection, panel, seen, budget>>

(* Mutant: reloadTick is not among the dependencies of the effect.          *)
MutReload ==
  UNCHANGED <<fetches, failed, entries>>

(* setReloadTick runs the effect for what is on show by now.                *)
Reload ==
  /\ Refetch(namespace, pvc, path, offset)
  /\ entries' = Kept

(* The answer to a change that was made.                                   *)
Changed(c) ==
  /\ c.version > 0
  /\ changes' = changes \ {c}
  /\ seen' = IF c.version > seen THEN c.version ELSE seen
  /\ Reload
  /\ UNCHANGED <<selection, path, offset, total, version, budget>>

(* It failed, or its answer did: an error is shown and nothing is fetched.  *)
ChangeFails(c) ==
  /\ Spend("failure")
  /\ changes' = changes \ {c}
  /\ UNCHANGED <<selection, panel, version, seen>>

Answer ==
  \/ \E n \in Namespaces : ListAnswered(n) \/ ListFails(n)
  \/ \E f \in fetches : Headers(f) \/ Body(f) \/ NoHeaders(f) \/ NoBody(f)
  \/ \E c \in changes : Applied(c) \/ Changed(c) \/ ChangeFails(c)

Next == User \/ Answer

Spec == Init /\ [][Next]_vars

----------------------------------------------------------------------------
(* Properties.                                                             *)

(* No answer, however late, puts the files of another PVC on show: a click  *)
(* on an entry sends its path to the PVC it was listed in                   *)
(* (FilePanel.tsx:24-47).                                                  *)
ShownBelongsToSelection ==
  entries # None => entries.ns = namespace /\ entries.pvc = pvc

(* Whatever the order of clicks and answers, when no listing is under way   *)
(* and the last one did not fail, the panel shows the window that is        *)
(* selected, as it is after all own changes that have been answered.        *)
QuietShowsSelection ==
  None \notin {namespace, pvc} /\ fetches = {} /\ ~failed =>
    /\ entries # None
    /\ entries.path = path /\ entries.offset = offset
    /\ entries.version >= seen
    /\ total = Pages[path]
=============================================================================
