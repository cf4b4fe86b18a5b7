------------------------------ MODULE Routing ------------------------------
(***************************************************************************)
(* How a path shown in the panel becomes a path on an agent's volumes, and  *)
(* back: the rewriting in computeRouting, the paths handleTree puts into a  *)
(* listing, the panel's navigation, and the windows that the agent cuts     *)
(* out of listings and files.  A path is the sequence of its segments; the  *)
(* volume of PVC v is the directory <<v>>, whichever agent mounts it.       *)
(***************************************************************************)
EXTENDS Integers, Sequences, SequencesExt

CONSTANTS
  Mode,         \* "agent-per-pvc" or "agent-per-namespace"
  Pvcs,         \* the PVCs of the namespace, their names are path segments
  MaxInt        \* the largest int64: what strconv.ParseInt reads at most

ASSUME ModeAssumption == Mode \in {"agent-per-pvc", "agent-per-namespace"}
ASSUME IntAssumption == MaxInt \in Nat

(* The data root of the agent that serves PVC v: a per-PVC agent mounts     *)
(* the volume at /data, a group agent at /data/<pvc>.                       *)
DataRoot(v) == IF Mode = "agent-per-namespace" THEN << >> ELSE <<v>>

(* computeRouting: prefix the PVC unless the path has the prefix already.   *)
Rewrite(v, path) ==
  IF Mode # "agent-per-namespace" \/ (path # << >> /\ path[1] = v) THEN path
  ELSE <<v>> \o path

(* Mutant: the path that was asked for, without the prefix of the PVC.     *)
MutEntryPath(v, path, name) == Append(path, name)

(* handleTree: the path of an entry in a listing.                           *)
EntryPath(v, path, name) == Append(Rewrite(v, path), name)

(* Where a request for that path ends on the volumes, links left aside.     *)
Routed(v, path) == DataRoot(v) \o Rewrite(v, path)

(* The breadcrumbs of FilePanel: the root and every prefix of the path.     *)
Breadcrumbs(path) == {SubSeq(path, 1, k) : k \in 0 .. Len(path)}

----------------------------------------------------------------------------

(* handleTree: the window of a listing of n entries; the limit is 200       *)
(* unless it is given as 1 to 1000.  Positions count from 1.                *)
PageLimit(limit) == IF limit <= 0 \/ limit > 1000 THEN 200 ELSE limit

(* Mutant: the end of the window is taken for an index that is in it.       *)
MutPage(n, offset, limit) == offset .. offset + PageLimit(limit)

Page(n, offset, limit) ==
  LET AtMost(i) == IF i > n THEN n ELSE i
  IN  AtMost(offset) + 1 .. AtMost(offset + PageLimit(limit))

(* parseRange: first and last byte of a well-formed header, either absent   *)
(* (-1), to [start, end) of a file of that size.                            *)
NoRange == [start |-> 0, end |-> 0, ok |-> FALSE]
Satisfied(start, end) == [start |-> start, end |-> end, ok |-> TRUE]

Refused(first, last, size) ==
  \/ first > MaxInt \/ last > MaxInt
  \/ IF first = -1 THEN last <= 0 ELSE first >= size \/ last \in 0 .. first - 1

(* Mutant: the last byte is left out.                                      *)
MutParseRange(first, last, size) ==
  CASE Refused(first, last, size) -> NoRange
    [] first = -1                 -> Satisfied(IF last > size THEN 0 ELSE size - last, size)
    [] OTHER                      -> Satisfied(first, IF last = -1 \/ last >= size THEN size ELSE last)

ParseRange(first, last, size) ==
  IF Refused(first, last, size) THEN NoRange
  ELSE IF first = -1 THEN Satisfied(IF last > size THEN 0 ELSE size - last, size)
  ELSE Satisfied(first, IF last = -1 \/ last >= size THEN size ELSE last + 1)

(* The bytes RFC 9110 means: positions 0 to size - 1 that the header names. *)
NamedBytes(first, last, size) ==
  {b \in 0 .. size - 1 :
     IF first = -1 THEN b >= size - last
     ELSE b >= first /\ (last # -1 => b <= last)}

(* A 206 sends exactly the bytes that the header names, and a 206 is the    *)
(* answer to every header that names some in numbers that an int64 holds    *)
(* (parseRange, http_handlers.go:323-368).  To a suffix of an empty file,    *)
(* which names no byte, the code answers with a 206 as well.                *)
RangeExact(first, last, size) ==
  LET r == ParseRange(first, last, size)
      named == NamedBytes(first, last, size)
  IN  /\ r.ok => r.start .. r.end - 1 = named
      /\ r.ok <=> /\ first <= MaxInt /\ last <= MaxInt
                  /\ named # {} \/ (first = -1 /\ last > 0 /\ size = 0)

(* The offsets the panel asks for when its user presses Next until the end, *)
(* which is when offset + limit has come to n: FilePanel.tsx:57-58, 186.    *)
PanelOffsets(n, limit) ==
  {offset \in 0 .. n : (offset = 0 \/ offset < n) /\ \E k \in 0 .. n : offset = limit * k}

(* Paging through an unchanged directory shows every entry, and each once.  *)
PagesCover(n, limit) ==
  \A i \in 1 .. n :
    /\ \E offset \in PanelOffsets(n, limit) : i \in Page(n, offset, limit)
    /\ \A a, b \in PanelOffsets(n, limit) :
         i \in Page(n, a, limit) /\ i \in Page(n, b, limit) => a = b
=============================================================================
