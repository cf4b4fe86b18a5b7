--------------------------- MODULE ConfigRegister ---------------------------
(***************************************************************************)
(* What reloading a configuration file promises to its user, whatever the  *)
(* mechanism: the value in force is the content of some version of the     *)
(* file, it never goes back to an older version while the process lives,   *)
(* and a version that was announced to the reader and is not overwritten   *)
(* is in force in the end, if it can be loaded.                            *)
(***************************************************************************)
EXTENDS Naturals, Sequences

VARIABLES
  written,      \* versions of the file, oldest first: can it be loaded?
  announced,    \* the newest version the reader has been told of
  value         \* the version in force; 0 is the empty configuration

vars == <<written, announced, value>>

Init ==
  /\ written \in {<<ok>> : ok \in BOOLEAN}
  /\ announced = 1
  /\ value = 0

Write ==
  /\ \E ok \in BOOLEAN : written' = Append(written, ok)
  /\ announced' \in {announced, Len(written')}
  /\ UNCHANGED value

(* The reader may skip versions and may be behind when it takes one over.  *)
Read ==
  /\ value' \in {n \in value + 1 .. Len(written) : written[n]}
  /\ UNCHANGED <<written, announced>>

(* A new process starts from nothing and looks at the file again.          *)
Restart ==
  /\ value' = 0
  /\ announced' = Len(written)
  /\ UNCHANGED written

Next == Write \/ Read \/ Restart

Safety == Init /\ [][Next]_vars

LastAnnounced(n) == announced = n /\ Len(written) = n /\ written[n]

CatchesUp(Versions) == \A n \in Versions : LastAnnounced(n) ~> (value = n \/ Len(written) > n)
=============================================================================
