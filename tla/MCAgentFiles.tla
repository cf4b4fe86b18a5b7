---------------------------- MODULE MCAgentFiles ----------------------------
(***************************************************************************)
(* AgentFiles on a volume p with a file f and a directory that has the name *)
(* of the volume.  In it are two links: m to the volume's root, and f, which *)
(* points through m to the file outside.  The name p is free in it.         *)
(***************************************************************************)
EXTENDS AgentFiles, TLC

CONSTANTS r1, r2

MCTree ==
  (<<"p">> :> Dir) @@ (<<"p", "f">> :> 1) @@ (<<"p", "p">> :> Dir) @@
  (<<"p", "p", "p">> :> Absent) @@ (<<"p", "p", "f">> :> Link) @@
  (<<"p", "p", "m">> :> Link) @@ (<<"p", "p", "m", "f">> :> Absent)
MCPaths == DOMAIN MCTree
MCLinkTarget ==
  (<<"p", "p", "m">> :> <<"p">>) @@ (<<"p", "p", "f">> :> <<"p", "p", "m", "f">>)

MCDownloaded == <<"p", "f">>

MCUploads == <<[names |-> <<"f">>, size |-> 1], [names |-> <<"p", "f">>, size |-> 2]>>

MCBudgets ==
  [upload |-> 2, delete |-> 1, empty |-> 1, get |-> 1, request |-> 3, fault |-> 1, tick |-> 1]

Slots == Permutations(Requests)
=============================================================================
