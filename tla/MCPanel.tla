------------------------------ MODULE MCPanel ------------------------------
(***************************************************************************)
(* Two namespaces with a PVC of the same name, one with a second PVC; a     *)
(* root of two pages with a directory of one.                              *)
(***************************************************************************)
EXTENDS Panel

MCNamespaces == {"a", "b"}
MCPvcsOf == [n \in MCNamespaces |-> IF n = "a" THEN {"data", "logs"} ELSE {"data"}]
MCPaths == {"/", "/d"}
MCPages == [q \in MCPaths |-> IF q = "/" THEN 2 ELSE 1]
MCBudgets == [click |-> 6, change |-> 2, failure |-> 1]
=============================================================================
