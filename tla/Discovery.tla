----------------------------- MODULE Discovery -----------------------------
(***************************************************************************)
(* internal/matcher and internal/backend/discovery.go: which claims the     *)
(* watch section of the configuration selects.  A watch record has a        *)
(* [include, exclude] pair of pattern sets for namespaces, pvcs and         *)
(* storageClasses; a claim adds rwx to the fields SecurityProfile uses.     *)
(***************************************************************************)
EXTENDS SecurityProfile

(* An empty include list matches nothing; exclude wins over include. *)
Matches(patterns, name) ==
  /\ \E p \in patterns.include : GlobMatch(p, name)
  /\ ~ \E p \in patterns.exclude : GlobMatch(p, name)

Selected(watch, ns, pvc, claim) ==
  LET class == DiscoveredClass(claim)
  IN  /\ Matches(watch.namespaces, ns)
      /\ Matches(watch.pvcs, pvc)
      /\ claim.rwx
      /\ class # Empty
      /\ Matches(watch.storageClasses, class)

(* claims maps each existing <<ns, pvc>> to its claim. *)
BuildTargets(watch, claims) ==
  {t \in DOMAIN claims : Selected(watch, t[1], t[2], claims[t])}

(* The listing of one namespace, which the read API shows. *)
BuildTargetsForNamespace(watch, claims, ns) ==
  {t \in DOMAIN claims : t[1] = ns /\ Selected(watch, ns, t[2], claims[t])}
=============================================================================
