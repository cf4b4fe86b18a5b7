-------------------------- MODULE SecurityProfile --------------------------
(***************************************************************************)
(* The pure part of internal/backend: how the security settings of the     *)
(* configuration become the security context of an agent Pod, the spec     *)
(* hash that is stored on the Pod and compared on the next pass, and the    *)
(* profile key that names a group agent.                                   *)
(*                                                                         *)
(* A settings record has the fields of config.SecuritySpec.  A *int64 is a  *)
(* natural number or Nil; []int64 is a sequence.  An override is a record   *)
(* [match, pvcMatch, sec]; "" is the empty (absent) pattern.  SHA-1 is      *)
(* taken to be injective, so a digest is the tuple it digests.             *)
(***************************************************************************)
EXTENDS Naturals, SequencesExt, FiniteSetsExt

CONSTANTS
  Nil,                   \* the nil pointer
  DefaultId,             \* 65532, pickInt's default in both pod templates
  GlobMatch(_, _)        \* doublestar.Match(pattern, name)

(* The empty string of the source: no pattern, or no storage class. *)
Empty == ""

OrZero(id) == IF id = Nil THEN 0 ELSE id
PickInt(id) == IF id = Nil THEN DefaultId ELSE id

----------------------------------------------------------------------------
(* Storage class of a claim: [className, bound, volumeClass].             *)

(* BuildTargets: a nil or empty class falls back to the bound volume. *)
DiscoveredClass(claim) ==
  LET own == IF claim.className = Nil THEN Empty ELSE claim.className
  IN  IF own = Empty /\ claim.bound THEN claim.volumeClass ELSE own

(* EnsureNamespaceAgent and computeRouting: only a nil class falls back. *)
LookedUpClass(claim) ==
  IF claim.className # Nil THEN claim.className
  ELSE IF claim.bound THEN claim.volumeClass ELSE Empty

----------------------------------------------------------------------------
(* Effective settings: defaults plus the first override that matches.     *)

(* Mutant: an override replaces the readOnly of the defaults. *)
MutMergeSecurity(base, o) ==
  [runAsUser  |-> IF o.runAsUser # Nil THEN o.runAsUser ELSE base.runAsUser,
   runAsGroup |-> IF o.runAsGroup # Nil THEN o.runAsGroup ELSE base.runAsGroup,
   fsGroup    |-> IF o.fsGroup # Nil THEN o.fsGroup ELSE base.fsGroup,
   supplementalGroups |-> IF o.supplementalGroups # <<>>
                            THEN o.supplementalGroups
                            ELSE base.supplementalGroups,
   readOnly   |-> o.readOnly]

MergeSecurity(base, o) ==
  [runAsUser  |-> IF o.runAsUser # Nil THEN o.runAsUser ELSE base.runAsUser,
   runAsGroup |-> IF o.runAsGroup # Nil THEN o.runAsGroup ELSE base.runAsGroup,
   fsGroup    |-> IF o.fsGroup # Nil THEN o.fsGroup ELSE base.fsGroup,
   supplementalGroups |-> IF o.supplementalGroups # <<>>
                            THEN o.supplementalGroups
                            ELSE base.supplementalGroups,
   readOnly   |-> base.readOnly \/ o.readOnly]

FirstOf(defaults, overrides, hits) ==
  IF hits = {} THEN defaults
               ELSE MergeSecurity(defaults, overrides[Min(hits)].sec)

(* Entries that apply to a PVC.  An entry with a pvcMatch is matched by    *)
(* the PVC's name only; the others by the storage class.                   *)
GlobHits(overrides, pvc, class) ==
  {i \in DOMAIN overrides :
     IF overrides[i].pvcMatch # Empty THEN GlobMatch(overrides[i].pvcMatch, pvc)
                                      ELSE GlobMatch(overrides[i].match, class)}

(* Mutant: an entry for another PVC's name falls through to the class. *)
MutExactHits(overrides, pvc, class) ==
  {i \in DOMAIN overrides :
     \/ overrides[i].pvcMatch # Empty /\ GlobMatch(overrides[i].pvcMatch, pvc)
     \/ overrides[i].match = class}

(* The same for agent-per-pvc, where the class is compared for equality. *)
ExactHits(overrides, pvc, class) ==
  {i \in DOMAIN overrides :
     IF overrides[i].pvcMatch # Empty THEN GlobMatch(overrides[i].pvcMatch, pvc)
                                      ELSE overrides[i].match = class}

(* The three resolvers of the source: routing, group agents, PVC agents. *)
BuildSecuritySpec(defaults, overrides, pvc, class) ==
  FirstOf(defaults, overrides, GlobHits(overrides, pvc, class))

GroupEffective(defaults, overrides, pvc, class) ==
  FirstOf(defaults, overrides, GlobHits(overrides, pvc, class))

ResolveSecurityForStorageClass(defaults, overrides, pvc, class) ==
  FirstOf(defaults, overrides, ExactHits(overrides, pvc, class))

----------------------------------------------------------------------------
(* Keys, hashes and the Pods they stand for.                              *)

(* a is returned as it is when b is empty; otherwise duplicates go. *)
AddNew(acc, x) == IF Contains(acc, x) THEN acc ELSE Append(acc, x)

MergeSupplemental(a, b) ==
  LET all == a \o b
      merged[k \in 0 .. Len(all)] ==
        IF k = 0 THEN <<>> ELSE AddNew(merged[k - 1], all[k])
  IN  IF b = <<>> THEN a ELSE merged[Len(all)]

(* Mutant: readOnly is left out of the key. *)
MutProfileKey(sec) ==
  <<OrZero(sec.runAsUser), OrZero(sec.runAsGroup), OrZero(sec.fsGroup),
    ToBag(sec.supplementalGroups)>>

(* The sorted list that ProfileKey digests is a bag of the groups. *)
ProfileKey(sec) ==
  <<OrZero(sec.runAsUser), OrZero(sec.runAsGroup), OrZero(sec.fsGroup),
    sec.readOnly, ToBag(sec.supplementalGroups)>>

(* sec was resolved from one load of the configuration; defaultGroups is   *)
(* r.Defaults.SupplementalGroups, read again when the hash is computed.    *)
SpecHash(defaultGroups, sec) ==
  <<OrZero(sec.runAsUser), OrZero(sec.runAsGroup), OrZero(sec.fsGroup),
    sec.readOnly, MergeSupplemental(defaultGroups, sec.supplementalGroups)>>

(* Mutants: the hash leaves out readOnly; the hash lists the groups of the  *)
(* defaults and of the override without removing duplicates.               *)
MutNoReadOnly(defaultGroups, sec) ==
  SpecHash(defaultGroups, [sec EXCEPT !.readOnly = FALSE])
MutDuplicates(defaultGroups, sec) ==
  [SpecHash(defaultGroups, sec) EXCEPT ![5] = defaultGroups \o sec.supplementalGroups]

PvcSpecHash(defaultGroups, sec) == SpecHash(defaultGroups, sec)

(* The hash of a group agent covers the set of PVCs it mounts as well. *)
GroupSpecHash(pvcs, defaultGroups, sec) == <<pvcs, SpecHash(defaultGroups, sec)>>

PvcPod(defaultGroups, sec) ==
  [runAsUser  |-> PickInt(sec.runAsUser),
   runAsGroup |-> PickInt(sec.runAsGroup),
   fsGroup    |-> sec.fsGroup,
   supplementalGroups |-> MergeSupplemental(defaultGroups, sec.supplementalGroups),
   readOnly   |-> sec.readOnly]

(* A group agent takes fsGroup as its group when it has none, and always   *)
(* joins fsGroup.                                                          *)
GroupPod(defaultGroups, sec) ==
  LET groups == MergeSupplemental(defaultGroups, sec.supplementalGroups)
      primary == IF sec.runAsGroup = Nil THEN sec.fsGroup ELSE sec.runAsGroup
  IN  [runAsUser  |-> PickInt(sec.runAsUser),
       runAsGroup |-> PickInt(primary),
       fsGroup    |-> sec.fsGroup,
       supplementalGroups |-> IF sec.fsGroup = Nil THEN groups
                              ELSE MergeSupplemental(groups, <<sec.fsGroup>>),
       readOnly   |-> sec.readOnly]
=============================================================================
