-------------------------- MODULE MCSecurityReload --------------------------
(***************************************************************************)
(* SecurityReload on two storage classes and three claims: one per class,  *)
(* one whose class is known only through its volume, and one that is not    *)
(* ReadWriteMany.                                                          *)
(***************************************************************************)
EXTENDS SecurityReload

CONSTANTS MCIds, MCUsers, MCModes, MCPatterns

MCGlobMatch(p, s) ==
  \/ p = s
  \/ p = "*"
  \/ p = "ceph*" /\ s \in {"cephfs", "ceph"}
  \/ p = "air*" /\ s = "airflow"

Claim(class, bound, volumeClass, rwx) ==
  [className |-> class, bound |-> bound, volumeClass |-> volumeClass, rwx |-> rwx]

MCClaims ==
  (<<"n", "airflow">> :> Claim("cephfs", TRUE, "cephfs", TRUE)) @@
  (<<"n", "logs">>    :> Claim(Nil, TRUE, "nfs", TRUE)) @@
  (<<"n", "rwo">>     :> Claim("cephfs", TRUE, "cephfs", FALSE))

MCListed == <<<<"n", "airflow">>, <<"n", "logs">>, <<"n", "rwo">>>>

AnyName == [include |-> {"*"}, exclude |-> {}]
Watching(classes) == [namespaces |-> AnyName, pvcs |-> AnyName, storageClasses |-> classes]

Sec(user, fs, supplemental, ro) ==
  [runAsUser |-> user, runAsGroup |-> Nil, fsGroup |-> fs,
   supplementalGroups |-> supplemental, readOnly |-> ro]

MCDefaults ==
  {Sec(7, fs, <<>>, FALSE) : fs \in MCIds} \cup {Sec(7, 3, <<2, 1>>, ro) : ro \in BOOLEAN}
    \cup {Sec(user, 3, <<>>, FALSE) : user \in MCUsers}

ByClass(p) == [match |-> p, pvcMatch |-> Empty, sec |-> Sec(Nil, 3, <<1, 2>>, FALSE)]
ByName(p)  == [match |-> Empty, pvcMatch |-> p, sec |-> Sec(8, Nil, <<>>, TRUE)]

ReadOnlyByName(p) == [ByName(p) EXCEPT !.sec.runAsUser = Nil]

(* An entry with both patterns is for a name: its class is not looked at. *)
ByBoth(p, class) == [ByName(p) EXCEPT !.match = class]

MCOverrides ==
  {<<>>, <<ReadOnlyByName("air*")>>, <<ByBoth("air*", "nfs"), ByClass("cephfs")>>}
    \cup {<<ByClass(p), ByName("air*")>> : p \in MCPatterns}

(* Every defaults/overrides/mode combination with everything watched, and  *)
(* one configuration per mode in which the class nfs is excluded.          *)
MCConfigs ==
  [mode : MCModes, watch : {Watching(AnyName)}, defaults : MCDefaults, overrides : MCOverrides]
    \cup [mode : MCModes, watch : {Watching([include |-> {"*"}, exclude |-> {"nfs"}])},
          defaults : {Sec(7, 3, <<>>, FALSE)}, overrides : {<<>>}]
=============================================================================
