---------------------------- MODULE PaperlessSpec ----------------------------
(***************************************************************************)
(* The PaperlessInstance API: the part of its spec the reconciler branches *)
(* on, the nil-safe accessors of api/v1alpha1, the validation rules the    *)
(* CRD carries, and what the builders of internal/resources derive from a  *)
(* spec.  Constant-level: no state.                                        *)
(*                                                                         *)
(* An optional Go field is modelled by the values the code tells apart: an *)
(* unset *bool is "nil", a reference or a pointer is whether it is set, a  *)
(* zero resource.Quantity is 0, and everything that only ends up in the    *)
(* pod template (image, timezone, env, ...) is the single field image.     *)
(***************************************************************************)
EXTENDS Naturals

CONSTANTS Images        \* the different pod contents a user may ask for

VolumeNames == {"data", "media", "consume", "export"}

PaperlessInstanceSpec ==
  [deletionPolicy     : {"", "Retain", "Delete"},
   cnpg               : BOOLEAN,
   external           : BOOLEAN,
   managed            : {"nil", "true", "false"},
   url                : BOOLEAN,
   urlSecretRef       : BOOLEAN,
   adminEnabled       : {"nil", "true", "false"},
   passwordSecretRef  : BOOLEAN,
   secretKeySecretRef : BOOLEAN,
   storage            : [VolumeNames -> Nat],
   image              : Images]

(***************************************************************************)
(* Accessors.                                                              *)
(***************************************************************************)
DeletionPolicyOrDefault(spec) ==
  IF spec.deletionPolicy = "" THEN "Retain" ELSE spec.deletionPolicy

IsExternal(spec) == spec.external

IsManaged(spec) == spec.managed # "false"

IsEnabled(spec) == spec.adminEnabled # "false"

DefaultSize == [v \in VolumeNames |->
  CASE v = "data"    -> 5
    [] v = "media"   -> 20
    [] v = "consume" -> 5
    [] v = "export"  -> 10]

SizeOrDefault(spec, v) ==
  IF spec.storage[v] = 0 THEN DefaultSize[v] ELSE spec.storage[v]

(***************************************************************************)
(* The two CEL rules of the CRD.  A create or an edit that breaks one is   *)
(* rejected by the API server, so the reconciler never sees it.            *)
(***************************************************************************)
ValidDatabase(spec) == ~(spec.cnpg /\ spec.external)

ValidCache(spec) ==
  IF IsManaged(spec) THEN ~spec.url /\ ~spec.urlSecretRef
                     ELSE spec.url \/ spec.urlSecretRef

Admitted(spec) == ValidDatabase(spec) /\ ValidCache(spec)

(***************************************************************************)
(* Builders.  SecretKey and AdminSecret return nil when the user supplies  *)
(* the value; the pod template depends on the spec only through what is    *)
(* mounted, referenced or run, so neither deletionPolicy nor a volume's    *)
(* size is part of it.                                                     *)
(***************************************************************************)
Secrets == {"secret-key", "admin"}

Generates(spec, s) ==
  CASE s = "secret-key" -> ~spec.secretKeySecretRef
    [] s = "admin"      -> IsEnabled(spec) /\ ~spec.passwordSecretRef

Template(spec) ==
  [image     |-> spec.image,
   external  |-> IsExternal(spec),
   managed   |-> IsManaged(spec),
   generated |-> {s \in Secrets : Generates(spec, s)}]

Templates ==
  [image : Images, external : BOOLEAN, managed : BOOLEAN,
   generated : SUBSET Secrets]
=============================================================================
