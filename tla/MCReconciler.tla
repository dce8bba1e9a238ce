---------------------------- MODULE MCReconciler ----------------------------
(***************************************************************************)
(* Instances of Reconciler for TLC.                                        *)
(***************************************************************************)
EXTENDS Reconciler, TLC

CONSTANTS op1, op2, k1, k2, i1, i2

OneVolume  == <<"data">>

\* A spec that leaves everything to the operator, and one with an external
\* cache and the user's own secrets, which exercises fewer steps.
Defaults ==
  [deletionPolicy |-> "", cnpg |-> FALSE, external |-> FALSE,
   managed |-> "nil", url |-> FALSE, urlSecretRef |-> FALSE,
   adminEnabled |-> "nil", passwordSecretRef |-> FALSE,
   secretKeySecretRef |-> FALSE, storage |-> [v \in VolumeNames |-> 0],
   image |-> i1]

Lean ==
  [Defaults EXCEPT !.managed = "false", !.url = TRUE, !.adminEnabled = "false"]

Delete(spec)   == [spec EXCEPT !.deletionPolicy = "Delete"]
External(spec) == [spec EXCEPT !.external = TRUE]
Shrunk(spec)   == [spec EXCEPT !.storage["data"] = 1]
Upgraded(spec) == [spec EXCEPT !.image = i2]

PolicySpecs   == {Lean, Delete(Lean)}
DatabaseSpecs == {Delete(Lean), External(Lean)}
RecoverySpecs == {External(Lean), Upgraded(Lean)}
ResyncSpecs   == {External(Defaults), Shrunk(Lean)}
StalledSpecs  == {External(Lean), External(Delete(Lean))}

\* Operators and minted keys are interchangeable.
Symmetry == Permutations(Operators) \cup Permutations(Keys)
=============================================================================
