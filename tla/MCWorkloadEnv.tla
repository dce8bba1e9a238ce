---------------------------- MODULE MCWorkloadEnv ----------------------------
(***************************************************************************)
(* Instances of WorkloadEnv for TLC.                                       *)
(***************************************************************************)
EXTENDS WorkloadEnv

CONSTANTS i1, v1, v2

Base ==
  [deletionPolicy |-> "", cnpg |-> FALSE, external |-> FALSE,
   managed |-> "nil", url |-> FALSE, urlSecretRef |-> FALSE,
   adminEnabled |-> "nil", passwordSecretRef |-> FALSE,
   secretKeySecretRef |-> FALSE, storage |-> [v \in VolumeNames |-> 0],
   image |-> i1]

\* Every way the typed fields branch: database, cache, admin, secret key.
BranchSpecs ==
  {s \in {[Base EXCEPT !.external = ext, !.managed = m, !.urlSecretRef = ref,
                       !.url = u, !.adminEnabled = a, !.passwordSecretRef = pw,
                       !.secretKeySecretRef = sk] :
            ext, ref, u, pw, sk \in BOOLEAN,
            m \in {"nil", "false"}, a \in {"nil", "false"}} : Admitted(s)}

Var(x, v) == [name |-> x, from |-> "env", value |-> {<<v>>}]

Plain(spec, list) ==
  [name |-> "docs", namespace |-> "home", spec |-> spec, url |-> "",
   timezone |-> "", languages |-> "", username |-> "", email |-> "",
   env |-> list]

Full(spec, u, list) ==
  [name |-> "paperless", namespace |-> "office", spec |-> spec, url |-> u,
   timezone |-> "spec", languages |-> "spec", username |-> "spec",
   email |-> "spec", env |-> list]

\* Lists of up to three entries in which names repeat each other and the
\* operator's.
Overrides ==
  {Var("DBHOST", v1), Var("DBHOST", v2), Var("X", v1),
   Var("X", v2), Var("ALLOWED_HOSTS", v1)}

ManyLists == UNION {[1..k -> Overrides] : k \in 0..3}

Branches ==
  {Plain(s, <<>>) : s \in BranchSpecs}
    \cup {Full(s, u, <<Var("X", v1)>>) : s \in BranchSpecs, u \in {"host", "no-host"}}

Repeats == {Full(Base, "host", list) : list \in ManyLists}

AllInstances == Branches \cup Repeats
=============================================================================
