-------------------------- MODULE MCSharedNamespace --------------------------
(***************************************************************************)
(* Instances of SharedNamespace for TLC.                                   *)
(***************************************************************************)
EXTENDS SharedNamespace

CONSTANT i1

AllSegments ==
  {"a", "secret", "key", "admin", "data", "media", "consume",
   "export", "db", "valkey"}

Managed ==
  [deletionPolicy |-> "", cnpg |-> FALSE, external |-> FALSE,
   managed |-> "nil", url |-> FALSE, urlSecretRef |-> FALSE,
   adminEnabled |-> "nil", passwordSecretRef |-> FALSE,
   secretKeySecretRef |-> FALSE, storage |-> [v \in VolumeNames |-> 0],
   image |-> i1]

Lean == [Managed EXCEPT !.external = TRUE, !.adminEnabled = "false"]

Unmanaged == [Lean EXCEPT !.managed = "false", !.url = TRUE]

\* An external cache beside a managed database.
OwnDatabase == [Unmanaged EXCEPT !.external = FALSE]

\* Names that end in suffixes the operator itself appends: one is named like the
\* first one's claim, and is one character too long for its Valkey Service, one
\* like another of its claims, one like the first one's Valkey objects.
Nested == {<<"a">>, <<"a", "data">>, <<"a", "media">>, <<"a", "valkey">>}

\* The two that are clear of the collision: one fits, one is refused for ever.
Bystanders == {<<"a", "data">>, <<"a", "media">>}

NestedWidth ==
  [m \in Nested |-> CASE m = <<"a">>           -> 52
                     [] m = <<"a", "data">>   -> 57
                     [] m = <<"a", "media">>  -> 58
                     [] m = <<"a", "valkey">> -> 59]

NestedSpec ==
  [m \in Nested |-> CASE m = <<"a">>           -> Lean
                     [] m = <<"a", "data">>   -> Lean
                     [] m = <<"a", "media">>  -> OwnDatabase
                     [] m = <<"a", "valkey">> -> Unmanaged]
=============================================================================
