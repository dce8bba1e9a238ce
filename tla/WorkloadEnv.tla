----------------------------- MODULE WorkloadEnv -----------------------------
(***************************************************************************)
(* The environment of the Paperless container: workloadEnv and dedupeEnv   *)
(* of internal/resources/workload.go, DatabaseEnv of database.go.          *)
(*                                                                         *)
(* Deployment builds the list in one call.  workloadEnv assembles it, with *)
(* the user's spec.env last, and dedupeEnv walks it once; the walk is the  *)
(* state machine here, one action per iteration, so that what it keeps and *)
(* where can be proved for lists of any length.                            *)
(*                                                                         *)
(* A value is a set of tokens (ALLOWED_HOSTS is a list of hosts), a token  *)
(* the sequence of words between its dots, and an entry also says where    *)
(* its value comes from.                                                   *)
(***************************************************************************)
EXTENDS PaperlessSpec, Sequences

CONSTANTS
  Instances,   \* the instances a container is built for
  InstanceNames, Namespaces,
  UserNames,   \* names a user sets that no typed field covers
  UserValues   \* values a user writes

OperatorNames ==
  {"ALLOWED_HOSTS", "TIME_ZONE", "OCR_LANGUAGE", "URL", "CSRF_TRUSTED_ORIGINS",
   "SECRET_KEY", "REDIS", "ADMIN_USER", "ADMIN_MAIL", "ADMIN_PASSWORD",
   "DBENGINE", "DBHOST", "DBPORT", "DBNAME", "DBUSER", "DBPASS"}

EnvNames == OperatorNames \cup UserNames

\* A literal; something another step of the pass applies; a Secret or a server
\* the spec names; an entry of spec.env.
Built   == {"secret-key", "admin", "valkey", "db"}
Origins == Built \cup {"literal", "ref", "env"}

Words ==
  InstanceNames \cup Namespaces \cup UserValues \cup
  {"default", "spec", "generated", "svc", "cluster", "local", "localhost",
   "127.0.0.1", "url-host"}

Tokens == Seq(Words)

EnvVar ==
  [name : EnvNames, from : Origins, value : SUBSET Tokens]

\* An entry of spec.env.
UserVar == {e \in EnvVar : e.from = "env"}

\* The fields of an instance the environment depends on; "" is unset, and a url
\* may lack a host (or not parse), which allowedHosts then skips.
EnvInstance ==
  [name : InstanceNames, namespace : Namespaces,
   spec : PaperlessInstanceSpec, url : {"", "host", "no-host"},
   timezone : {"", "spec"}, languages : {"", "spec"},
   username : {"", "spec"}, email : {"", "spec"}, env : Seq(UserVar)]

ASSUME InstancesAssumption == Instances \subseteq EnvInstance

VARIABLES
  inst,        \* the instance the list is built for
  env,         \* the list workloadEnv assembled
  n,           \* how many of its entries dedupeEnv has walked
  index,       \* dedupeEnv's map: a name's position in out, 0 when it has none
  out          \* dedupeEnv's result

vars == <<inst, env, n, index, out>>

-----------------------------------------------------------------------------
Literal(x, v) == [name |-> x, from |-> "literal", value |-> {<<v>>}]
From(x, o) == [name |-> x, from |-> o, value |-> {<<"generated">>}]
OrDefault(field) == IF field = "" THEN "default" ELSE field

\* mutation: the Service's bare name is left out
qualifiedNames(i) ==
  {<<i.name, i.namespace, "svc">>,
   <<i.name, i.namespace, "svc", "cluster", "local">>}

serviceDNSNames(i) ==
  {<<i.name>>, <<i.name, i.namespace, "svc">>,
   <<i.name, i.namespace, "svc", "cluster", "local">>}

allowedHosts(i) ==
  serviceDNSNames(i) \cup {<<"localhost">>, <<"127.0.0.1">>}
    \cup (IF i.url = "host" THEN {<<"url-host">>} ELSE {})

secretKeyEnv(i) ==
  From("SECRET_KEY", IF i.spec.secretKeySecretRef THEN "ref" ELSE "secret-key")

cacheEnv(i) ==
  IF IsManaged(i.spec) THEN From("REDIS", "valkey")
  ELSE IF i.spec.urlSecretRef THEN From("REDIS", "ref")
  ELSE Literal("REDIS", "spec")

\* mutation: the password is read from the generated Secret in every case
adminEnvGenerated(i) ==
  IF ~IsEnabled(i.spec) THEN <<>>
  ELSE <<Literal("ADMIN_USER", OrDefault(i.username)),
         From("ADMIN_PASSWORD", "admin")>>

\* mutation: an unset email is passed on
adminEnvEmptyMail(i) ==
  IF ~IsEnabled(i.spec) THEN <<>>
  ELSE <<Literal("ADMIN_USER", OrDefault(i.username)),
         Literal("ADMIN_MAIL", i.email), From("ADMIN_PASSWORD", "ref")>>

adminEnv(i) ==
  IF ~IsEnabled(i.spec) THEN <<>>
  ELSE <<Literal("ADMIN_USER", OrDefault(i.username))>>
       \o (IF i.email # "" THEN <<Literal("ADMIN_MAIL", "spec")>> ELSE <<>>)
       \o <<From("ADMIN_PASSWORD",
                 IF i.spec.passwordSecretRef THEN "ref" ELSE "admin")>>

DatabaseEnv(i) ==
  <<Literal("DBENGINE", "default")>> \o
  (IF IsExternal(i.spec)
   THEN <<Literal("DBHOST", "spec"), Literal("DBPORT", "spec"),
          Literal("DBNAME", "spec"),
          From("DBUSER", "ref"), From("DBPASS", "ref")>>
   ELSE <<From("DBHOST", "db"), Literal("DBPORT", "default"),
          Literal("DBNAME", "default"),
          From("DBUSER", "db"), From("DBPASS", "db")>>)

OperatorEnv(i) ==
  <<[name |-> "ALLOWED_HOSTS", from |-> "literal", value |-> allowedHosts(i)],
    Literal("TIME_ZONE", OrDefault(i.timezone)),
    Literal("OCR_LANGUAGE", OrDefault(i.languages))>>
  \o (IF i.url # ""
      THEN <<Literal("URL", "spec"), Literal("CSRF_TRUSTED_ORIGINS", "spec")>>
      ELSE <<>>)
  \o <<secretKeyEnv(i), cacheEnv(i)>>
  \o adminEnv(i)
  \o DatabaseEnv(i)

\* mutation: the user's entries come first
UserFirst(i) == i.env \o OperatorEnv(i)

workloadEnv(i) == OperatorEnv(i) \o i.env

\* The Host header of both probes, which Deployment passes to paperlessProbe.
paperlessProbe(i) == <<i.name>>

-----------------------------------------------------------------------------
NoIndex == [x \in EnvNames |-> 0]

Init ==
  /\ inst \in Instances
  /\ env = workloadEnv(inst) /\ n = 0
  /\ index = NoIndex /\ out = <<>>

\* mutation: the first entry of a name is kept
KeepFirst(e) == UNCHANGED <<index, out>>

\* out[i] = e: a later entry takes the place of the earlier one.
Replace(e) == out' = [out EXCEPT ![index[e.name]] = e] /\ UNCHANGED index

\* mutation: the position is not remembered
AppendOnly(e) == out' = Append(out, e) /\ UNCHANGED index

Insert(e) ==
  /\ index' = [index EXCEPT ![e.name] = Len(out) + 1]
  /\ out' = Append(out, e)

dedupeEnv ==
  /\ n < Len(env)
  /\ n' = n + 1
  /\ LET e == env[n + 1] IN
       \/ index[e.name] # 0 /\ Replace(e)
       \/ index[e.name] = 0 /\ Insert(e)
  /\ UNCHANGED <<inst, env>>

\* The list is returned to Deployment; the next pass builds one again, for the
\* spec as it is then.
Deployment ==
  /\ n = Len(env)
  /\ inst' \in Instances
  /\ env' = workloadEnv(inst') /\ n' = 0
  /\ index' = NoIndex /\ out' = <<>>

Next == dedupeEnv \/ Deployment

Spec == Init /\ [][Next]_vars

-----------------------------------------------------------------------------
(***************************************************************************)
(* Every variable has its type.                                            *)
(***************************************************************************)
TypeOK ==
  /\ inst \in Instances /\ env \in Seq(EnvVar)
  /\ n \in 0..Len(env)
  /\ index \in [EnvNames -> Nat]
  /\ out \in Seq(EnvVar)

(***************************************************************************)
(* Server-side apply takes env as a map keyed by name and rejects a name   *)
(* that occurs twice: the list never has one, whatever the user repeats.   *)
(***************************************************************************)
NoDuplicateNames ==
  \A j, k \in 1..Len(out) : out[j].name = out[k].name => j = k

\* dedupeEnv's map says where each name stands in out, and nothing else.
IndexRight ==
  /\ \A x \in EnvNames :
       /\ index[x] <= Len(out)
       /\ index[x] # 0 => out[index[x]].name = x
  /\ \A j \in 1..Len(out) : index[out[j].name] = j

\* Entry k is the last of its name among the entries walked.
IsLast(k) == \A j \in (k + 1)..n : env[j].name # env[k].name
\* Entry k is the first of its name.
IsFirst(k) == \A j \in 1..(k - 1) : env[j].name # env[k].name

(***************************************************************************)
(* "dedupeEnv keeps the last entry for each name, at the position of its   *)
(* first appearance": every name walked has its last entry in out, out has *)
(* nothing else, and the names stand in the order they first appeared in.  *)
(***************************************************************************)
LastEntryKept ==
  /\ \A k \in 1..n :
       /\ index[env[k].name] # 0
       /\ IsLast(k) => out[index[env[k].name]] = env[k]
  /\ \A j \in 1..Len(out) : \E k \in 1..n : IsLast(k) /\ out[j] = env[k]

FirstPositionKept ==
  \A j, k \in 1..n :
    IsFirst(j) /\ IsFirst(k) /\ j < k => index[env[j].name] < index[env[k].name]

DedupeCorrect == LastEntryKept /\ FirstPositionKept

\* The names the user sets.
Overridden == {inst.env[k].name : k \in 1..Len(inst.env)}

(***************************************************************************)
(* A variable the user sets has the user's value in the finished list, and *)
(* every other one the operator's (workloadEnv: "dedupeEnv resolves any    *)
(* name a user repeats to their value rather than the operator's").        *)
(***************************************************************************)
UserValueWins ==
  n = Len(env) =>
    \A j \in 1..Len(out) :
      \/ /\ out[j].name \in Overridden
         /\ \E k \in 1..Len(inst.env) : out[j] = inst.env[k]
      \/ /\ out[j].name \notin Overridden
         /\ \E k \in 1..Len(OperatorEnv(inst)) : out[j] = OperatorEnv(inst)[k]

(***************************************************************************)
(* The container reads only from what the pass applies for this spec: a    *)
(* generated Secret the Secret builders return, the Cluster of a managed   *)
(* database, the Valkey Service of a managed cache.  This is what          *)
(* Reconciler's Template and Needs rest on, and reading anything else      *)
(* would leave the pod waiting for an object nobody creates.               *)
(***************************************************************************)
ReadsOnlyWhatIsBuilt ==
  n = Len(env) =>
    LET t == Template(inst.spec)
        reads == {out[j].from : j \in 1..Len(out)}
    IN  /\ reads \cap Secrets \subseteq t.generated
        /\ "db" \in reads => ~t.external
        /\ "valkey" \in reads => t.managed

(***************************************************************************)
(* The finished list of every instance has an ALLOWED_HOSTS, and in it the *)
(* Host header of that instance's probes, or the kubelet's requests are    *)
(* refused with a 400 and the pod never becomes ready; only a user's own   *)
(* PAPERLESS_ALLOWED_HOSTS can take it away.                               *)
(***************************************************************************)
ProbesAccepted ==
  n = Len(env) /\ "ALLOWED_HOSTS" \notin Overridden =>
    \E j \in 1..Len(out) :
      out[j].name = "ALLOWED_HOSTS" /\ paperlessProbe(inst) \in out[j].value
=============================================================================
