-------------------------- MODULE WorkloadEnvProofs --------------------------
(***************************************************************************)
(* dedupeEnv is right for every list workloadEnv assembles, however long   *)
(* spec.env is and whatever it repeats.                                    *)
(***************************************************************************)
EXTENDS WorkloadEnv, TLAPS

\* The loop's invariant: the type, the meaning of the map, and what out holds
\* of the entries walked so far.
LoopInv ==
  /\ TypeOK
  /\ env = workloadEnv(inst)
  /\ IndexRight
  /\ LastEntryKept
  /\ FirstPositionKept

-----------------------------------------------------------------------------
(***************************************************************************)
(* What workloadEnv assembles is a list of variables, of whatever branches *)
(* the spec takes.                                                         *)
(***************************************************************************)
LEMMA EntryType ==
  /\ \A x \in EnvNames, v \in Words : Literal(x, v) \in EnvVar
  /\ \A x \in EnvNames, o \in Origins : From(x, o) \in EnvVar
  /\ \A i \in EnvInstance :
       /\ OrDefault(i.timezone) \in Words
       /\ OrDefault(i.languages) \in Words
       /\ OrDefault(i.username) \in Words
<1>0. "generated" \in Words /\ \A v \in Words : <<v>> \in Tokens
  BY DEF Tokens, Words
<1>1. \A x \in EnvNames, v \in Words : Literal(x, v) \in EnvVar
  BY <1>0 DEF Literal, EnvVar, Origins
<1>2. \A x \in EnvNames, o \in Origins : From(x, o) \in EnvVar
  BY <1>0 DEF From, EnvVar
<1>3. "default" \in Words /\ "spec" \in Words
  BY DEF Words
<1> QED BY <1>1, <1>2, <1>3 DEF OrDefault, EnvInstance

LEMMA NamesOfOperator ==
  /\ "default" \in Words /\ "spec" \in Words
  /\ {"literal", "ref", "secret-key", "admin", "valkey", "db"} \subseteq Origins
  /\ OperatorNames \subseteq EnvNames
BY DEF Words, Origins, Built, EnvNames

LEMMA NamesOfEntries ==
  /\ \A v \in EnvVar : v.name \in EnvNames
  /\ \A list \in Seq(EnvVar) : \A k \in 1..Len(list) :
       list[k] \in EnvVar /\ list[k].name \in EnvNames
<1>1. \A v \in EnvVar : v.name \in EnvNames
  BY DEF EnvVar
<1>2. \A list \in Seq(EnvVar) : \A k \in 1..Len(list) : list[k] \in EnvVar
  OBVIOUS
<1> QED BY <1>1, <1>2

(***************************************************************************)
(* The operator's part of the list consists of entries of any set that has *)
(* the entries of its branches, and the hosts come first.                  *)
(***************************************************************************)
HostsEntry(i) ==
  [name |-> "ALLOWED_HOSTS", from |-> "literal", value |-> allowedHosts(i)]

StartsWith(s, x) == Len(s) >= 1 /\ s[1] = x

LEMMA PrefixStays ==
  ASSUME NEW G, NEW s \in Seq(G), NEW t \in Seq(G), NEW x, StartsWith(s, x)
  PROVE  s \o t \in Seq(G) /\ StartsWith(s \o t, x)
BY DEF StartsWith

LEMMA OperatorEnvIn ==
  ASSUME NEW i \in Instances, NEW G,
         HostsEntry(i) \in G,
         \A x \in OperatorNames \ {"ALLOWED_HOSTS"}, v \in Words : Literal(x, v) \in G,
         \A x \in OperatorNames \ {"ALLOWED_HOSTS"} : From(x, "ref") \in G,
         secretKeyEnv(i) \in G, cacheEnv(i) \in G,
         IsEnabled(i.spec) /\ ~i.spec.passwordSecretRef => From("ADMIN_PASSWORD", "admin") \in G,
         ~IsExternal(i.spec) =>
           \A x \in OperatorNames \ {"ALLOWED_HOSTS"} : From(x, "db") \in G
  PROVE  OperatorEnv(i) \in Seq(G) /\ StartsWith(OperatorEnv(i), HostsEntry(i))
<1>0. i \in EnvInstance
  BY InstancesAssumption
<1> DEFINE tz    == Literal("TIME_ZONE", OrDefault(i.timezone))
           ocr   == Literal("OCR_LANGUAGE", OrDefault(i.languages))
           urls  == IF i.url # ""
                    THEN <<Literal("URL", "spec"), Literal("CSRF_TRUSTED_ORIGINS", "spec")>>
                    ELSE <<>>
<1>1. "default" \in Words /\ "spec" \in Words
  BY NamesOfOperator
<1>2. tz \in G /\ ocr \in G
  BY <1>0, EntryType DEF OperatorNames
<1>3. urls \in Seq(G)
  <2>1. Literal("URL", "spec") \in G /\ Literal("CSRF_TRUSTED_ORIGINS", "spec") \in G
    BY <1>1 DEF OperatorNames
  <2>2. \A x, y \in G : <<x, y>> \in Seq(G)
    OBVIOUS
  <2>3. CASE i.url = ""
    <3>1. urls = <<>>
      BY <2>3
    <3>2. <<>> \in Seq(G)
      OBVIOUS
    <3> HIDE DEF urls
    <3> QED BY <3>1, <3>2
  <2>4. CASE i.url # ""
    BY <2>1, <2>2, <2>4
  <2> QED BY <2>3, <2>4
<1>4. adminEnv(i) \in Seq(G)
  <2>1. /\ Literal("ADMIN_USER", OrDefault(i.username)) \in G
        /\ Literal("ADMIN_MAIL", "spec") \in G
        /\ IsEnabled(i.spec) =>
             From("ADMIN_PASSWORD", IF i.spec.passwordSecretRef THEN "ref" ELSE "admin") \in G
    BY <1>0, <1>1, EntryType DEF OperatorNames
  <2>2. \A x, y, z \in G :
          <<x>> \o <<y>> \o <<z>> \in Seq(G) /\ <<x>> \o <<>> \o <<z>> \in Seq(G)
    OBVIOUS
  <2>3. CASE ~IsEnabled(i.spec)
    BY <2>3 DEF adminEnv
  <2>4. CASE IsEnabled(i.spec) /\ i.email # ""
    BY <2>1, <2>2, <2>4 DEF adminEnv
  <2>5. CASE IsEnabled(i.spec) /\ i.email = ""
    BY <2>1, <2>2, <2>5 DEF adminEnv
  <2> QED BY <2>3, <2>4, <2>5
<1>5. DatabaseEnv(i) \in Seq(G)
  <2>1. \A x \in {"DBENGINE", "DBHOST", "DBPORT", "DBNAME"} :
          Literal(x, "spec") \in G /\ Literal(x, "default") \in G
    BY <1>1 DEF OperatorNames
  <2>2. \A x \in {"DBHOST", "DBUSER", "DBPASS"} :
          From(x, "ref") \in G /\ (~IsExternal(i.spec) => From(x, "db") \in G)
    BY DEF OperatorNames
  <2>3. \A a, b, c, d, e, f \in G : <<a>> \o <<b, c, d, e, f>> \in Seq(G)
    OBVIOUS
  <2>4. CASE IsExternal(i.spec)
    BY <2>1, <2>2, <2>3, <2>4 DEF DatabaseEnv
  <2>5. CASE ~IsExternal(i.spec)
    BY <2>1, <2>2, <2>3, <2>5 DEF DatabaseEnv
  <2> QED BY <2>4, <2>5
<1> HIDE DEF tz, ocr, urls
<1>6. <<HostsEntry(i), tz, ocr>> \in Seq(G) /\ <<secretKeyEnv(i), cacheEnv(i)>> \in Seq(G)
  BY <1>2
<1>7. LET w == <<HostsEntry(i), tz, ocr>> \o urls \o <<secretKeyEnv(i), cacheEnv(i)>>
                 \o adminEnv(i) \o DatabaseEnv(i)
      IN  w \in Seq(G) /\ StartsWith(w, HostsEntry(i))
  <2>1. StartsWith(<<HostsEntry(i), tz, ocr>>, HostsEntry(i))
    BY DEF StartsWith
  <2> QED BY <2>1, <1>6, <1>3, <1>4, <1>5, PrefixStays
<1> QED BY <1>7 DEF OperatorEnv, HostsEntry, tz, ocr, urls

LEMMA HostsType ==
  ASSUME NEW i \in Instances
  PROVE  HostsEntry(i) \in EnvVar
<1>1. i.name \in InstanceNames /\ i.namespace \in Namespaces
  BY InstancesAssumption DEF EnvInstance
<1>2. /\ i.name \in Words /\ i.namespace \in Words
      /\ {"svc", "cluster", "local", "localhost", "127.0.0.1", "url-host"} \subseteq Words
  BY <1>1 DEF Words
<1>3. /\ <<i.name>> \in Tokens /\ <<i.name, i.namespace, "svc">> \in Tokens
      /\ <<i.name, i.namespace, "svc", "cluster", "local">> \in Tokens
      /\ <<"localhost">> \in Tokens /\ <<"127.0.0.1">> \in Tokens
      /\ <<"url-host">> \in Tokens
  BY <1>2 DEF Tokens
<1>4. allowedHosts(i) \subseteq Tokens
  BY <1>3 DEF allowedHosts, serviceDNSNames
<1> QED BY <1>4 DEF HostsEntry, EnvVar, Origins, OperatorNames, EnvNames

LEMMA OperatorEnvType ==
  ASSUME NEW i \in Instances
  PROVE  OperatorEnv(i) \in Seq(EnvVar)
<1>1. HostsEntry(i) \in EnvVar
  BY HostsType
<1>2. secretKeyEnv(i) \in EnvVar /\ cacheEnv(i) \in EnvVar
  BY EntryType, NamesOfOperator DEF secretKeyEnv, cacheEnv, OperatorNames
<1>3. /\ \A x \in OperatorNames \ {"ALLOWED_HOSTS"}, v \in Words : Literal(x, v) \in EnvVar
      /\ \A x \in OperatorNames : From(x, "ref") \in EnvVar /\ From(x, "db") \in EnvVar
      /\ From("ADMIN_PASSWORD", "admin") \in EnvVar
  BY EntryType, NamesOfOperator DEF OperatorNames
<1> QED BY <1>1, <1>2, <1>3, OperatorEnvIn

LEMMA WorkloadEnvType ==
  ASSUME NEW i \in Instances
  PROVE  /\ i.env \in Seq(UserVar)
         /\ i.env \in Seq(EnvVar)
         /\ workloadEnv(i) \in Seq(EnvVar)
<1>1. i.env \in Seq(UserVar)
  BY InstancesAssumption DEF EnvInstance
<1>2. UserVar \subseteq EnvVar
  BY DEF UserVar
<1>3. i.env \in Seq(EnvVar)
  BY <1>1, <1>2
<1> QED BY <1>1, <1>3, OperatorEnvType DEF workloadEnv

-----------------------------------------------------------------------------
(***************************************************************************)
(* A walk that has not begun satisfies the invariant.                      *)
(***************************************************************************)
LEMMA FreshLoop ==
  ASSUME inst \in Instances, env = workloadEnv(inst), n = 0, index = NoIndex,
         out = <<>>
  PROVE  LoopInv
<1>1. env \in Seq(EnvVar)
  BY WorkloadEnvType
<1>2. TypeOK
  BY <1>1 DEF TypeOK, NoIndex
<1> QED BY <1>2 DEF LoopInv, IndexRight, LastEntryKept, FirstPositionKept, NoIndex

(***************************************************************************)
(* One iteration that meets a name again: the entry is replaced in place.  *)
(***************************************************************************)
LEMMA ReplaceKeepsInv ==
  ASSUME LoopInv, n < Len(env), n' = n + 1, inst' = inst, env' = env,
         index[env[n + 1].name] # 0, Replace(env[n + 1])
  PROVE  LoopInv'
<1> DEFINE e == env[n + 1]
           p == index[e.name]
<1>1. /\ env \in Seq(EnvVar) /\ n \in Nat /\ n + 1 \in 1..Len(env)
      /\ out \in Seq(EnvVar) /\ index \in [EnvNames -> Nat]
      /\ inst \in Instances
  BY DEF LoopInv, TypeOK
<1>2. e \in EnvVar /\ e.name \in EnvNames
  BY <1>1, NamesOfEntries
<1>3. p \in 1..Len(out) /\ out[p].name = e.name
  BY <1>1, <1>2 DEF LoopInv, IndexRight
<1>4. /\ out' = [out EXCEPT ![p] = e] /\ index' = index
      /\ out' \in Seq(EnvVar) /\ Len(out') = Len(out)
      /\ out'[p] = e
      /\ \A j \in 1..Len(out) : j # p => out'[j] = out[j]
      /\ \A j \in 1..Len(out) : out'[j].name = out[j].name
  BY <1>1, <1>2, <1>3 DEF Replace
<1> HIDE DEF e, p
<1>5. TypeOK'
  BY <1>1, <1>4 DEF TypeOK
<1>6. IndexRight'
  BY <1>1, <1>4 DEF LoopInv, IndexRight
<1>7. LastEntryKept'
  <2>0. \A k \in 1..(n + 1) : index[env[k].name] # 0
    BY <1>1, <1>3 DEF LoopInv, LastEntryKept, e, p
  <2>1. ASSUME NEW k \in 1..(n + 1), \A j \in (k + 1)..(n + 1) : env[j].name # env[k].name
        PROVE  out'[index[env[k].name]] = env[k]
    <3>1. CASE k = n + 1
      BY <3>1, <1>3, <1>4 DEF e, p
    <3>2. CASE k # n + 1
      <4>1. k \in 1..n /\ n + 1 \in (k + 1)..(n + 1)
        BY <3>2, <1>1
      <4>2. env[k].name # e.name
        BY <4>1, <2>1 DEF e
      <4>3. env[k] \in EnvVar /\ env[k].name \in EnvNames
        BY <4>1, <1>1, NamesOfEntries
      <4>4. index[env[k].name] # 0 /\ out[index[env[k].name]] = env[k]
        <5>1. IsLast(k)
          BY <4>1, <2>1, <1>1 DEF IsLast
        <5> QED BY <4>1, <5>1 DEF LoopInv, LastEntryKept
      <4>5. index[env[k].name] \in 1..Len(out) /\ index[env[k].name] # p
        BY <4>2, <4>3, <4>4, <1>1, <1>3 DEF LoopInv, IndexRight
      <4> QED BY <4>4, <4>5, <1>4
    <3> QED BY <3>1, <3>2
  <2>2. ASSUME NEW j \in 1..Len(out)
        PROVE  \E k \in 1..(n + 1) :
                 /\ \A m \in (k + 1)..(n + 1) : env[m].name # env[k].name
                 /\ out'[j] = env[k]
    <3>1. CASE j = p
      BY <3>1, <1>1, <1>4 DEF e
    <3>2. CASE j # p
      <4>1. PICK k \in 1..n : IsLast(k) /\ out[j] = env[k]
        BY DEF LoopInv, LastEntryKept
      <4>2. out[j].name # e.name
        BY <3>2, <1>1, <1>3 DEF LoopInv, IndexRight, p
      <4>3. \A m \in (k + 1)..(n + 1) : env[m].name # env[k].name
        BY <4>1, <4>2, <1>1 DEF IsLast, e
      <4> QED BY <4>1, <4>3, <3>2, <1>1, <1>4
    <3> QED BY <3>1, <3>2
  <2>3. \A k \in 1..n' : (IsLast(k))' => out'[index'[env'[k].name]] = env'[k]
    BY <2>1, <1>4 DEF IsLast
  <2>4. \A j \in 1..Len(out') : \E k \in 1..n' : (IsLast(k))' /\ out'[j] = env'[k]
    BY <2>2, <1>4 DEF IsLast
  <2> QED BY <2>0, <2>3, <2>4, <1>4 DEF LastEntryKept
<1>8. FirstPositionKept'
  <2>1. \E k \in 1..n : env[k].name = e.name
    BY <1>1, <1>3 DEF LoopInv, LastEntryKept
  <2>2. ~IsFirst(n + 1)
    BY <2>1, <1>1 DEF IsFirst, e
  <2>3. \A k \in 1..(n + 1) : (IsFirst(k))' <=> IsFirst(k)
    BY DEF IsFirst
  <2>4. \A k \in 1..(n + 1) : IsFirst(k) => k \in 1..n
    BY <2>2, <1>1
  <2> QED BY <2>3, <2>4, <1>1, <1>4 DEF LoopInv, FirstPositionKept
<1> QED BY <1>5, <1>6, <1>7, <1>8 DEF LoopInv

(***************************************************************************)
(* One that meets a new name: the entry is appended and its position kept. *)
(***************************************************************************)
LEMMA InsertKeepsInv ==
  ASSUME LoopInv, n < Len(env), n' = n + 1, inst' = inst, env' = env,
         index[env[n + 1].name] = 0, Insert(env[n + 1])
  PROVE  LoopInv'
<1> DEFINE e == env[n + 1]
<1>1. /\ env \in Seq(EnvVar) /\ n \in Nat /\ n + 1 \in 1..Len(env)
      /\ out \in Seq(EnvVar) /\ index \in [EnvNames -> Nat]
      /\ inst \in Instances /\ Len(out) \in Nat
  BY DEF LoopInv, TypeOK
<1>2. e \in EnvVar /\ e.name \in EnvNames
  BY <1>1, NamesOfEntries
<1>3. /\ index' = [index EXCEPT ![e.name] = Len(out) + 1]
      /\ out' = Append(out, e)
      /\ out' \in Seq(EnvVar) /\ Len(out') = Len(out) + 1
      /\ out'[Len(out) + 1] = e
      /\ \A j \in 1..Len(out) : out'[j] = out[j]
  BY <1>1, <1>2 DEF Insert
<1>4. /\ index' \in [EnvNames -> Nat] /\ index'[e.name] = Len(out) + 1
      /\ \A x \in EnvNames : x # e.name => index'[x] = index[x]
  BY <1>1, <1>2, <1>3
<1>5. \A k \in 1..n : env[k] \in EnvVar /\ env[k].name \in EnvNames
  BY <1>1, NamesOfEntries
<1>6. \A j \in 1..Len(out) : out[j].name \in EnvNames /\ out[j].name # e.name
  BY <1>1, NamesOfEntries DEF LoopInv, IndexRight
<1>7. \A k \in 1..n : env[k].name # e.name
  BY <1>1 DEF LoopInv, LastEntryKept
<1> HIDE DEF e
<1>8. TypeOK'
  BY <1>1, <1>3, <1>4 DEF TypeOK
<1>9. IndexRight'
  <2>1. ASSUME NEW x \in EnvNames
        PROVE  index'[x] <= Len(out') /\ (index'[x] # 0 => out'[index'[x]].name = x)
    <3>1. CASE x = e.name
      BY <3>1, <1>1, <1>3, <1>4
    <3>2. CASE x # e.name
      <4>1. index'[x] = index[x] /\ index[x] \in Nat /\ index[x] <= Len(out)
            /\ (index[x] # 0 => out[index[x]].name = x)
        BY <3>2, <1>1, <1>4 DEF LoopInv, IndexRight
      <4>2. index[x] # 0 => out'[index[x]] = out[index[x]]
        BY <4>1, <1>1, <1>3
      <4> QED BY <4>1, <4>2, <1>1, <1>3
    <3> QED BY <3>1, <3>2
  <2>2. ASSUME NEW j \in 1..Len(out')
        PROVE  index'[out'[j].name] = j
    <3>1. CASE j = Len(out) + 1
      BY <3>1, <1>3, <1>4
    <3>2. CASE j # Len(out) + 1
      <4>1. j \in 1..Len(out)
        BY <3>2, <1>1, <1>3
      <4>2. out'[j] = out[j] /\ index[out[j].name] = j
        BY <4>1, <1>3 DEF LoopInv, IndexRight
      <4> QED BY <4>1, <4>2, <1>4, <1>6
    <3> QED BY <3>1, <3>2
  <2> QED BY <2>1, <2>2 DEF IndexRight
<1>10. LastEntryKept'
  <2>0. \A k \in 1..(n + 1) : index'[env[k].name] # 0
    <3> TAKE k \in 1..(n + 1)
    <3>1. CASE k = n + 1
      BY <3>1, <1>1, <1>4 DEF e
    <3>2. CASE k # n + 1
      <4>1. k \in 1..n
        BY <3>2, <1>1
      <4> QED BY <4>1, <1>4, <1>5, <1>7 DEF LoopInv, LastEntryKept
    <3> QED BY <3>1, <3>2
  <2>1. ASSUME NEW k \in 1..(n + 1), \A j \in (k + 1)..(n + 1) : env[j].name # env[k].name
        PROVE  out'[index'[env[k].name]] = env[k]
    <3>1. CASE k = n + 1
      BY <3>1, <1>1, <1>3, <1>4 DEF e
    <3>2. CASE k # n + 1
      <4>1. k \in 1..n
        BY <3>2, <1>1
      <4>2. index[env[k].name] # 0 /\ out[index[env[k].name]] = env[k]
        <5>1. IsLast(k)
          BY <4>1, <2>1, <1>1 DEF IsLast
        <5> QED BY <4>1, <5>1 DEF LoopInv, LastEntryKept
      <4>3. index[env[k].name] \in 1..Len(out)
        BY <4>1, <4>2, <1>1, <1>5 DEF LoopInv, IndexRight
      <4> QED BY <4>1, <4>2, <4>3, <1>3, <1>4, <1>5, <1>7
    <3> QED BY <3>1, <3>2
  <2>2. ASSUME NEW j \in 1..(Len(out) + 1)
        PROVE  \E k \in 1..(n + 1) :
                 /\ \A m \in (k + 1)..(n + 1) : env[m].name # env[k].name
                 /\ out'[j] = env[k]
    <3>1. CASE j = Len(out) + 1
      BY <3>1, <1>1, <1>3 DEF e
    <3>2. CASE j # Len(out) + 1
      <4>1. j \in 1..Len(out)
        BY <3>2, <1>1
      <4>2. PICK k \in 1..n : IsLast(k) /\ out[j] = env[k]
        BY <4>1 DEF LoopInv, LastEntryKept
      <4>3. \A m \in (k + 1)..(n + 1) : env[m].name # env[k].name
        BY <4>2, <1>1, <1>7 DEF IsLast, e
      <4> QED BY <4>1, <4>2, <4>3, <1>1, <1>3
    <3> QED BY <3>1, <3>2
  <2>3. \A k \in 1..n' : (IsLast(k))' => out'[index'[env'[k].name]] = env'[k]
    BY <2>1, <1>3 DEF IsLast
  <2>4. \A j \in 1..Len(out') : \E k \in 1..n' : (IsLast(k))' /\ out'[j] = env'[k]
    BY <2>2, <1>3 DEF IsLast
  <2> QED BY <2>0, <2>3, <2>4, <1>3 DEF LastEntryKept
<1>11. FirstPositionKept'
  <2>1. \A k \in 1..n : IsFirst(k) => index[env[k].name] <= Len(out)
    BY <1>1, <1>5 DEF LoopInv, IndexRight
  <2>2. ASSUME NEW j \in 1..(n + 1), NEW k \in 1..(n + 1), IsFirst(j), IsFirst(k), j < k
        PROVE  index'[env[j].name] < index'[env[k].name]
    <3>1. j \in 1..n
      BY <2>2, <1>1
    <3>2. index'[env[j].name] = index[env[j].name]
      BY <3>1, <1>4, <1>5, <1>7
    <3>3. CASE k = n + 1
      BY <3>1, <3>2, <3>3, <2>1, <2>2, <1>1, <1>4, <1>5 DEF e
    <3>4. CASE k # n + 1
      <4>1. k \in 1..n
        BY <3>4, <1>1
      <4>2. index'[env[k].name] = index[env[k].name]
        BY <4>1, <1>4, <1>5, <1>7
      <4> QED BY <3>1, <3>2, <4>1, <4>2, <2>2 DEF LoopInv, FirstPositionKept
    <3> QED BY <3>3, <3>4
  <2> QED BY <2>2, <1>1 DEF FirstPositionKept, IsFirst
<1> QED BY <1>8, <1>9, <1>10, <1>11 DEF LoopInv

-----------------------------------------------------------------------------
(***************************************************************************)
(* The invariant holds throughout: at the start of a walk, after every     *)
(* iteration, and when the next list is assembled.                         *)
(***************************************************************************)
LEMMA LoopInvariant == Spec => []LoopInv
<1>1. Init => LoopInv
  BY FreshLoop DEF Init
<1>2. LoopInv /\ [Next]_vars => LoopInv'
  <2> SUFFICES ASSUME LoopInv, [Next]_vars PROVE LoopInv'
    OBVIOUS
  <2>1. CASE dedupeEnv
    BY <2>1, ReplaceKeepsInv, InsertKeepsInv DEF dedupeEnv
  <2>2. CASE Deployment
    <3>1. /\ inst' \in Instances /\ env' = workloadEnv(inst') /\ n' = 0
          /\ index' = NoIndex /\ out' = <<>>
      BY <2>2 DEF Deployment
    <3>2. env' \in Seq(EnvVar)
      BY <3>1, WorkloadEnvType
    <3>3. TypeOK'
      BY <3>1, <3>2 DEF TypeOK, NoIndex
    <3> QED BY <3>1, <3>3 DEF LoopInv, IndexRight, LastEntryKept, FirstPositionKept, NoIndex
  <2>3. CASE UNCHANGED vars
    <3>1. /\ inst' = inst /\ env' = env /\ n' = n /\ index' = index /\ out' = out
      BY <2>3 DEF vars
    <3>2. TypeOK' /\ IndexRight'
      BY <3>1 DEF LoopInv, TypeOK, IndexRight
    <3>3. LastEntryKept'
      BY <3>1 DEF LoopInv, LastEntryKept, IsLast
    <3>4. FirstPositionKept'
      BY <3>1 DEF LoopInv, FirstPositionKept, IsFirst
    <3> QED BY <3>1, <3>2, <3>3, <3>4 DEF LoopInv
  <2> QED BY <2>1, <2>2, <2>3 DEF Next
<1> QED BY <1>1, <1>2, PTL DEF Spec

(***************************************************************************)
(* Every entry of a list is the operator's or the user's; the user's come  *)
(* after all of the operator's.                                            *)
(***************************************************************************)
LEMMA TwoParts ==
  ASSUME NEW i \in Instances
  PROVE  LET a == OperatorEnv(i)
             w == workloadEnv(i)
         IN  /\ Len(a) \in Nat /\ Len(i.env) \in Nat
             /\ Len(w) = Len(a) + Len(i.env)
             /\ \A k \in 1..Len(a) : w[k] = a[k]
             /\ \A k \in 1..Len(i.env) : w[Len(a) + k] = i.env[k]
<1>1. OperatorEnv(i) \in Seq(EnvVar) /\ i.env \in Seq(EnvVar)
  BY OperatorEnvType, WorkloadEnvType
<1> QED BY <1>1 DEF workloadEnv

(***************************************************************************)
(* The environment of every instance, with every spec.env, keeps its type. *)
(***************************************************************************)
THEOREM EnvTypeCorrect == Spec => []TypeOK
BY LoopInvariant, PTL DEF LoopInv

(***************************************************************************)
(* Server-side apply never meets a duplicate name, for a spec.env of any   *)
(* length: the map dedupeEnv keeps is exact.                               *)
(***************************************************************************)
THEOREM NamesUnique == Spec => []NoDuplicateNames
<1>1. LoopInv => NoDuplicateNames
  BY DEF LoopInv, TypeOK, IndexRight, NoDuplicateNames
<1> QED BY <1>1, LoopInvariant, PTL

(***************************************************************************)
(* dedupeEnv's comment, for lists of any length: the last entry of each    *)
(* name, at the position of its first appearance.                          *)
(***************************************************************************)
THEOREM LastAtFirstPosition == Spec => []DedupeCorrect
<1>1. LoopInv => DedupeCorrect
  BY DEF LoopInv, DedupeCorrect
<1> QED BY <1>1, LoopInvariant, PTL

(***************************************************************************)
(* The loop's invariant gives the user's value to every name the user sets *)
(* and the operator's to every other.                                      *)
(***************************************************************************)
LEMMA WinsAtEnd == LoopInv => UserValueWins
<1> SUFFICES ASSUME LoopInv, n = Len(env), NEW j \in 1..Len(out)
             PROVE  \/ /\ out[j].name \in Overridden
                       /\ \E k \in 1..Len(inst.env) : out[j] = inst.env[k]
                    \/ /\ out[j].name \notin Overridden
                       /\ \E k \in 1..Len(OperatorEnv(inst)) : out[j] = OperatorEnv(inst)[k]
  BY DEF UserValueWins
<1> DEFINE a == OperatorEnv(inst)
           u == inst.env
<1>1. inst \in Instances /\ env = workloadEnv(inst) /\ n \in Nat
  BY DEF LoopInv, TypeOK
<1>2. /\ Len(a) \in Nat /\ Len(u) \in Nat /\ n = Len(a) + Len(u)
      /\ \A k \in 1..Len(a) : env[k] = a[k]
      /\ \A k \in 1..Len(u) : env[Len(a) + k] = u[k]
  BY <1>1, TwoParts
<1>3. PICK k \in 1..n : IsLast(k) /\ out[j] = env[k]
  BY DEF LoopInv, LastEntryKept
<1> HIDE DEF a, u
<1>4. CASE k <= Len(a)
  <2>1. out[j] = a[k] /\ k \in 1..Len(a)
    BY <1>2, <1>3, <1>4
  <2>2. \A m \in 1..Len(u) : u[m].name # out[j].name
    <3> TAKE m \in 1..Len(u)
    <3>1. Len(a) + m \in (k + 1)..n
      BY <1>1, <1>2, <1>3, <1>4
    <3> QED BY <3>1, <1>2, <1>3 DEF IsLast
  <2> QED BY <2>1, <2>2 DEF Overridden, a, u
<1>5. CASE k > Len(a)
  <2>1. PICK m \in 1..Len(u) : k = Len(a) + m
    <3>1. k - Len(a) \in 1..Len(u) /\ k = Len(a) + (k - Len(a))
      BY <1>1, <1>2, <1>3, <1>5
    <3> QED BY <3>1
  <2>2. out[j] = u[m]
    BY <2>1, <1>2, <1>3
  <2> QED BY <2>2 DEF Overridden, u
<1> QED BY <1>1, <1>2, <1>3, <1>4, <1>5

(***************************************************************************)
(* The user's value wins over the operator's, in every finished list.      *)
(***************************************************************************)
THEOREM UserOverridesOperator == Spec => []UserValueWins
BY WinsAtEnd, LoopInvariant, PTL

(***************************************************************************)
(* What an entry of a finished list may read.                              *)
(***************************************************************************)
Sound(i) ==
  {e \in EnvVar :
     /\ e.from \in Secrets => Generates(i.spec, e.from)
     /\ e.from = "db" => ~IsExternal(i.spec)
     /\ e.from = "valkey" => IsManaged(i.spec)}

LEMMA AllSound ==
  ASSUME NEW i \in Instances
  PROVE  workloadEnv(i) \in Seq(Sound(i))
<1>0. /\ OperatorNames \subseteq EnvNames
      /\ i \in EnvInstance /\ i.spec \in PaperlessInstanceSpec
  BY NamesOfOperator, InstancesAssumption DEF EnvInstance
<1>1. HostsEntry(i) \in Sound(i)
  BY HostsType DEF Sound, HostsEntry, Secrets
<1>2. \A x \in OperatorNames \ {"ALLOWED_HOSTS"}, v \in Words : Literal(x, v) \in Sound(i)
  <2> TAKE x \in OperatorNames \ {"ALLOWED_HOSTS"}, v \in Words
  <2>1. Literal(x, v) \in EnvVar
    BY <1>0, EntryType
  <2> QED BY <2>1 DEF Sound, Literal, Secrets
<1>3. \A x \in OperatorNames \ {"ALLOWED_HOSTS"}, o \in Origins :
        /\ o \in Secrets => Generates(i.spec, o)
        /\ o = "db" => ~IsExternal(i.spec)
        /\ o = "valkey" => IsManaged(i.spec)
        => From(x, o) \in Sound(i)
  <2> TAKE x \in OperatorNames \ {"ALLOWED_HOSTS"}, o \in Origins
  <2>1. From(x, o) \in EnvVar
    BY <1>0, EntryType
  <2> QED BY <2>1 DEF Sound, From
<1>4. /\ \A x \in OperatorNames \ {"ALLOWED_HOSTS"} : From(x, "ref") \in Sound(i)
      /\ ~IsExternal(i.spec) =>
           \A x \in OperatorNames \ {"ALLOWED_HOSTS"} : From(x, "db") \in Sound(i)
      /\ IsEnabled(i.spec) /\ ~i.spec.passwordSecretRef =>
           From("ADMIN_PASSWORD", "admin") \in Sound(i)
  <2>1. "ref" \notin Secrets /\ "db" \notin Secrets
    BY DEF Secrets
  <2>2. IsEnabled(i.spec) /\ ~i.spec.passwordSecretRef => Generates(i.spec, "admin")
    BY DEF Generates
  <2> QED BY <1>3, <2>1, <2>2, NamesOfOperator DEF OperatorNames
<1>5. secretKeyEnv(i) \in Sound(i)
  <2>1. ~i.spec.secretKeySecretRef => Generates(i.spec, "secret-key")
    BY DEF Generates
  <2> QED BY <1>3, <1>4, <2>1, NamesOfOperator DEF secretKeyEnv, OperatorNames
<1>6. cacheEnv(i) \in Sound(i)
  <2>1. "valkey" \notin Secrets
    BY DEF Secrets
  <2> QED BY <1>2, <1>3, <1>4, <2>1, NamesOfOperator DEF cacheEnv, OperatorNames
<1>7. OperatorEnv(i) \in Seq(Sound(i))
  BY <1>1, <1>2, <1>4, <1>5, <1>6, OperatorEnvIn
<1>8. UserVar \subseteq Sound(i)
  BY DEF UserVar, Sound, Secrets
<1>9. i.env \in Seq(Sound(i))
  BY <1>8, WorkloadEnvType
<1> QED BY <1>7, <1>9 DEF workloadEnv

LEMMA ResultSound ==
  LoopInv => \A j \in 1..Len(out) : out[j] \in Sound(inst)
<1> SUFFICES ASSUME LoopInv, NEW j \in 1..Len(out) PROVE out[j] \in Sound(inst)
  OBVIOUS
<1>1. env \in Seq(Sound(inst)) /\ n \in 0..Len(env)
  BY AllSound DEF LoopInv, TypeOK
<1>2. PICK k \in 1..n : out[j] = env[k]
  BY DEF LoopInv, LastEntryKept
<1>3. env[k] \in Sound(inst)
  BY <1>1, <1>2
<1> QED BY <1>2, <1>3

(***************************************************************************)
(* For every spec and every spec.env, the container reads only what the    *)
(* pass applies: this is what lets Reconciler's Needs stand for the list.  *)
(***************************************************************************)
THEOREM ReadsAreProvided == Spec => []ReadsOnlyWhatIsBuilt
<1>1. LoopInv => ReadsOnlyWhatIsBuilt
  <2> SUFFICES ASSUME LoopInv, NEW j \in 1..Len(out)
               PROVE  /\ out[j].from \in Secrets => out[j].from \in Template(inst.spec).generated
                      /\ out[j].from = "db" => ~Template(inst.spec).external
                      /\ out[j].from = "valkey" => Template(inst.spec).managed
    BY DEF ReadsOnlyWhatIsBuilt
  <2>1. out[j] \in Sound(inst)
    BY ResultSound
  <2> QED BY <2>1 DEF Sound, Template
<1> QED BY <1>1, LoopInvariant, PTL

(***************************************************************************)
(* Of the operator's entries, only one is called ALLOWED_HOSTS, whatever   *)
(* branches the spec takes, and it has the instance's own name.            *)
(***************************************************************************)
Hosted(i) ==
  {e \in EnvVar : e.name = "ALLOWED_HOSTS" => paperlessProbe(i) \in e.value}

LEMMA OperatorHosted ==
  ASSUME NEW i \in Instances
  PROVE  OperatorEnv(i) \in Seq(Hosted(i)) /\ StartsWith(OperatorEnv(i), HostsEntry(i))
<1>1. HostsEntry(i) \in Hosted(i)
  BY HostsType DEF Hosted, HostsEntry, allowedHosts, serviceDNSNames, paperlessProbe
<1>2. OperatorNames \subseteq EnvNames /\ \A x, o : From(x, o).name = x /\ Literal(x, o).name = x
  BY NamesOfOperator DEF From, Literal
<1>3. /\ \A x \in OperatorNames \ {"ALLOWED_HOSTS"}, v \in Words : Literal(x, v) \in Hosted(i)
      /\ \A x \in OperatorNames \ {"ALLOWED_HOSTS"}, o \in Origins : From(x, o) \in Hosted(i)
  BY <1>2, EntryType DEF Hosted
<1>4. /\ {"SECRET_KEY", "REDIS", "ADMIN_PASSWORD"} \subseteq OperatorNames \ {"ALLOWED_HOSTS"}
      /\ {"ref", "db", "valkey"} \cup Secrets \subseteq Origins
      /\ {"secret-key", "admin"} \subseteq Origins /\ "spec" \in Words
  BY NamesOfOperator DEF OperatorNames, Secrets
<1>5. secretKeyEnv(i) \in Hosted(i) /\ cacheEnv(i) \in Hosted(i)
  BY <1>3, <1>4 DEF secretKeyEnv, cacheEnv
<1> QED BY <1>1, <1>3, <1>4, <1>5, OperatorEnvIn

(***************************************************************************)
(* Whatever the spec and however long spec.env, as long as it does not set *)
(* PAPERLESS_ALLOWED_HOSTS itself, the finished list has one that accepts  *)
(* the Host of this instance's probes: its entry is walked, and what       *)
(* dedupeEnv left under its name is the operator's.                        *)
(***************************************************************************)
THEOREM ProbesAnswered == Spec => []ProbesAccepted
<1>1. LoopInv => ProbesAccepted
  <2> SUFFICES ASSUME LoopInv, n = Len(env), "ALLOWED_HOSTS" \notin Overridden
               PROVE  \E j \in 1..Len(out) :
                        out[j].name = "ALLOWED_HOSTS" /\ paperlessProbe(inst) \in out[j].value
    BY DEF ProbesAccepted
  <2> DEFINE a == OperatorEnv(inst)
             j == index["ALLOWED_HOSTS"]
  <2>1. /\ inst \in Instances /\ env = workloadEnv(inst)
        /\ index \in [EnvNames -> Nat] /\ out \in Seq(EnvVar) /\ Len(out) \in Nat
    BY DEF LoopInv, TypeOK
  <2>2. a \in Seq(Hosted(inst)) /\ Len(a) \in Nat
    BY <2>1, OperatorHosted, TwoParts
  <2>3. Len(a) >= 1 /\ a[1] = HostsEntry(inst)
    BY <2>1, OperatorHosted DEF StartsWith
  <2>4. 1 \in 1..n /\ env[1] = HostsEntry(inst)
    BY <2>1, <2>2, <2>3, TwoParts
  <2>5. j # 0
    BY <2>4 DEF LoopInv, LastEntryKept, HostsEntry
  <2>6. "ALLOWED_HOSTS" \in EnvNames
    BY DEF OperatorNames, EnvNames
  <2>7. j \in 1..Len(out) /\ out[j].name = "ALLOWED_HOSTS"
    BY <2>1, <2>5, <2>6 DEF LoopInv, IndexRight
  <2>8. PICK k \in 1..Len(a) : out[j] = a[k]
    BY <2>7, WinsAtEnd DEF UserValueWins
  <2>9. a[k] \in Hosted(inst)
    BY <2>2, <2>8
  <2> QED BY <2>7, <2>8, <2>9 DEF Hosted
<1> QED BY <1>1, LoopInvariant, PTL
=============================================================================
