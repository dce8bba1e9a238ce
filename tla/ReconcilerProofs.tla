-------------------------- MODULE ReconcilerProofs --------------------------
(***************************************************************************)
(* Theorems about Reconciler, for every value of its constants: any number *)
(* of operators running at once, of volumes, of instances, of failures.    *)
(***************************************************************************)
EXTENDS Reconciler, TLAPS

-----------------------------------------------------------------------------
(***************************************************************************)
(* Types of what the actions are built from.                               *)
(***************************************************************************)

\* The claims are some of the four volumes, and each position names one.
LEMMA ClaimFacts ==
  /\ Claims \subseteq VolumeNames
  /\ \A j \in 1..Len(Volumes) : Volumes[j] \in Claims
  /\ Len(Volumes) \in Nat /\ 1 <= Len(Volumes)
BY VolumesAssumption DEF Claims

\* The two literal lists.
LEMMA ListFacts ==
  /\ Len(SecretOrder) = 2 /\ \A j \in 1..2 : SecretOrder[j] \in Secrets
  /\ Len(CacheOrder) = 3 /\ \A j \in 1..3 : CacheOrder[j] \in CacheParts
  /\ Objects = Secrets \cup Claims \cup {"db"} \cup CacheParts \cup {"service", "deployment"}
BY DEF SecretOrder, CacheOrder, Secrets, CacheParts, Objects, Stateful, Reproducible

\* The placeholder for "no instance" is well typed and asks for Retain.
LEMMA NoInstanceFacts ==
  /\ NoInstance \in Instance /\ NoInstance.uid = 0
  /\ NoInstance.spec.deletionPolicy = ""
  /\ NoConditions \in Conditions
  /\ NoStatus \in [conds : Conditions, observedGeneration : Nat]
<1>1. NoConditions \in Conditions
  BY DEF NoConditions, Conditions, ReadyReasons, DatabaseReasons
<1>2. DefaultSpec \in PaperlessInstanceSpec
  BY ImagesAssumption DEF DefaultSpec, PaperlessInstanceSpec
<1>3. DefaultSpec.deletionPolicy = ""
  BY DEF DefaultSpec
<1> QED
  BY <1>1, <1>2, <1>3 DEF NoInstance, NoStatus, Instance

\* SetCondition changes the condition it names and nothing else.
LEMMA SetReadyFacts ==
  ASSUME NEW i \in Instance, NEW reason \in ReadyReasons
  PROVE  /\ SetReady(i, reason) \in Instance
         /\ SetReady(i, reason).uid = i.uid
         /\ SetReady(i, reason).spec = i.spec
BY DEF SetReady, Instance, Conditions

\* So does the condition DatabaseReady.
LEMMA SetDatabaseReadyFacts ==
  ASSUME NEW i \in Instance, NEW reason \in DatabaseReasons
  PROVE  /\ SetDatabaseReady(i, reason) \in Instance
         /\ SetDatabaseReady(i, reason).uid = i.uid
         /\ SetDatabaseReady(i, reason).spec = i.spec
BY DEF SetDatabaseReady, Instance, Conditions

\* The builders return what the API server stores.
LEMMA BuilderFacts ==
  ASSUME NEW spec \in PaperlessInstanceSpec
  PROVE  /\ Template(spec) \in Templates
         /\ \A v \in VolumeNames : SizeOrDefault(spec, v) \in Nat
<1>1. Template(spec) \in Templates
  BY DEF Template, Templates, IsExternal, IsManaged, PaperlessInstanceSpec
<1>2. \A v \in VolumeNames : DefaultSize[v] \in Nat
  BY DEF DefaultSize, VolumeNames
<1>3. \A v \in VolumeNames : SizeOrDefault(spec, v) \in Nat
  BY <1>2 DEF SizeOrDefault, PaperlessInstanceSpec
<1> QED
  BY <1>1, <1>3

-----------------------------------------------------------------------------
(***************************************************************************)
(* Type correctness.                                                       *)
(***************************************************************************)

\* The initial state is well typed.
LEMMA InitType == Init => TypeOK
<1> SUFFICES ASSUME Init PROVE TypeOK
  OBVIOUS
<1>1. inst \in Instance /\ work \in [Operators -> Instance] /\ cache \in [Operators -> Instance]
  BY NoInstanceFacts DEF Init
<1>2. base \in [Operators -> [conds : Conditions, observedGeneration : Nat]]
  BY NoInstanceFacts DEF Init
<1>3. /\ notify \in [Operators -> BOOLEAN] /\ queue \in [Operators -> BOOLEAN]
      /\ again \in [Operators -> BOOLEAN]
  BY DEF Init
<1>4. crd \in BOOLEAN /\ ext \in ExternalSecretStates /\ deleting \in BOOLEAN
  BY StartAssumption DEF Init
<1>5. /\ pc \in [Operators -> Steps] /\ idx \in [Operators -> Nat]
      /\ \A p \in Operators : WithinList(p)
  BY DEF Init, Steps, WithinList, SecretSteps
<1>6. /\ exists \in SUBSET Objects /\ owner \in [Objects -> Nat]
      /\ key \in [Secrets -> SUBSET Keys] /\ size \in [Claims -> Nat]
      /\ template \in SUBSET Templates /\ pod \in SUBSET Templates
      /\ everDelete \in SUBSET Nat /\ ever \in SUBSET Objects
      /\ uids \in Nat /\ chaos \in Nat /\ src \in Nat
  BY DEF Init
<1> QED
  BY <1>1, <1>2, <1>3, <1>4, <1>5, <1>6
  DEF TypeOK, ApiType, ObjectType, EnvironmentType, InformerType, StepType,
      WorkType, HistoryType

\* Moving a pass to another step keeps it within its list.
LEMMA GotoType ==
  ASSUME StepType, NEW p \in Operators, NEW step \in Steps, Goto(p, step)
  PROVE  StepType'
BY ClaimFacts, ListFacts DEF StepType, Goto, WithinList, SecretSteps, Steps

\* So does walking to the next element, or past the last one to the next step.
LEMMA AdvanceType ==
  ASSUME StepType, NEW p \in Operators, NEW list, NEW step \in Steps,
         Advance(p, list, step), Len(list) \in Nat,
         \/ list = SecretOrder /\ pc[p] \in SecretSteps
         \/ list = Volumes /\ pc[p] = "storage"
         \/ list = CacheOrder /\ pc[p] = "cache"
  PROVE  StepType'
<1>1. CASE idx[p] < Len(list)
  <2>1. pc' = pc /\ idx' = [idx EXCEPT ![p] = @ + 1]
    BY <1>1 DEF Advance
  <2>2. idx' \in [Operators -> Nat] /\ idx'[p] = idx[p] + 1 /\ idx'[p] <= Len(list)
    BY <1>1, <2>1 DEF StepType
  <2>3. WithinList(p)'
    <3>1. 1 <= idx'[p] /\ pc'[p] = pc[p]
      BY <2>1, <2>2 DEF StepType, WithinList
    <3>2. CASE list = SecretOrder /\ pc[p] \in SecretSteps
      BY <3>1, <3>2, <2>2 DEF WithinList, SecretSteps
    <3>3. CASE list = Volumes /\ pc[p] = "storage"
      BY <3>1, <3>3, <2>2 DEF WithinList, SecretSteps
    <3>4. CASE list = CacheOrder /\ pc[p] = "cache"
      BY <3>1, <3>4, <2>2 DEF WithinList, SecretSteps
    <3> QED
      BY <3>2, <3>3, <3>4
  <2>4. \A q \in Operators : q # p => WithinList(q)'
    BY <2>1 DEF StepType, WithinList
  <2> QED
    BY <2>1, <2>2, <2>3, <2>4 DEF StepType
<1>2. CASE ~(idx[p] < Len(list))
  BY <1>2, GotoType DEF Advance
<1> QED
  BY <1>1, <1>2

\* And going on to the next secret after a create or a patch.
LEMMA NextSecretType ==
  ASSUME StepType, NEW p \in Operators, NextSecret(p), pc[p] \in SecretSteps
  PROVE  StepType'
<1>1. CASE idx[p] < Len(SecretOrder)
  BY <1>1, ClaimFacts, ListFacts
  DEF NextSecret, StepType, WithinList, SecretSteps, Steps
<1>2. CASE ~(idx[p] < Len(SecretOrder))
  BY <1>2, GotoType DEF NextSecret, Steps
<1> QED
  BY <1>1, <1>2

\* A stopped pass and an ended one leave well-typed values behind.
LEMMA StopType ==
  ASSUME StepType, WorkType, NEW p \in Operators, NEW i \in Instance,
         NEW reason \in ReadyReasons, Stop(p, i, reason), UNCHANGED base
  PROVE  StepType' /\ WorkType'
<1>1. StepType'
  BY GotoType DEF Stop, Steps
<1>2. WorkType'
  BY SetReadyFacts DEF Stop, WorkType
<1> QED
  BY <1>1, <1>2

\* An ended pass holds no instance.
LEMMA EndPassType ==
  ASSUME StepType, WorkType, NEW p \in Operators, EndPass(p)
  PROVE  StepType' /\ WorkType'
<1>1. StepType'
  BY GotoType DEF EndPass, Steps
<1>2. WorkType'
  BY NoInstanceFacts DEF EndPass, WorkType
<1> QED
  BY <1>1, <1>2

\* A write adds the object and gives it the owner reference.
LEMMA WriteType ==
  ASSUME TypeOK, NEW o \in Objects, NEW u \in Nat, NEW changed \in BOOLEAN,
         Write(o, u, changed)
  PROVE  /\ exists' \in SUBSET Objects /\ ever' \in SUBSET Objects
         /\ owner' \in [Objects -> Nat]
         /\ queue' \in [Operators -> BOOLEAN]
BY DEF Write, TypeOK, ObjectType, InformerType, HistoryType

\* An owner reference is a UID or 0.
LEMMA OwnerType ==
  ASSUME NEW i \in Instance
  PROVE  StatefulOwner(i) \in Nat /\ AlwaysOwner(i) \in Nat
BY DEF StatefulOwner, AlwaysOwner, Instance

\* Each step of a pass keeps every variable's type.
LEMMA PassType ==
  ASSUME TypeOK, NEW p \in Operators, OperatorStep(p)
  PROVE  TypeOK'
<1> USE DEF apiVars, objVars, envVars, passVars, histVars
<1>a. ApiType /\ ObjectType /\ EnvironmentType /\ InformerType /\ StepType
      /\ WorkType /\ HistoryType
  BY DEF TypeOK
<1>b. work[p] \in Instance /\ cache[p] \in Instance
  BY <1>a DEF WorkType, InformerType
<1>1. CASE BeginPass(p)
  <2>1. ApiType' /\ ObjectType' /\ EnvironmentType' /\ InformerType' /\ HistoryType'
    BY <1>1, <1>a DEF BeginPass, ApiType, ObjectType, EnvironmentType, InformerType, HistoryType
  <2>2. CASE UNCHANGED passVars
    BY <2>1, <2>2, <1>a DEF TypeOK, StepType, WorkType, WithinList
  <2>3. CASE ~UNCHANGED passVars
    <3>1. StepType'
      BY <1>1, <2>3, <1>a, GotoType DEF BeginPass, Steps
    <3>2. SetReady(cache[p], "Reconciling") \in Instance
      BY <1>b, SetReadyFacts DEF ReadyReasons
    <3>3. [conds |-> cache[p].conds, observedGeneration |-> cache[p].observedGeneration]
            \in [conds : Conditions, observedGeneration : Nat]
      BY <1>b DEF Instance
    <3>4. WorkType'
      BY <1>1, <2>3, <1>a, <3>2, <3>3 DEF BeginPass, WorkType
    <3> QED
      BY <2>1, <3>1, <3>4 DEF TypeOK
  <2> QED
    BY <2>2, <2>3
<1>2. CASE GetSecret(p)
  <2>1. ApiType' /\ ObjectType' /\ EnvironmentType' /\ InformerType' /\ HistoryType' /\ WorkType'
    BY <1>2, <1>a DEF GetSecret, ApiType, ObjectType, EnvironmentType, InformerType, HistoryType, WorkType
  <2>2. StepType'
    <3>1. CASE Advance(p, SecretOrder, "storage")
      BY <1>2, <1>a, <3>1, AdvanceType, ListFacts DEF GetSecret, SecretSteps, Steps
    <3>2. CASE pc' = [pc EXCEPT ![p] = "patch-secret"] /\ UNCHANGED idx
      BY <1>2, <1>a, <3>2 DEF GetSecret, StepType, WithinList, SecretSteps, Steps
    <3>3. CASE pc' = [pc EXCEPT ![p] = "create-secret"] /\ UNCHANGED idx
      BY <1>2, <1>a, <3>3 DEF GetSecret, StepType, WithinList, SecretSteps, Steps
    <3> QED
      BY <1>2, <3>1, <3>2, <3>3 DEF GetSecret
  <2> QED
    BY <2>1, <2>2 DEF TypeOK
<1>3. CASE CreateSecret(p)
  <2>1. ThisSecret(p) \in Secrets /\ ThisSecret(p) \in Objects /\ pc[p] \in SecretSteps
    BY <1>3, <1>a, ListFacts DEF CreateSecret, ThisSecret, StepType, WithinList, SecretSteps
  <2>2. ApiType' /\ EnvironmentType' /\ cache' = cache /\ notify' = notify /\ base' = base
        /\ size' = size /\ template' = template /\ pod' = pod
        /\ chaos' = chaos /\ everDelete' = everDelete /\ src' = src
    BY <1>3, <1>a DEF CreateSecret, ApiType, EnvironmentType
  <2>3. CASE ThisSecret(p) \notin exists
    <3>1. Write(ThisSecret(p), StatefulOwner(work[p]), TRUE) /\ NextSecret(p)
          /\ work' = work /\ again' = again
      BY <1>3, <2>3 DEF CreateSecret
    <3>2. StepType'
      BY <3>1, <2>1, <1>a, NextSecretType
    <3>3. /\ exists' \in SUBSET Objects /\ ever' \in SUBSET Objects
          /\ owner' \in [Objects -> Nat] /\ queue' \in [Operators -> BOOLEAN]
      BY <3>1, <2>1, <1>b, OwnerType, WriteType
    <3>4. key' \in [Secrets -> SUBSET Keys]
      BY <1>3, <2>1, <2>3, <1>a DEF CreateSecret, ObjectType
    <3> QED
      BY <2>2, <3>1, <3>2, <3>3, <3>4, <1>a
      DEF TypeOK, ObjectType, InformerType, WorkType, HistoryType
  <2>4. CASE ThisSecret(p) \in exists
    <3>1. Stop(p, work[p], "SecretsNotReady")
          /\ UNCHANGED <<key, exists, ever, owner, queue>>
      BY <1>3, <2>4 DEF CreateSecret
    <3>2. StepType' /\ WorkType'
      BY <3>1, <2>2, <1>a, <1>b, StopType DEF ReadyReasons
    <3> QED
      BY <2>2, <3>1, <3>2, <1>a DEF TypeOK, ObjectType, InformerType, HistoryType
  <2> QED
    BY <2>3, <2>4
<1>4. CASE PatchSecret(p)
  <2>1. ThisSecret(p) \in Secrets /\ ThisSecret(p) \in Objects /\ pc[p] \in SecretSteps
    BY <1>4, <1>a, ListFacts DEF PatchSecret, ThisSecret, StepType, WithinList, SecretSteps
  <2>2. ApiType' /\ EnvironmentType' /\ cache' = cache /\ notify' = notify /\ base' = base
        /\ size' = size /\ template' = template /\ pod' = pod
        /\ chaos' = chaos /\ everDelete' = everDelete /\ src' = src
    BY <1>4, <1>a DEF PatchSecret, ApiType, EnvironmentType
  <2>3. CASE ThisSecret(p) \in exists
    <3>1. Write(ThisSecret(p), StatefulOwner(work[p]), FALSE) /\ NextSecret(p)
          /\ work' = work /\ again' = again
      BY <1>4, <2>3 DEF PatchSecret
    <3>2. StepType'
      BY <3>1, <2>1, <1>a, NextSecretType
    <3>3. /\ exists' \in SUBSET Objects /\ ever' \in SUBSET Objects
          /\ owner' \in [Objects -> Nat] /\ queue' \in [Operators -> BOOLEAN]
      BY <3>1, <2>1, <1>b, OwnerType, WriteType
    <3>4. key' \in [Secrets -> SUBSET Keys]
      BY <1>4, <2>1, <2>3, <1>a DEF PatchSecret, ObjectType
    <3> QED
      BY <2>2, <3>1, <3>2, <3>3, <3>4, <1>a
      DEF TypeOK, ObjectType, InformerType, WorkType, HistoryType
  <2>4. CASE ThisSecret(p) \notin exists
    <3>1. Stop(p, work[p], "SecretsNotReady")
          /\ UNCHANGED <<key, exists, ever, owner, queue>>
      BY <1>4, <2>4 DEF PatchSecret
    <3>2. StepType' /\ WorkType'
      BY <3>1, <2>2, <1>a, <1>b, StopType DEF ReadyReasons
    <3> QED
      BY <2>2, <3>1, <3>2, <1>a DEF TypeOK, ObjectType, InformerType, HistoryType
  <2> QED
    BY <2>3, <2>4
<1>5. CASE ReconcileStorage(p)
  <2> DEFINE v == Volumes[idx[p]]
             want == SizeOrDefault(work[p].spec, v)
  <2>1. v \in Claims /\ v \in Objects /\ v \in VolumeNames
    BY <1>5, <1>a, ClaimFacts, ListFacts DEF ReconcileStorage, StepType, WithinList
  <2>2. ApiType' /\ EnvironmentType' /\ cache' = cache /\ notify' = notify /\ base' = base
        /\ key' = key /\ template' = template /\ pod' = pod
        /\ chaos' = chaos /\ everDelete' = everDelete /\ src' = src
    BY <1>5, <1>a DEF ReconcileStorage, ApiType, EnvironmentType
  <2>3. want \in Nat /\ size[v] \in Nat
    BY <2>1, <1>a, <1>b, BuilderFacts DEF Instance, ObjectType
  <2>4. CASE size[v] <= want
    <3>1. Write(v, StatefulOwner(work[p]), size[v] # want)
          /\ Advance(p, Volumes, "database") /\ work' = work /\ again' = again
          /\ size' = [size EXCEPT ![v] = want]
      BY <1>5, <2>3, <2>4 DEF ReconcileStorage
    <3>2. StepType'
      BY <3>1, <1>5, <1>a, AdvanceType, ClaimFacts DEF ReconcileStorage, Steps
    <3>3. /\ exists' \in SUBSET Objects /\ ever' \in SUBSET Objects
          /\ owner' \in [Objects -> Nat] /\ queue' \in [Operators -> BOOLEAN]
      BY <3>1, <2>1, <1>b, OwnerType, WriteType
    <3>4. size' \in [Claims -> Nat]
      BY <3>1, <2>1, <2>3, <1>a DEF ObjectType
    <3> QED
      BY <2>2, <3>1, <3>2, <3>3, <3>4, <1>a
      DEF TypeOK, ObjectType, InformerType, WorkType, HistoryType
  <2>5. CASE size[v] > want
    <3>1. Stop(p, work[p], "StorageNotReady")
          /\ UNCHANGED <<size, exists, ever, owner, queue>>
      BY <1>5, <2>3, <2>5 DEF ReconcileStorage
    <3>2. StepType' /\ WorkType'
      BY <3>1, <2>2, <1>a, <1>b, StopType DEF ReadyReasons
    <3> QED
      BY <2>2, <3>1, <3>2, <1>a DEF TypeOK, ObjectType, InformerType, HistoryType
  <2> QED
    BY <2>3, <2>4, <2>5
<1>6. CASE ReconcileExternalDatabase(p)
  <2>1. ApiType' /\ ObjectType' /\ EnvironmentType' /\ InformerType' /\ HistoryType' /\ base' = base
    BY <1>6, <1>a DEF ReconcileExternalDatabase, ApiType, ObjectType, EnvironmentType,
                     InformerType, HistoryType
  <2>2. \A r \in DatabaseReasons : SetDatabaseReady(work[p], r) \in Instance
    BY <1>b, SetDatabaseReadyFacts
  <2>3. CASE ext = "valid"
    <3>1. StepType'
      BY <1>6, <2>3, <1>a, GotoType DEF ReconcileExternalDatabase, AfterDatabase, Steps
    <3>2. WorkType'
      BY <1>6, <2>1, <2>2, <2>3, <1>a DEF ReconcileExternalDatabase, WorkType, DatabaseReasons
    <3> QED
      BY <2>1, <3>1, <3>2 DEF TypeOK
  <2>4. CASE ext # "valid"
    <3>1. PICK r \in DatabaseReasons :
            Stop(p, SetDatabaseReady(work[p], r), "DatabaseNotReady")
      BY <1>6, <2>4 DEF ReconcileExternalDatabase, DatabaseReasons
    <3>2. StepType' /\ WorkType'
      BY <3>1, <2>1, <2>2, <1>a, StopType DEF ReadyReasons
    <3> QED
      BY <2>1, <3>2 DEF TypeOK
  <2> QED
    BY <2>3, <2>4
<1>7. CASE CnpgInstalled(p)
  <2>1. ApiType' /\ ObjectType' /\ EnvironmentType' /\ InformerType' /\ HistoryType' /\ base' = base
    BY <1>7, <1>a DEF CnpgInstalled, ApiType, ObjectType, EnvironmentType,
                     InformerType, HistoryType
  <2>2. CASE crd
    <3>1. StepType'
      BY <1>7, <2>2, <1>a, GotoType DEF CnpgInstalled, Steps
    <3> QED
      BY <1>7, <2>1, <2>2, <3>1, <1>a DEF TypeOK, CnpgInstalled, WorkType
  <2>3. CASE ~crd
    <3>1. Stop(p, SetDatabaseReady(work[p], "CloudNativePGMissing"), "DatabaseNotReady")
      BY <1>7, <2>3 DEF CnpgInstalled
    <3>2. SetDatabaseReady(work[p], "CloudNativePGMissing") \in Instance
      BY <1>b, SetDatabaseReadyFacts DEF DatabaseReasons
    <3>3. StepType' /\ WorkType'
      BY <3>1, <3>2, <2>1, <1>a, StopType DEF ReadyReasons
    <3> QED
      BY <2>1, <3>3 DEF TypeOK
  <2> QED
    BY <2>2, <2>3
<1>8. CASE ApplyCluster(p)
  <2>1. ApiType' /\ EnvironmentType' /\ cache' = cache /\ notify' = notify /\ base' = base
        /\ key' = key /\ size' = size /\ pod' = pod /\ template' = template /\ again' = again
        /\ chaos' = chaos /\ everDelete' = everDelete /\ src' = src
    BY <1>8, <1>a DEF ApplyCluster, ApiType, EnvironmentType
  <2>2. "db" \in Objects
    BY ListFacts
  <2>3. StepType'
    BY <1>8, <1>a, GotoType DEF ApplyCluster, AfterDatabase, Steps
  <2>4. /\ exists' \in SUBSET Objects /\ ever' \in SUBSET Objects
        /\ owner' \in [Objects -> Nat] /\ queue' \in [Operators -> BOOLEAN]
    <3>1. Write("db", StatefulOwner(work[p]), FALSE)
      BY <1>8 DEF ApplyCluster
    <3> QED
      BY <3>1, <2>2, <1>b, OwnerType, WriteType
  <2>5. template' \in SUBSET Templates
    BY <2>1, <1>a DEF ObjectType
  <2>6. work' \in [Operators -> Instance]
    <3>1. SetDatabaseReady(work[p], "CloudNativePGClusterApplied") \in Instance
      BY <1>b, SetDatabaseReadyFacts DEF DatabaseReasons
    <3> QED
      BY <1>8, <3>1, <1>a DEF ApplyCluster, WorkType
  <2> QED
    BY <2>1, <2>3, <2>4, <2>5, <2>6, <1>a
    DEF TypeOK, ObjectType, InformerType, WorkType, HistoryType
<1>9. CASE ReconcileCache(p)
  <2>1. ApiType' /\ EnvironmentType' /\ cache' = cache /\ notify' = notify /\ base' = base
        /\ key' = key /\ size' = size /\ pod' = pod /\ template' = template /\ again' = again
        /\ chaos' = chaos /\ everDelete' = everDelete /\ src' = src
    BY <1>9, <1>a DEF ReconcileCache, ApiType, EnvironmentType
  <2>2. CacheOrder[idx[p]] \in Objects
    BY <1>9, <1>a, ListFacts DEF ReconcileCache, StepType, WithinList
  <2>3. StepType'
    BY <1>9, <1>a, AdvanceType, ListFacts DEF ReconcileCache, Steps
  <2>4. /\ exists' \in SUBSET Objects /\ ever' \in SUBSET Objects
        /\ owner' \in [Objects -> Nat] /\ queue' \in [Operators -> BOOLEAN]
    <3>1. Write(CacheOrder[idx[p]], AlwaysOwner(work[p]), FALSE)
      BY <1>9 DEF ReconcileCache
    <3> QED
      BY <3>1, <2>2, <1>b, OwnerType, WriteType
  <2>5. template' \in SUBSET Templates
    BY <2>1, <1>a DEF ObjectType
  <2>6. work' \in [Operators -> Instance]
    BY <1>9, <1>a DEF ReconcileCache, WorkType
  <2> QED
    BY <2>1, <2>3, <2>4, <2>5, <2>6, <1>a
    DEF TypeOK, ObjectType, InformerType, WorkType, HistoryType
<1>10. CASE ApplyService(p)
  <2>1. ApiType' /\ EnvironmentType' /\ cache' = cache /\ notify' = notify /\ base' = base
        /\ key' = key /\ size' = size /\ pod' = pod /\ template' = template /\ again' = again
        /\ chaos' = chaos /\ everDelete' = everDelete /\ src' = src
    BY <1>10, <1>a DEF ApplyService, ApiType, EnvironmentType
  <2>2. "service" \in Objects
    BY ListFacts
  <2>3. StepType'
    BY <1>10, <1>a, GotoType DEF ApplyService, AfterDatabase, Steps
  <2>4. /\ exists' \in SUBSET Objects /\ ever' \in SUBSET Objects
        /\ owner' \in [Objects -> Nat] /\ queue' \in [Operators -> BOOLEAN]
    <3>1. Write("service", AlwaysOwner(work[p]), FALSE)
      BY <1>10 DEF ApplyService
    <3> QED
      BY <3>1, <2>2, <1>b, OwnerType, WriteType
  <2>5. template' \in SUBSET Templates
    BY <2>1, <1>a DEF ObjectType
  <2>6. work' \in [Operators -> Instance]
    BY <1>10, <1>a DEF ApplyService, WorkType
  <2> QED
    BY <2>1, <2>3, <2>4, <2>5, <2>6, <1>a
    DEF TypeOK, ObjectType, InformerType, WorkType, HistoryType
<1>11. CASE ApplyDeployment(p)
  <2>1. ApiType' /\ EnvironmentType' /\ cache' = cache /\ notify' = notify /\ base' = base
        /\ key' = key /\ size' = size /\ pod' = pod /\ again' = again
        /\ chaos' = chaos /\ everDelete' = everDelete /\ src' = src
    BY <1>11, <1>a DEF ApplyDeployment, ApiType, EnvironmentType
  <2>2. "deployment" \in Objects
    BY ListFacts
  <2>3. StepType'
    BY <1>11, <1>a, GotoType DEF ApplyDeployment, AfterDatabase, Steps
  <2>4. /\ exists' \in SUBSET Objects /\ ever' \in SUBSET Objects
        /\ owner' \in [Objects -> Nat] /\ queue' \in [Operators -> BOOLEAN]
    <3>1. Write("deployment", AlwaysOwner(work[p]), template # {Template(work[p].spec)})
      BY <1>11 DEF ApplyDeployment
    <3> QED
      BY <3>1, <2>2, <1>b, OwnerType, WriteType
  <2>5. template' \in SUBSET Templates
    BY <1>11, <1>b, BuilderFacts DEF ApplyDeployment, Instance
  <2>6. work' \in [Operators -> Instance]
    <3>1. \A r \in ReadyReasons : SetReady(work[p], r) \in Instance
      BY <1>b, SetReadyFacts
    <3> QED
      BY <1>11, <3>1, <1>a DEF ApplyDeployment, WorkType, ReadyReasons
  <2> QED
    BY <2>1, <2>3, <2>4, <2>5, <2>6, <1>a
    DEF TypeOK, ObjectType, InformerType, WorkType, HistoryType
<1>12. CASE PatchStatus(p)
  <2>1. ObjectType' /\ EnvironmentType' /\ uids' = uids /\ cache' = cache
        /\ chaos' = chaos /\ everDelete' = everDelete /\ ever' = ever
    BY <1>12, <1>a DEF PatchStatus, ObjectType, EnvironmentType
  <2>2. StepType' /\ WorkType'
    BY <1>12, <1>a, EndPassType DEF PatchStatus
  <2>3. queue' \in [Operators -> BOOLEAN] /\ notify' \in [Operators -> BOOLEAN]
    BY <1>12, <1>a DEF PatchStatus, InformerType, WorkType
  <2>4. inst' \in Instance
    BY <1>12, <1>a, <1>b DEF PatchStatus, ApiType, Instance
  <2>5. src' \in Nat
    BY <1>12, <1>a, <1>b DEF PatchStatus, HistoryType, Instance
  <2> QED
    BY <2>1, <2>2, <2>3, <2>4, <2>5, <1>a DEF TypeOK, ApiType, InformerType, HistoryType
<1>13. CASE PatchStatusNotFound(p)
  <2>1. ApiType' /\ ObjectType' /\ EnvironmentType' /\ InformerType' /\ HistoryType'
    BY <1>13, <1>a DEF PatchStatusNotFound, ApiType, ObjectType, EnvironmentType,
                      InformerType, HistoryType
  <2>2. StepType' /\ WorkType'
    BY <1>13, <1>a, EndPassType DEF PatchStatusNotFound
  <2> QED
    BY <2>1, <2>2 DEF TypeOK
<1> QED
  BY <1>1, <1>2, <1>3, <1>4, <1>5, <1>6, <1>7, <1>8, <1>9, <1>10, <1>11,
     <1>12, <1>13 DEF OperatorStep

\* So does what happens to an operator from outside.
LEMMA OutsideType ==
  ASSUME TypeOK, NEW p \in Operators,
         ApiError(p) \/ Restart(p) \/ Observe(p) \/ Resync(p)
  PROVE  TypeOK'
<1> USE DEF apiVars, objVars, envVars, passVars, histVars
<1>a. ApiType /\ ObjectType /\ EnvironmentType /\ InformerType /\ StepType
      /\ WorkType /\ HistoryType /\ work[p] \in Instance
  BY DEF TypeOK, WorkType
<1>1. CASE ApiError(p)
  <2>1. ApiType' /\ ObjectType' /\ EnvironmentType' /\ InformerType' /\ HistoryType'
    <3>1. queue' = queue \/ queue' = [queue EXCEPT ![p] = TRUE]
      BY <1>1 DEF ApiError
    <3>2. InformerType'
      BY <1>1, <3>1, <1>a DEF ApiError, InformerType
    <3> QED
      BY <1>1, <3>2, <1>a DEF ApiError, ApiType, ObjectType, EnvironmentType, HistoryType
  <2>2. CASE pc[p] \notin {"idle", "status"}
    <3>1. StepReason(pc[p]) \in ReadyReasons
      BY <2>2, <1>a DEF StepReason, ReadyReasons, StepType, Steps
    <3>2. StepType' /\ WorkType'
      BY <1>1, <2>2, <3>1, <1>a, StopType DEF ApiError
    <3> QED
      BY <2>1, <3>2 DEF TypeOK
  <2>3. CASE pc[p] \in {"idle", "status"}
    <3>1. StepType' /\ WorkType'
      BY <1>1, <2>3, <1>a, EndPassType DEF ApiError
    <3> QED
      BY <2>1, <3>1 DEF TypeOK
  <2> QED
    BY <2>2, <2>3
<1>2. CASE Restart(p)
  <2>1. ApiType' /\ ObjectType' /\ EnvironmentType' /\ HistoryType'
    BY <1>2, <1>a DEF Restart, ApiType, ObjectType, EnvironmentType, HistoryType
  <2>2. InformerType'
    BY <1>2, <1>a DEF Restart, InformerType, ApiType
  <2>3. StepType' /\ WorkType'
    BY <1>2, <1>a, EndPassType DEF Restart
  <2> QED
    BY <2>1, <2>2, <2>3 DEF TypeOK
<1>3. CASE Observe(p)
  <2>1. InformerType'
    BY <1>3, <1>a DEF Observe, InformerType, ApiType
  <2> QED
    BY <1>3, <2>1, <1>a DEF Observe, TypeOK, ApiType, ObjectType, EnvironmentType,
                           StepType, WorkType, HistoryType, WithinList
<1>4. CASE Resync(p)
  <2>1. InformerType'
    BY <1>4, <1>a DEF Resync, InformerType
  <2> QED
    BY <1>4, <2>1, <1>a DEF Resync, TypeOK, ApiType, ObjectType, EnvironmentType,
                           StepType, WorkType, HistoryType, WithinList
<1> QED
  BY <1>1, <1>2, <1>3, <1>4

\* An instance that goes, whoever lets it go.
LEMMA DropInstanceType ==
  ASSUME TypeOK, DropInstance
  PROVE  TypeOK'
  BY NoInstanceFacts
  DEF DropInstance, NotifyAll, objVars, passVars, TypeOK, ApiType, ObjectType,
      EnvironmentType, InformerType, StepType, WorkType, HistoryType, WithinList

\* And the user.
LEMMA UserType ==
  ASSUME TypeOK, User
  PROVE  TypeOK'
<1> USE DEF apiVars, objVars, envVars, passVars, histVars
<1>a. ApiType /\ ObjectType /\ EnvironmentType /\ InformerType /\ StepType
      /\ WorkType /\ HistoryType
  BY DEF TypeOK
<1>1. ASSUME NEW spec \in Specs, CreateInstance(spec) PROVE TypeOK'
  <2>0. spec \in PaperlessInstanceSpec
    BY SpecsAssumption
  <2>1. inst' \in Instance /\ uids' \in Nat
    <3>1. /\ inst' = [uid |-> uids + 1, gen |-> 1, spec |-> spec,
                      conds |-> NoConditions, observedGeneration |-> 0]
          /\ uids' = uids + 1 /\ uids + 1 \in Nat
      BY <1>1, <1>a DEF CreateInstance, ApiType
    <3>2. NoConditions \in Conditions
      BY NoInstanceFacts
    <3> QED
      BY <3>1, <3>2, <2>0 DEF Instance
  <2>2. everDelete' \in SUBSET Nat
    BY <1>1, <2>1, <1>a DEF CreateInstance, RecordPolicy, HistoryType, Instance
  <2> QED
    BY <1>1, <2>1, <2>2, <1>a
    DEF CreateInstance, NotifyAll, TypeOK, ApiType, ObjectType, EnvironmentType,
        InformerType, StepType, WorkType, HistoryType, WithinList
<1>2. ASSUME NEW spec \in Specs, EditSpec(spec) PROVE TypeOK'
  <2>0. spec \in PaperlessInstanceSpec
    BY SpecsAssumption
  <2>1. inst' \in Instance
    <3>1. inst' = [inst EXCEPT !.spec = spec, !.gen = inst.gen + 1]
      BY <1>2 DEF EditSpec
    <3>2. [inst EXCEPT !.spec = spec] \in Instance
      BY <2>0, <1>a DEF ApiType, Instance
    <3>3. inst.gen + 1 \in Nat
      BY <1>a DEF ApiType, Instance
    <3> QED
      BY <3>1, <3>2, <3>3, <2>0, <1>a DEF ApiType, Instance
  <2>2. everDelete' \in SUBSET Nat
    BY <1>2, <2>1, <1>a DEF EditSpec, RecordPolicy, HistoryType, Instance
  <2> QED
    BY <1>2, <2>1, <2>2, <1>a
    DEF EditSpec, NotifyAll, TypeOK, ApiType, ObjectType, EnvironmentType,
        InformerType, StepType, WorkType, HistoryType, WithinList
<1>3. CASE DeleteInstance
  BY <1>3, DropInstanceType DEF DeleteInstance
<1>7. CASE DeleteInForeground
  <2>1. inst' \in Instance
    BY <1>7, <1>a DEF DeleteInForeground, ApiType, Instance
  <2> QED
    BY <1>7, <2>1, <1>a
    DEF DeleteInForeground, NotifyAll, TypeOK, ApiType, ObjectType, EnvironmentType,
        InformerType, StepType, WorkType, HistoryType, WithinList
<1>4. ASSUME NEW o \in Droppable, DropChild(o) PROVE TypeOK'
  <2>1. ObjectType' /\ queue' \in [Operators -> BOOLEAN]
    BY <1>4, <1>a, DroppableAssumption
    DEF DropChild, Remove, ObjectType, InformerType
  <2> QED
    BY <1>4, <2>1, <1>a
    DEF DropChild, TypeOK, ApiType, EnvironmentType, InformerType, StepType,
        WorkType, HistoryType, WithinList
<1>5. CASE InstallCNPG
  BY <1>5, <1>a
  DEF InstallCNPG, TypeOK, ApiType, ObjectType, EnvironmentType, InformerType,
      StepType, WorkType, HistoryType, WithinList
<1>6. CASE ChangeExternalSecret
  BY <1>6, <1>a
  DEF ChangeExternalSecret, TypeOK, ApiType, ObjectType, EnvironmentType,
      InformerType, StepType, WorkType, HistoryType, WithinList
<1> QED
  BY <1>1, <1>2, <1>3, <1>4, <1>5, <1>6, <1>7 DEF User

\* And the rest of the cluster.
LEMMA ClusterType ==
  ASSUME TypeOK, Cluster
  PROVE  TypeOK'
<1> USE DEF apiVars, objVars, envVars, passVars, histVars
<1>a. ApiType /\ ObjectType /\ EnvironmentType /\ InformerType /\ StepType
      /\ WorkType /\ HistoryType
  BY DEF TypeOK
<1>1. ASSUME NEW o \in Objects, GarbageCollect(o) PROVE TypeOK'
  <2>1. ObjectType' /\ queue' \in [Operators -> BOOLEAN]
    BY <1>1, <1>a DEF GarbageCollect, Remove, ObjectType, InformerType
  <2> QED
    BY <1>1, <2>1, <1>a
    DEF GarbageCollect, TypeOK, ApiType, EnvironmentType, InformerType, StepType,
        WorkType, HistoryType, WithinList
<1>2. ASSUME NEW t \in SUBSET Templates, SetPod(t), chaos' \in Nat PROVE TypeOK'
  BY <1>2, <1>a
  DEF SetPod, TypeOK, ApiType, ObjectType, EnvironmentType, InformerType,
      StepType, WorkType, HistoryType, WithinList
<1>3. CASE RollOut
  BY <1>2, <1>3, <1>a DEF RollOut, HistoryType
<1>4. CASE PodReady
  BY <1>2, <1>4, <1>a DEF PodReady, HistoryType, ObjectType
<1>5. CASE PodFail
  BY <1>2, <1>5, <1>a DEF PodFail, HistoryType
<1>6. CASE FinishDeletion
  BY <1>6, DropInstanceType DEF FinishDeletion
<1> QED
  BY <1>1, <1>3, <1>4, <1>5, <1>6 DEF Cluster

\* One step, whoever takes it.
LEMMA NextType ==
  ASSUME TypeOK, [Next]_vars
  PROVE  TypeOK'
<1>1. CASE Next
  BY <1>1, PassType, OutsideType, UserType, ClusterType DEF Next
<1>2. CASE UNCHANGED vars
  BY <1>2
  DEF vars, apiVars, objVars, envVars, passVars, histVars, TypeOK, ApiType,
      ObjectType, EnvironmentType, InformerType, StepType, WorkType, HistoryType,
      WithinList
<1> QED
  BY <1>1, <1>2

(***************************************************************************)
(* Every variable keeps its type, and no pass walks past the end of the    *)
(* secrets, the volumes or the parts of the cache.                         *)
(***************************************************************************)
THEOREM TypeCorrect == Spec => []TypeOK
BY InitType, NextType, PTL DEF Spec

-----------------------------------------------------------------------------
(***************************************************************************)
(* Ownership.  A pass writes owner references from the instance it read,   *)
(* which may have been edited or deleted since, so OwnedOnlyUnderDelete is *)
(* not inductive: what makes it so is that every copy of the instance,     *)
(* stored, cached or in the hands of a pass, whose policy is Delete is of  *)
(* an instance known to have asked for it.                                 *)
(***************************************************************************)
Recorded(i) ==
  DeletionPolicyOrDefault(i.spec) = "Delete" => i.uid \in everDelete

DeleteRecorded ==
  /\ Recorded(inst)
  /\ \A p \in Operators : Recorded(cache[p]) /\ Recorded(work[p])

OwnershipInv == TypeOK /\ OwnedOnlyUnderDelete /\ DeleteRecorded

\* A write by a pass whose instance is recorded.
LEMMA WriteOwnership ==
  ASSUME OwnershipInv, NEW p \in Operators, NEW o \in Objects, NEW u,
         NEW changed, Write(o, u, changed), everDelete' = everDelete,
         u = StatefulOwner(work[p]) \/ o \notin Stateful
  PROVE  OwnedOnlyUnderDelete'
<1>1. o \in Stateful => u = 0 \/ u \in everDelete
  BY DEF OwnershipInv, DeleteRecorded, Recorded, StatefulOwner
<1>2. owner' = [owner EXCEPT ![o] = u] /\ owner \in [Objects -> Nat]
  BY DEF Write, OwnershipInv, TypeOK, ObjectType
<1>3. Stateful \subseteq Objects
  BY DEF Objects
<1> QED
  BY <1>1, <1>2, <1>3 DEF OwnershipInv, OwnedOnlyUnderDelete

\* No step of a pass invents an instance.
LEMMA PassCopies ==
  ASSUME TypeOK, NEW p \in Operators, OperatorStep(p)
  PROVE  /\ everDelete' = everDelete /\ cache' = cache
         /\ inst'.uid = inst.uid /\ inst'.spec = inst.spec
         /\ \A q \in Operators :
              \/ work'[q].uid = work[q].uid /\ work'[q].spec = work[q].spec
              \/ work'[q].uid = cache[q].uid /\ work'[q].spec = cache[q].spec
              \/ work'[q] = NoInstance
<1> USE DEF apiVars, passVars, histVars
<1>a. work \in [Operators -> Instance] /\ cache[p] \in Instance /\ work[p] \in Instance
      /\ inst \in Instance
  BY DEF TypeOK, WorkType, InformerType, ApiType
<1>b. \A r \in ReadyReasons :
        /\ SetReady(work[p], r).uid = work[p].uid /\ SetReady(work[p], r).spec = work[p].spec
        /\ SetReady(cache[p], r).uid = cache[p].uid /\ SetReady(cache[p], r).spec = cache[p].spec
  BY <1>a, SetReadyFacts
<1>c. \A r \in DatabaseReasons :
        /\ SetDatabaseReady(work[p], r) \in Instance
        /\ SetDatabaseReady(work[p], r).uid = work[p].uid
        /\ SetDatabaseReady(work[p], r).spec = work[p].spec
  BY <1>a, SetDatabaseReadyFacts
<1>d. \A d \in DatabaseReasons, r \in ReadyReasons :
        /\ SetReady(SetDatabaseReady(work[p], d), r).uid = work[p].uid
        /\ SetReady(SetDatabaseReady(work[p], d), r).spec = work[p].spec
  BY <1>c, SetReadyFacts
<1>1. CASE BeginPass(p)
  <2>1. work' = work \/ work' = [work EXCEPT ![p] = SetReady(cache[p], "Reconciling")]
    BY <1>1 DEF BeginPass
  <2> QED
    BY <1>1, <2>1, <1>a, <1>b DEF BeginPass, ReadyReasons
<1>2. CASE GetSecret(p)
  BY <1>2 DEF GetSecret
<1>3. CASE CreateSecret(p)
  <2>1. work' = work \/ work' = [work EXCEPT ![p] = SetReady(work[p], "SecretsNotReady")]
    BY <1>3 DEF CreateSecret, Stop
  <2> QED
    BY <1>3, <2>1, <1>a, <1>b DEF CreateSecret, ReadyReasons
<1>4. CASE PatchSecret(p)
  <2>1. work' = work \/ work' = [work EXCEPT ![p] = SetReady(work[p], "SecretsNotReady")]
    BY <1>4 DEF PatchSecret, Stop
  <2> QED
    BY <1>4, <2>1, <1>a, <1>b DEF PatchSecret, ReadyReasons
<1>5. CASE ReconcileStorage(p)
  <2>1. work' = work \/ work' = [work EXCEPT ![p] = SetReady(work[p], "StorageNotReady")]
    BY <1>5 DEF ReconcileStorage, Stop
  <2> QED
    BY <1>5, <2>1, <1>a, <1>b DEF ReconcileStorage, ReadyReasons
<1>6. CASE ReconcileExternalDatabase(p)
  <2>1. \E d \in DatabaseReasons :
          \/ work' = [work EXCEPT ![p] = SetDatabaseReady(work[p], d)]
          \/ work' = [work EXCEPT ![p] =
                        SetReady(SetDatabaseReady(work[p], d), "DatabaseNotReady")]
    BY <1>6 DEF ReconcileExternalDatabase, Stop, DatabaseReasons
  <2> QED
    BY <1>6, <2>1, <1>a, <1>c, <1>d DEF ReconcileExternalDatabase, ReadyReasons
<1>7. CASE CnpgInstalled(p)
  <2>1. \/ work' = work
        \/ work' = [work EXCEPT ![p] =
             SetReady(SetDatabaseReady(work[p], "CloudNativePGMissing"), "DatabaseNotReady")]
    BY <1>7 DEF CnpgInstalled, Stop
  <2> QED
    BY <1>7, <2>1, <1>a, <1>d DEF CnpgInstalled, ReadyReasons, DatabaseReasons
<1>8. CASE ApplyCluster(p)
  BY <1>8, <1>a, <1>c DEF ApplyCluster, DatabaseReasons
<1>9. CASE ReconcileCache(p)
  BY <1>9 DEF ReconcileCache
<1>10. CASE ApplyService(p)
  BY <1>10 DEF ApplyService
<1>11. CASE ApplyDeployment(p)
  <2>1. \E r \in ReadyReasons : work' = [work EXCEPT ![p] = SetReady(work[p], r)]
    BY <1>11 DEF ApplyDeployment, ReadyReasons
  <2> QED
    BY <1>11, <2>1, <1>a, <1>b DEF ApplyDeployment
<1>12. CASE PatchStatus(p)
  <2>1. work' = [work EXCEPT ![p] = NoInstance]
    BY <1>12 DEF PatchStatus, EndPass
  <2>2. inst'.uid = inst.uid /\ inst'.spec = inst.spec
    BY <1>12, <1>a DEF PatchStatus, Instance
  <2> QED
    BY <1>12, <2>1, <2>2, <1>a DEF PatchStatus
<1>13. CASE PatchStatusNotFound(p)
  BY <1>13, <1>a DEF PatchStatusNotFound, EndPass
<1> QED
  BY <1>1, <1>2, <1>3, <1>4, <1>5, <1>6, <1>7, <1>8, <1>9, <1>10, <1>11,
     <1>12, <1>13 DEF OperatorStep

\* The placeholder of a pass that is over asks for nothing.
LEMMA NoInstanceRecorded ==
  ASSUME NEW i, i = NoInstance
  PROVE  DeletionPolicyOrDefault(i.spec) # "Delete"
BY NoInstanceFacts DEF DeletionPolicyOrDefault

\* What a pass writes, it writes for a recorded instance.
LEMMA PassOwnership ==
  ASSUME OwnershipInv, NEW p \in Operators, OperatorStep(p)
  PROVE  OwnedOnlyUnderDelete' /\ DeleteRecorded'
<1> USE DEF objVars, histVars
<1>a. TypeOK /\ OwnedOnlyUnderDelete /\ DeleteRecorded /\ everDelete' = everDelete
  BY PassCopies DEF OwnershipInv
<1>b. /\ \A s \in Secrets : s \in Objects
      /\ \A v \in Claims : v \in Objects
      /\ "db" \in Objects
      /\ \A c \in CacheParts : c \in Objects
      /\ "service" \in Objects /\ "deployment" \in Objects
  BY ListFacts
<1>c. /\ \A c \in CacheParts : c \notin Stateful
      /\ "service" \notin Stateful /\ "deployment" \notin Stateful
  BY ClaimFacts DEF CacheParts, Stateful, Secrets, VolumeNames
<1>d. StepType
  BY <1>a DEF TypeOK
<1>1. DeleteRecorded'
  BY <1>a, PassCopies, NoInstanceRecorded DEF DeleteRecorded, Recorded
<1>2. OwnedOnlyUnderDelete'
  <2>1. CASE UNCHANGED owner
    BY <2>1, <1>a DEF OwnedOnlyUnderDelete
  <2>2. CASE CreateSecret(p) \/ PatchSecret(p)
    <3>0. pc[p] \in SecretSteps
      BY <2>2 DEF CreateSecret, PatchSecret, SecretSteps
    <3>1. ThisSecret(p) \in Secrets
      BY <3>0, <1>d, ListFacts DEF ThisSecret, StepType, WithinList
    <3>2. \/ UNCHANGED owner
          \/ \E changed : Write(ThisSecret(p), StatefulOwner(work[p]), changed)
      BY <2>2 DEF CreateSecret, PatchSecret
    <3> QED
      BY <3>1, <3>2, <2>1, <1>a, <1>b, WriteOwnership
  <2>3. CASE ReconcileStorage(p)
    <3>1. Volumes[idx[p]] \in Claims
      BY <2>3, <1>d, ClaimFacts DEF ReconcileStorage, StepType, WithinList
    <3>2. \/ UNCHANGED owner
          \/ \E changed : Write(Volumes[idx[p]], StatefulOwner(work[p]), changed)
      BY <2>3 DEF ReconcileStorage
    <3> QED
      BY <3>1, <3>2, <2>1, <1>a, <1>b, WriteOwnership
  <2>4. CASE ApplyCluster(p)
    BY <2>4, <1>a, <1>b, WriteOwnership DEF ApplyCluster
  <2>5. CASE ReconcileCache(p)
    <3>1. CacheOrder[idx[p]] \in CacheParts
      BY <2>5, <1>d, ListFacts DEF ReconcileCache, StepType, WithinList
    <3> QED
      BY <2>5, <3>1, <1>a, <1>b, <1>c, WriteOwnership DEF ReconcileCache
  <2>6. CASE ApplyService(p)
    BY <2>6, <1>a, <1>b, <1>c, WriteOwnership DEF ApplyService
  <2>7. CASE ApplyDeployment(p)
    BY <2>7, <1>a, <1>b, <1>c, WriteOwnership DEF ApplyDeployment
  <2>8. CASE BeginPass(p) \/ GetSecret(p) \/ ReconcileExternalDatabase(p)
             \/ CnpgInstalled(p) \/ PatchStatus(p) \/ PatchStatusNotFound(p)
    <3>1. UNCHANGED owner
      BY <2>8 DEF BeginPass, GetSecret, ReconcileExternalDatabase, CnpgInstalled,
                  PatchStatus, PatchStatusNotFound
    <3> QED
      BY <3>1, <2>1
  <2> QED
    BY <2>2, <2>3, <2>4, <2>5, <2>6, <2>7, <2>8 DEF OperatorStep
<1> QED
  BY <1>1, <1>2

\* Outside a pass, only the user changes a policy, and then it is recorded.
LEMMA RestOwnership ==
  ASSUME OwnershipInv, Next, ~\E p \in Operators : OperatorStep(p)
  PROVE  OwnedOnlyUnderDelete' /\ DeleteRecorded'
<1> USE DEF apiVars, objVars, envVars, passVars, histVars
<1>a. TypeOK /\ OwnedOnlyUnderDelete /\ DeleteRecorded
      /\ work \in [Operators -> Instance] /\ cache \in [Operators -> Instance]
      /\ inst \in Instance
  BY DEF OwnershipInv, TypeOK, WorkType, InformerType, ApiType
<1>1. ASSUME NEW p \in Operators, ApiError(p)
      PROVE  OwnedOnlyUnderDelete' /\ DeleteRecorded'
  <2>1. \/ work' = [work EXCEPT ![p] = NoInstance]
        \/ work' = [work EXCEPT ![p] = SetReady(work[p], StepReason(pc[p]))]
           /\ StepReason(pc[p]) \in ReadyReasons
    BY <1>1, <1>a DEF ApiError, Stop, EndPass, StepReason, ReadyReasons, TypeOK, StepType, Steps
  <2>2. \A q \in Operators :
          \/ work'[q] = NoInstance
          \/ work'[q].uid = work[q].uid /\ work'[q].spec = work[q].spec
    BY <2>1, <1>a, SetReadyFacts
  <2> QED
    BY <1>1, <2>2, <1>a, NoInstanceRecorded
    DEF ApiError, OwnedOnlyUnderDelete, DeleteRecorded, Recorded
<1>2. ASSUME NEW p \in Operators, Restart(p) \/ Observe(p) \/ Resync(p)
      PROVE  OwnedOnlyUnderDelete' /\ DeleteRecorded'
  <2>1. /\ \A q \in Operators : work'[q] = NoInstance \/ work'[q] = work[q]
        /\ \A q \in Operators : cache'[q] = inst \/ cache'[q] = cache[q]
        /\ inst' = inst /\ everDelete' = everDelete /\ owner' = owner
    BY <1>2, <1>a DEF Restart, Observe, Resync, EndPass
  <2> QED
    BY <2>1, <1>a, NoInstanceRecorded DEF OwnedOnlyUnderDelete, DeleteRecorded, Recorded
<1>3. ASSUME NEW spec \in Specs, CreateInstance(spec) \/ EditSpec(spec)
      PROVE  OwnedOnlyUnderDelete' /\ DeleteRecorded'
  <2>1. RecordPolicy(inst') /\ cache' = cache /\ work' = work /\ owner' = owner
    BY <1>3 DEF CreateInstance, EditSpec
  <2>2. everDelete \subseteq everDelete'
        /\ (DeletionPolicyOrDefault(inst'.spec) = "Delete" => inst'.uid \in everDelete')
    BY <2>1 DEF RecordPolicy
  <2> QED
    BY <2>1, <2>2, <1>a DEF OwnedOnlyUnderDelete, DeleteRecorded, Recorded
<1>4. CASE DeleteInstance \/ FinishDeletion
  BY <1>4, <1>a, NoInstanceRecorded
  DEF DeleteInstance, FinishDeletion, DropInstance, OwnedOnlyUnderDelete,
      DeleteRecorded, Recorded
<1>7. CASE DeleteInForeground
  <2>1. /\ inst'.uid = inst.uid /\ inst'.spec = inst.spec
        /\ cache' = cache /\ work' = work /\ owner' = owner
        /\ everDelete' = everDelete
    BY <1>7, <1>a DEF DeleteInForeground, Instance
  <2> QED
    BY <2>1, <1>a DEF OwnedOnlyUnderDelete, DeleteRecorded, Recorded
<1>5. ASSUME NEW o \in Objects, DropChild(o) \/ GarbageCollect(o)
      PROVE  OwnedOnlyUnderDelete' /\ DeleteRecorded'
  <2>1. owner' = [owner EXCEPT ![o] = 0] /\ inst' = inst /\ cache' = cache
        /\ work' = work /\ everDelete' = everDelete
    BY <1>5 DEF DropChild, GarbageCollect, Remove
  <2> QED
    BY <2>1, <1>a DEF OwnedOnlyUnderDelete, DeleteRecorded, Recorded, TypeOK, ObjectType, Objects
<1>6. CASE InstallCNPG \/ ChangeExternalSecret \/ RollOut \/ PodReady \/ PodFail
  <2>1. owner' = owner /\ inst' = inst /\ cache' = cache /\ work' = work
        /\ everDelete' = everDelete
    BY <1>6 DEF InstallCNPG, ChangeExternalSecret, RollOut, PodReady, PodFail, SetPod
  <2> QED
    BY <2>1, <1>a DEF OwnedOnlyUnderDelete, DeleteRecorded, Recorded
<1> QED
  BY <1>1, <1>2, <1>3, <1>4, <1>5, <1>6, <1>7, DroppableAssumption
  DEF Next, User, Cluster

\* OwnershipInv holds at first and is kept by every step.
LEMMA OwnershipInductive ==
  /\ Init => OwnershipInv
  /\ OwnershipInv /\ [Next]_vars => OwnershipInv'
<1>1. Init => OwnershipInv
  <2> SUFFICES ASSUME Init PROVE OwnershipInv
    OBVIOUS
  <2>1. OwnedOnlyUnderDelete
    BY DEF Init, OwnedOnlyUnderDelete, Objects
  <2>2. DeleteRecorded
    BY NoInstanceRecorded DEF Init, DeleteRecorded, Recorded
  <2> QED
    BY <2>1, <2>2, InitType DEF OwnershipInv
<1>2. ASSUME OwnershipInv, [Next]_vars PROVE OwnershipInv'
  <2>1. TypeOK'
    BY <1>2, NextType DEF OwnershipInv
  <2>2. OwnedOnlyUnderDelete' /\ DeleteRecorded'
    <3>1. CASE Next
      BY <1>2, <3>1, PassOwnership, RestOwnership
    <3>2. CASE UNCHANGED vars
      BY <1>2, <3>2
      DEF vars, apiVars, objVars, passVars, histVars, OwnershipInv,
          OwnedOnlyUnderDelete, DeleteRecorded, Recorded
    <3> QED
      BY <1>2, <3>1, <3>2
  <2> QED
    BY <2>1, <2>2 DEF OwnershipInv
<1> QED
  BY <1>1, <1>2

(***************************************************************************)
(* The deletion policy, whatever the interleaving: a volume, the database  *)
(* or a generated secret is owned only by an instance that asked for       *)
(* Delete (applyStateful, ensureGeneratedSecret, reconcileSecretOwnership).*)
(***************************************************************************)
THEOREM DeletionPolicyRespected == Spec => []OwnedOnlyUnderDelete
<1>1. OwnershipInv => OwnedOnlyUnderDelete
  BY DEF OwnershipInv
<1> QED
  BY <1>1, OwnershipInductive, PTL DEF Spec

-----------------------------------------------------------------------------
(***************************************************************************)
(* What is written stays.                                                  *)
(***************************************************************************)

\* A step of a pass deletes nothing, shrinks no volume, overwrites no secret.
LEMMA PassKeepsData ==
  ASSUME TypeOK, NEW p \in Operators, OperatorStep(p)
  PROVE  /\ exists \subseteq exists'
         /\ \A s \in Secrets \cap exists : key'[s] = key[s]
         /\ \A v \in Claims : size'[v] >= size[v]
<1> USE DEF objVars
<1>a. /\ key \in [Secrets -> SUBSET Keys] /\ size \in [Claims -> Nat] /\ StepType
      /\ work[p] \in Instance
  BY DEF TypeOK, ObjectType, WorkType
<1>1. CASE CreateSecret(p)
  <2>1. exists \subseteq exists' /\ size' = size
    BY <1>1 DEF CreateSecret, Write
  <2>2. \/ UNCHANGED key
        \/ ThisSecret(p) \notin exists /\ \E k : key' = [key EXCEPT ![ThisSecret(p)] = k]
    BY <1>1 DEF CreateSecret
  <2> QED
    BY <2>1, <2>2, <1>a
<1>2. CASE PatchSecret(p)
  BY <1>2, <1>a DEF PatchSecret, Write
<1>3. CASE ReconcileStorage(p)
  <2> DEFINE v == Volumes[idx[p]]
             want == SizeOrDefault(work[p].spec, v)
  <2>1. v \in Claims /\ want \in Nat
    BY <1>3, <1>a, ClaimFacts, BuilderFacts DEF ReconcileStorage, StepType, WithinList, Instance
  <2>2. exists \subseteq exists' /\ key' = key
        /\ (size' = size \/ (size[v] <= want /\ size' = [size EXCEPT ![v] = want]))
    BY <1>3 DEF ReconcileStorage, Write
  <2> QED
    BY <2>1, <2>2, <1>a
<1>4. CASE \/ ApplyCluster(p) \/ ReconcileCache(p) \/ ApplyService(p) \/ ApplyDeployment(p)
  BY <1>4, <1>a DEF ApplyCluster, ReconcileCache, ApplyService, ApplyDeployment, Write
<1>5. CASE \/ BeginPass(p) \/ GetSecret(p) \/ ReconcileExternalDatabase(p)
           \/ CnpgInstalled(p) \/ PatchStatus(p) \/ PatchStatusNotFound(p)
  <2>1. UNCHANGED objVars
    BY <1>5 DEF BeginPass, GetSecret, ReconcileExternalDatabase, CnpgInstalled,
                PatchStatus, PatchStatusNotFound
  <2> QED
    BY <2>1, <1>a
<1> QED
  BY <1>1, <1>2, <1>3, <1>4, <1>5 DEF OperatorStep

\* Only the user and the garbage collector delete, and the latter only what
\* an instance that asked for Delete left behind.
LEMMA StepKeepsData ==
  ASSUME OwnershipInv, [Next]_vars
  PROVE  StatefulDataStep \/ UNCHANGED vars
<1> USE DEF objVars
<1>a. /\ TypeOK /\ key \in [Secrets -> SUBSET Keys] /\ size \in [Claims -> Nat]
      /\ owner \in [Objects -> Nat]
  BY DEF OwnershipInv, TypeOK, ObjectType
<1>1. ASSUME NEW p \in Operators, OperatorStep(p) PROVE StatefulDataStep
  BY <1>1, <1>a, PassKeepsData DEF StatefulDataStep
<1>2. CASE UNCHANGED objVars
  BY <1>2, <1>a DEF StatefulDataStep
<1>3. ASSUME NEW o \in Objects, GarbageCollect(o) PROVE StatefulDataStep
  <2>1. /\ owner[o] # 0 /\ (owner[o] # inst.uid \/ deleting)
        /\ exists' = exists \ {o}
        /\ \A s \in Secrets : s # o => key'[s] = key[s]
        /\ \A v \in Claims : v # o => size'[v] = size[v]
    BY <1>3 DEF GarbageCollect, Remove
  <2>2. o \in Stateful => owner[o] \in everDelete
    BY <2>1 DEF OwnershipInv, OwnedOnlyUnderDelete
  <2> QED
    BY <2>1, <2>2, <1>a DEF StatefulDataStep
<1>4. ASSUME NEW o \in Droppable, DropChild(o) PROVE StatefulDataStep
  <2>1. /\ exists' = exists \ {o}
        /\ \A s \in Secrets : s # o => key'[s] = key[s]
        /\ \A v \in Claims : v # o => size'[v] = size[v]
    BY <1>4 DEF DropChild, Remove
  <2> QED
    BY <2>1, <1>a DEF StatefulDataStep
<1>5. CASE RollOut \/ PodReady \/ PodFail
  BY <1>5, <1>a DEF RollOut, PodReady, PodFail, SetPod, StatefulDataStep
<1>6. ASSUME NEW p \in Operators, ApiError(p) \/ Restart(p) \/ Observe(p) \/ Resync(p)
      PROVE  UNCHANGED objVars
  BY <1>6 DEF ApiError, Restart, Observe, Resync
<1>7. ASSUME NEW spec \in Specs, CreateInstance(spec) \/ EditSpec(spec)
      PROVE  UNCHANGED objVars
  BY <1>7 DEF CreateInstance, EditSpec
<1>8. CASE DeleteInstance \/ DeleteInForeground \/ FinishDeletion
           \/ InstallCNPG \/ ChangeExternalSecret
  BY <1>2, <1>8 DEF DeleteInstance, DeleteInForeground, FinishDeletion, DropInstance,
     InstallCNPG, ChangeExternalSecret
<1> QED
  BY <1>1, <1>2, <1>3, <1>4, <1>5, <1>6, <1>7, <1>8 DEF Next, User, Cluster

(***************************************************************************)
(* The user's data: no step of any number of operators, however stale,     *)
(* interrupted or repeated its pass, shrinks a volume or changes the value *)
(* of a generated secret, and what disappears without the user deleting it *)
(* belonged to an instance that asked for Delete and is gone or going.     *)
(***************************************************************************)
THEOREM UserDataKept == Spec => StatefulDataKept
<1>1. Spec => []OwnershipInv
  BY OwnershipInductive, PTL DEF Spec
<1>2. OwnershipInv /\ [Next]_vars => [StatefulDataStep]_vars
  BY StepKeepsData
<1> QED
  BY <1>1, <1>2, PTL DEF Spec, StatefulDataKept

-----------------------------------------------------------------------------
(***************************************************************************)
(* The order of the steps.  WorkloadAfterDependencies becomes inductive    *)
(* with what a pass has behind it at each step: every earlier element of   *)
(* the list it walks and every earlier step's objects have been written.   *)
(***************************************************************************)
Progress(p) ==
  /\ pc[p] \in SecretSteps =>
       \A j \in 1..Len(SecretOrder) :
         j < idx[p] /\ Generates(work[p].spec, SecretOrder[j]) => SecretOrder[j] \in ever
  /\ pc[p] \notin SecretSteps \cup {"idle", "status"} =>
       \A s \in Secrets : Generates(work[p].spec, s) => s \in ever
  /\ pc[p] = "storage" =>
       \A j \in 1..Len(Volumes) : j < idx[p] => Volumes[j] \in ever
  /\ pc[p] \in {"database", "cluster", "cache", "service", "deployment"} =>
       Claims \subseteq ever
  /\ pc[p] \in {"cache", "service", "deployment"} =>
       IsExternal(work[p].spec) \/ "db" \in ever
  /\ pc[p] = "cache" =>
       \A j \in 1..Len(CacheOrder) : j < idx[p] => CacheOrder[j] \in ever
  /\ pc[p] \in {"service", "deployment"} =>
       ~IsManaged(work[p].spec) \/ CacheParts \subseteq ever

DependencyInv ==
  /\ TypeOK
  /\ exists \subseteq ever
  /\ WorkloadAfterDependencies
  /\ \A p \in Operators : Progress(p)

\* A pass that does not move keeps its progress, one that is over has none.
LEMMA ProgressKept ==
  ASSUME NEW q \in Operators, Progress(q), ever \subseteq ever',
         \/ pc'[q] = pc[q] /\ idx'[q] = idx[q] /\ work'[q].spec = work[q].spec
         \/ pc'[q] \in {"idle", "status"}
  PROVE  Progress(q)'
<1>1. CASE pc'[q] = pc[q] /\ idx'[q] = idx[q] /\ work'[q].spec = work[q].spec
  BY <1>1 DEF Progress
<1>2. CASE pc'[q] \in {"idle", "status"}
  BY <1>2 DEF Progress, SecretSteps
<1> QED
  BY <1>1, <1>2

\* What follows the last element of each list.
LEMMA ListsCover ==
  /\ \A s \in Secrets : \E j \in 1..Len(SecretOrder) : s = SecretOrder[j]
  /\ \A v \in Claims : \E j \in 1..Len(Volumes) : v = Volumes[j]
  /\ \A c \in CacheParts : \E j \in 1..Len(CacheOrder) : c = CacheOrder[j]
<1>1. \A s \in Secrets : \E j \in 1..Len(SecretOrder) : s = SecretOrder[j]
  <2>1. SecretOrder[1] = "secret-key" /\ SecretOrder[2] = "admin" /\ 1 \in 1..2 /\ 2 \in 1..2
    BY DEF SecretOrder
  <2> QED
    BY <2>1, ListFacts DEF Secrets
<1>2. \A c \in CacheParts : \E j \in 1..Len(CacheOrder) : c = CacheOrder[j]
  <2>1. /\ CacheOrder[1] = "valkey-deployment" /\ CacheOrder[2] = "valkey-service"
        /\ CacheOrder[3] = "valkey-pvc" /\ 1 \in 1..3 /\ 2 \in 1..3 /\ 3 \in 1..3
    BY DEF CacheOrder
  <2> QED
    BY <2>1, ListFacts DEF CacheParts
<1>3. \A v \in Claims : \E j \in 1..Len(Volumes) : v = Volumes[j]
  BY DEF Claims
<1> QED
  BY <1>1, <1>2, <1>3

\* A step of a pass touches no other pass, and forgets nothing written.
LEMMA PassLocal ==
  ASSUME DependencyInv, NEW p \in Operators, OperatorStep(p)
  PROVE  /\ ever \subseteq ever' /\ exists' \subseteq ever'
         /\ \A q \in Operators : q # p =>
              pc'[q] = pc[q] /\ idx'[q] = idx[q] /\ work'[q] = work[q]
<1> USE DEF objVars, passVars, histVars
<1>a. /\ exists \subseteq ever /\ pc \in [Operators -> Steps] /\ idx \in [Operators -> Nat]
      /\ work \in [Operators -> Instance]
  BY DEF DependencyInv, TypeOK, StepType, WorkType
<1>1. ever \subseteq ever' /\ exists' \subseteq ever'
  <2>1. CASE \E o, u, changed : Write(o, u, changed)
    BY <2>1, <1>a DEF Write
  <2>2. CASE exists' = exists /\ ever' = ever
    BY <2>2, <1>a
  <2> QED
    BY <2>1, <2>2
    DEF OperatorStep, BeginPass, GetSecret, CreateSecret, PatchSecret, ReconcileStorage,
        ReconcileExternalDatabase, CnpgInstalled, ApplyCluster, ReconcileCache,
        ApplyService, ApplyDeployment, PatchStatus, PatchStatusNotFound
<1>2. /\ pc' = pc \/ \E x : pc' = [pc EXCEPT ![p] = x]
      /\ idx' = idx \/ \E x : idx' = [idx EXCEPT ![p] = x]
      /\ work' = work \/ \E x : work' = [work EXCEPT ![p] = x]
  <2> USE DEF Goto, Advance, NextSecret, Stop, EndPass
  <2>1. CASE BeginPass(p) \/ GetSecret(p)
    BY <2>1 DEF BeginPass, GetSecret
  <2>2. CASE CreateSecret(p) \/ PatchSecret(p)
    BY <2>2 DEF CreateSecret, PatchSecret
  <2>3. CASE ReconcileStorage(p)
    BY <2>3 DEF ReconcileStorage
  <2>4. CASE ReconcileExternalDatabase(p) \/ CnpgInstalled(p) \/ ApplyCluster(p)
    BY <2>4 DEF ReconcileExternalDatabase, CnpgInstalled, ApplyCluster
  <2>5. CASE ReconcileCache(p) \/ ApplyService(p) \/ ApplyDeployment(p)
    BY <2>5 DEF ReconcileCache, ApplyService, ApplyDeployment
  <2>6. CASE PatchStatus(p) \/ PatchStatusNotFound(p)
    BY <2>6 DEF PatchStatus, PatchStatusNotFound
  <2> QED
    BY <2>1, <2>2, <2>3, <2>4, <2>5, <2>6 DEF OperatorStep
<1> QED
  BY <1>1, <1>2, <1>a

\* Within a pass, the spec it works from is the one it read.
LEMMA PassSpecKept ==
  ASSUME TypeOK, NEW p \in Operators, OperatorStep(p), pc'[p] # "idle", pc[p] # "idle"
  PROVE  work'[p].spec = work[p].spec
<1>a. work \in [Operators -> Instance] /\ work[p] \in Instance /\ pc \in [Operators -> Steps]
  BY DEF TypeOK, WorkType, StepType
<1>1. CASE work' = work
  BY <1>1
<1>2. ASSUME NEW i \in Instance, i.spec = work[p].spec, NEW r \in ReadyReasons,
             work' = [work EXCEPT ![p] = SetReady(i, r)]
      PROVE  work'[p].spec = work[p].spec
  BY <1>2, <1>a, SetReadyFacts
<1>3. \A d \in DatabaseReasons :
        /\ SetDatabaseReady(work[p], d) \in Instance
        /\ SetDatabaseReady(work[p], d).spec = work[p].spec
  BY <1>a, SetDatabaseReadyFacts
<1>4. CASE CreateSecret(p) \/ PatchSecret(p) \/ ReconcileStorage(p)
  <2>1. work' = work \/ \E r \in ReadyReasons : work' = [work EXCEPT ![p] = SetReady(work[p], r)]
    BY <1>4 DEF CreateSecret, PatchSecret, ReconcileStorage, Stop, ReadyReasons
  <2> QED
    BY <2>1, <1>1, <1>2, <1>a
<1>5. CASE ReconcileExternalDatabase(p) \/ CnpgInstalled(p) \/ ApplyCluster(p)
  <2>1. \/ work' = work
        \/ \E d \in DatabaseReasons : work' = [work EXCEPT ![p] = SetDatabaseReady(work[p], d)]
        \/ \E d \in DatabaseReasons, r \in ReadyReasons :
             work' = [work EXCEPT ![p] = SetReady(SetDatabaseReady(work[p], d), r)]
    BY <1>5 DEF ReconcileExternalDatabase, CnpgInstalled, ApplyCluster, Stop,
                ReadyReasons, DatabaseReasons
  <2> QED
    BY <2>1, <1>1, <1>2, <1>3, <1>a
<1>6. CASE ApplyDeployment(p)
  <2>1. \E r \in ReadyReasons : work' = [work EXCEPT ![p] = SetReady(work[p], r)]
    BY <1>6 DEF ApplyDeployment, ReadyReasons
  <2> QED
    BY <2>1, <1>2, <1>a
<1>7. CASE GetSecret(p) \/ ReconcileCache(p) \/ ApplyService(p)
  BY <1>1, <1>7 DEF GetSecret, ReconcileCache, ApplyService
<1>8. CASE BeginPass(p) \/ PatchStatus(p) \/ PatchStatusNotFound(p)
  BY <1>8, <1>a DEF BeginPass, PatchStatus, PatchStatusNotFound, EndPass, Goto
<1> QED
  BY <1>4, <1>5, <1>6, <1>7, <1>8 DEF OperatorStep

\* The pass that takes a step has, at its next step, the objects that step
\* relies on behind it.
LEMMA PassProgress ==
  ASSUME DependencyInv, NEW p \in Operators, OperatorStep(p)
  PROVE  Progress(p)'
<1> USE DEF objVars, passVars, histVars
<1>a. /\ Progress(p) /\ exists \subseteq ever
      /\ pc \in [Operators -> Steps] /\ idx \in [Operators -> Nat]
      /\ work \in [Operators -> Instance] /\ WithinList(p)
  BY DEF DependencyInv, TypeOK, StepType, WorkType
<1>b. ever \subseteq ever'
  BY PassLocal
<1>c. ASSUME NEW o, NEW u, NEW changed, Write(o, u, changed) PROVE o \in ever'
  BY <1>c DEF Write
<1>d. ASSUME work' = work, pc[p] \in SecretSteps,
             Generates(work[p].spec, ThisSecret(p)) => ThisSecret(p) \in ever',
             \/ pc'[p] \in SecretSteps /\ idx'[p] = idx[p] + 1
             \/ pc'[p] = "storage" /\ idx'[p] = 1 /\ ~(idx[p] < Len(SecretOrder))
      PROVE  Progress(p)'
  <2>1. \A j \in 1..Len(SecretOrder) :
          j <= idx[p] /\ Generates(work[p].spec, SecretOrder[j]) => SecretOrder[j] \in ever'
    BY <1>a, <1>b, <1>d, ListFacts DEF Progress, ThisSecret
  <2>2. CASE pc'[p] \in SecretSteps /\ idx'[p] = idx[p] + 1
    BY <2>1, <2>2, <1>a, <1>d, ListFacts DEF Progress, SecretSteps
  <2>3. CASE pc'[p] = "storage" /\ idx'[p] = 1 /\ ~(idx[p] < Len(SecretOrder))
    <3>1. \A s \in Secrets : Generates(work[p].spec, s) => s \in ever'
      BY <2>1, <2>3, <1>a, ListFacts, ListsCover
    <3> QED
      BY <2>3, <3>1, <1>d, ClaimFacts DEF Progress, SecretSteps
  <2> QED
    BY <1>d, <2>2, <2>3
<1>1. CASE BeginPass(p)
  <2>1. \/ pc' = pc /\ idx' = idx /\ work' = work
        \/ pc'[p] = "get-secret" /\ idx'[p] = 1
    BY <1>1, <1>a DEF BeginPass, Goto
  <2>2. CASE pc' = pc /\ idx' = idx /\ work' = work
    BY <2>2, <1>a, <1>b, ProgressKept
  <2>3. CASE pc'[p] = "get-secret" /\ idx'[p] = 1
    BY <2>3, ListFacts DEF Progress, SecretSteps
  <2> QED
    BY <2>1, <2>2, <2>3
<1>2. CASE GetSecret(p)
  <2>1. work' = work /\ pc[p] \in SecretSteps
    BY <1>2 DEF GetSecret, SecretSteps
  <2>2. CASE Advance(p, SecretOrder, "storage")
    <3>1. Generates(work[p].spec, ThisSecret(p)) => ThisSecret(p) \in ever'
      <4>1. CASE ThisSecret(p) \in exists
        BY <4>1, <1>a, <1>b
      <4>2. CASE ThisSecret(p) \notin exists
        <5>1. ~Generates(work[p].spec, ThisSecret(p))
          BY <1>2, <2>2, <4>2, <1>a, ListFacts DEF GetSecret, Advance, Goto, Steps
        <5> QED
          BY <5>1
      <4> QED
        BY <4>1, <4>2
    <3>2. \/ pc'[p] \in SecretSteps /\ idx'[p] = idx[p] + 1
          \/ pc'[p] = "storage" /\ idx'[p] = 1 /\ ~(idx[p] < Len(SecretOrder))
      BY <2>1, <2>2, <1>a DEF Advance, Goto
    <3> QED
      BY <2>1, <3>1, <3>2, <1>d
  <2>3. CASE pc'[p] \in SecretSteps /\ idx' = idx
    BY <2>1, <2>3, <1>a, <1>b DEF Progress, SecretSteps
  <2> QED
    BY <1>2, <2>2, <2>3, <1>a DEF GetSecret, SecretSteps
<1>3. CASE CreateSecret(p) \/ PatchSecret(p)
  <2>1. pc[p] \in SecretSteps
    BY <1>3 DEF CreateSecret, PatchSecret, SecretSteps
  <2>2. \/ ThisSecret(p) \in ever' /\ NextSecret(p) /\ work' = work
        \/ pc'[p] = "status"
    BY <1>3, <1>a, <1>c DEF CreateSecret, PatchSecret, Stop, Goto
  <2>3. CASE ThisSecret(p) \in ever' /\ NextSecret(p) /\ work' = work
    <3>1. \/ pc'[p] \in SecretSteps /\ idx'[p] = idx[p] + 1
          \/ pc'[p] = "storage" /\ idx'[p] = 1 /\ ~(idx[p] < Len(SecretOrder))
      BY <2>3, <1>a DEF NextSecret, Goto, SecretSteps
    <3> QED
      BY <2>1, <2>3, <3>1, <1>d
  <2>4. CASE pc'[p] = "status"
    BY <2>4, <1>a, <1>b, ProgressKept
  <2> QED
    BY <2>2, <2>3, <2>4
<1>4. CASE ReconcileStorage(p)
  <2>1. pc[p] = "storage"
    BY <1>4 DEF ReconcileStorage
  <2>2. \/ Volumes[idx[p]] \in ever' /\ Advance(p, Volumes, "database") /\ work' = work
        \/ pc'[p] = "status"
    BY <1>4, <1>a, <1>c DEF ReconcileStorage, Stop, Goto
  <2>3. CASE Volumes[idx[p]] \in ever' /\ Advance(p, Volumes, "database") /\ work' = work
    <3>1. \A j \in 1..Len(Volumes) : j <= idx[p] => Volumes[j] \in ever'
      BY <2>1, <2>3, <1>a, <1>b, ClaimFacts DEF Progress
    <3>2. \A s \in Secrets : Generates(work[p].spec, s) => s \in ever'
      BY <2>1, <1>a, <1>b DEF Progress, SecretSteps
    <3>3. CASE idx[p] < Len(Volumes)
      <4>1. pc'[p] = "storage" /\ idx'[p] = idx[p] + 1
        BY <2>1, <2>3, <3>3, <1>a DEF Advance
      <4> QED
        BY <2>3, <3>1, <3>2, <4>1, <1>a, ClaimFacts DEF Progress, SecretSteps
    <3>4. CASE ~(idx[p] < Len(Volumes))
      <4>1. pc'[p] = "database" /\ idx'[p] = 1
        BY <2>3, <3>4, <1>a DEF Advance, Goto
      <4>2. Claims \subseteq ever'
        BY <3>1, <3>4, <1>a, <2>1, ClaimFacts, ListsCover DEF WithinList
      <4> QED
        BY <2>3, <3>2, <4>1, <4>2 DEF Progress, SecretSteps
    <3> QED
      BY <3>3, <3>4
  <2>4. CASE pc'[p] = "status"
    BY <2>4, <1>a, <1>b, ProgressKept
  <2> QED
    BY <2>2, <2>3, <2>4
<1>5. CASE ReconcileExternalDatabase(p)
  <2>1. \/ pc'[p] \in {"cache", "service"} /\ idx'[p] = 1
           /\ (pc'[p] = "service" => ~IsManaged(work[p].spec))
        \/ pc'[p] = "status"
    BY <1>5, <1>a DEF ReconcileExternalDatabase, AfterDatabase, Stop, Goto
  <2>2. pc[p] = "database" /\ IsExternal(work[p].spec)
    BY <1>5 DEF ReconcileExternalDatabase
  <2>3. CASE pc'[p] \in {"cache", "service"}
    <3>1. work'[p].spec = work[p].spec
      BY <2>3, PassSpecKept, <2>2 DEF DependencyInv
    <3> QED
      BY <2>1, <2>2, <2>3, <3>1, <1>a, <1>b, ListFacts DEF Progress, SecretSteps
  <2>4. CASE pc'[p] = "status"
    BY <2>4, <1>a, <1>b, ProgressKept
  <2> QED
    BY <2>1, <2>3, <2>4
<1>6. CASE CnpgInstalled(p)
  <2>1. \/ pc'[p] = "cluster" /\ idx'[p] = 1 /\ work' = work
        \/ pc'[p] = "status"
    BY <1>6, <1>a DEF CnpgInstalled, Stop, Goto
  <2>2. pc[p] = "database"
    BY <1>6 DEF CnpgInstalled
  <2>3. CASE pc'[p] = "cluster" /\ idx'[p] = 1 /\ work' = work
    BY <2>2, <2>3, <1>a, <1>b DEF Progress, SecretSteps
  <2>4. CASE pc'[p] = "status"
    BY <2>4, <1>a, <1>b, ProgressKept
  <2> QED
    BY <2>1, <2>3, <2>4
<1>7. CASE ApplyCluster(p)
  <2>1. /\ pc[p] = "cluster" /\ "db" \in ever'
        /\ pc'[p] \in {"cache", "service"} /\ idx'[p] = 1
        /\ (pc'[p] = "service" => ~IsManaged(work[p].spec))
    BY <1>7, <1>a, <1>c DEF ApplyCluster, AfterDatabase, Goto
  <2>2. work'[p].spec = work[p].spec
    BY <2>1, PassSpecKept DEF DependencyInv
  <2> QED
    BY <2>1, <2>2, <1>a, <1>b, ListFacts DEF Progress, SecretSteps
<1>8. CASE ReconcileCache(p)
  <2>1. /\ pc[p] = "cache" /\ CacheOrder[idx[p]] \in ever' /\ work' = work
        /\ Advance(p, CacheOrder, "service")
    BY <1>8, <1>c DEF ReconcileCache
  <2>2. \A j \in 1..Len(CacheOrder) : j <= idx[p] => CacheOrder[j] \in ever'
    BY <2>1, <1>a, <1>b, ListFacts DEF Progress
  <2>3. CASE idx[p] < Len(CacheOrder)
    <3>1. pc'[p] = "cache" /\ idx'[p] = idx[p] + 1
      BY <2>1, <2>3, <1>a DEF Advance
    <3> QED
      BY <2>1, <2>2, <3>1, <1>a, <1>b, ListFacts DEF Progress, SecretSteps
  <2>4. CASE ~(idx[p] < Len(CacheOrder))
    <3>1. pc'[p] = "service" /\ idx'[p] = 1
      BY <2>1, <2>4, <1>a DEF Advance, Goto
    <3>2. CacheParts \subseteq ever'
      BY <2>1, <2>2, <2>4, <1>a, ListFacts, ListsCover DEF WithinList
    <3> QED
      BY <2>1, <3>1, <3>2, <1>a, <1>b DEF Progress, SecretSteps
  <2> QED
    BY <2>3, <2>4
<1>9. CASE ApplyService(p)
  <2>1. pc[p] = "service" /\ pc'[p] = "deployment" /\ work' = work
    BY <1>9, <1>a DEF ApplyService, Goto
  <2> QED
    BY <2>1, <1>a, <1>b DEF Progress, SecretSteps
<1>10. CASE ApplyDeployment(p) \/ PatchStatus(p) \/ PatchStatusNotFound(p)
  <2>1. pc'[p] \in {"idle", "status"}
    BY <1>10, <1>a DEF ApplyDeployment, PatchStatus, PatchStatusNotFound, EndPass, Goto
  <2> QED
    BY <2>1, <1>a, <1>b, ProgressKept
<1> QED
  BY <1>1, <1>2, <1>3, <1>4, <1>5, <1>6, <1>7, <1>8, <1>9, <1>10 DEF OperatorStep

\* ApplyDeployment stores its template with everything it needs behind it.
LEMMA PassDependencies ==
  ASSUME DependencyInv, NEW p \in Operators, OperatorStep(p)
  PROVE  /\ exists' \subseteq ever' /\ WorkloadAfterDependencies'
         /\ \A q \in Operators : Progress(q)'
<1> USE DEF objVars
<1>1. ever \subseteq ever' /\ exists' \subseteq ever'
  BY PassLocal
<1>2. \A q \in Operators : Progress(q)'
  BY <1>1, PassLocal, PassProgress, ProgressKept DEF DependencyInv
<1>3. CASE ApplyDeployment(p)
  <2>1. pc[p] = "deployment" /\ template' = {Template(work[p].spec)}
    BY <1>3 DEF ApplyDeployment
  <2>2. Needs(Template(work[p].spec)) \subseteq ever
    <3>1. Progress(p)
      BY DEF DependencyInv
    <3> QED
      BY <2>1, <3>1 DEF Progress, Needs, Template, SecretSteps
  <2> QED
    BY <1>1, <1>2, <2>1, <2>2 DEF WorkloadAfterDependencies, Needs
<1>4. CASE template' = template
  BY <1>1, <1>2, <1>4 DEF DependencyInv, WorkloadAfterDependencies, Needs
<1>5. OperatorStep(p) => ApplyDeployment(p) \/ template' = template
  BY DEF OperatorStep, BeginPass, GetSecret, CreateSecret, PatchSecret, ReconcileStorage,
         ReconcileExternalDatabase, CnpgInstalled, ApplyCluster, ReconcileCache,
         ApplyService, PatchStatus, PatchStatusNotFound
<1> QED
  BY <1>3, <1>4, <1>5

\* Every other action stores no template, forgets nothing ever written, and
\* leaves a pass where it is or ends it.
LEMMA RestDependencies ==
  ASSUME DependencyInv, Next, ~\E p \in Operators : OperatorStep(p)
  PROVE  /\ exists' \subseteq ever' /\ WorkloadAfterDependencies'
         /\ \A q \in Operators : Progress(q)'
<1> USE DEF objVars, passVars, histVars
<1>a. /\ exists \subseteq ever /\ pc \in [Operators -> Steps] /\ idx \in [Operators -> Nat]
      /\ work \in [Operators -> Instance]
  BY DEF DependencyInv, TypeOK, StepType, WorkType
<1>b. ASSUME ever' = ever, exists' \subseteq exists, template' \subseteq template,
             \A q \in Operators :
               \/ pc'[q] = pc[q] /\ idx'[q] = idx[q] /\ work'[q] = work[q]
               \/ pc'[q] \in {"idle", "status"}
      PROVE  /\ exists' \subseteq ever' /\ WorkloadAfterDependencies'
             /\ \A q \in Operators : Progress(q)'
  <2>1. WorkloadAfterDependencies'
    BY <1>b DEF DependencyInv, WorkloadAfterDependencies, Needs
  <2>2. \A q \in Operators : Progress(q)'
    BY <1>b, ProgressKept DEF DependencyInv
  <2> QED
    BY <1>a, <1>b, <2>1, <2>2
<1>1. ASSUME NEW p \in Operators, ApiError(p) \/ Restart(p)
      PROVE  /\ exists' \subseteq ever' /\ WorkloadAfterDependencies'
             /\ \A q \in Operators : Progress(q)'
  <2>1. /\ \E x \in {"idle", "status"} : pc' = [pc EXCEPT ![p] = x]
        /\ \E x : idx' = [idx EXCEPT ![p] = x]
        /\ \E x : work' = [work EXCEPT ![p] = x]
        /\ ever' = ever /\ exists' = exists /\ template' = template
    BY <1>1 DEF ApiError, Restart, Stop, EndPass, Goto
  <2> QED
    BY <2>1, <1>a, <1>b
<1>2. ASSUME NEW p \in Operators, Observe(p) \/ Resync(p)
      PROVE  /\ exists' \subseteq ever' /\ WorkloadAfterDependencies'
             /\ \A q \in Operators : Progress(q)'
  BY <1>2, <1>b DEF Observe, Resync
<1>3. ASSUME NEW spec \in Specs, CreateInstance(spec) \/ EditSpec(spec)
      PROVE  /\ exists' \subseteq ever' /\ WorkloadAfterDependencies'
             /\ \A q \in Operators : Progress(q)'
  BY <1>3, <1>b DEF CreateInstance, EditSpec
<1>4. CASE DeleteInstance \/ DeleteInForeground \/ FinishDeletion \/ InstallCNPG
           \/ ChangeExternalSecret \/ RollOut \/ PodReady \/ PodFail
  BY <1>4, <1>b
  DEF DeleteInstance, DeleteInForeground, FinishDeletion, DropInstance, InstallCNPG, ChangeExternalSecret, RollOut, PodReady, PodFail, SetPod
<1>5. ASSUME NEW o, DropChild(o) \/ GarbageCollect(o)
      PROVE  /\ exists' \subseteq ever' /\ WorkloadAfterDependencies'
             /\ \A q \in Operators : Progress(q)'
  BY <1>5, <1>b DEF DropChild, GarbageCollect, Remove
<1> QED
  BY <1>1, <1>2, <1>3, <1>4, <1>5 DEF Next, User, Cluster

\* DependencyInv holds at first and is kept by every step.
LEMMA DependencyInductive ==
  /\ Init => DependencyInv
  /\ DependencyInv /\ [Next]_vars => DependencyInv'
<1>1. ASSUME Init PROVE DependencyInv
  <2>1. \A p \in Operators : pc[p] = "idle"
    BY <1>1 DEF Init
  <2>2. \A p \in Operators : Progress(p)
    BY <2>1 DEF Progress, SecretSteps
  <2> QED
    BY <1>1, <2>2, InitType DEF Init, DependencyInv, WorkloadAfterDependencies
<1>2. ASSUME DependencyInv, [Next]_vars PROVE DependencyInv'
  <2>1. TypeOK'
    BY <1>2, NextType DEF DependencyInv
  <2>2. /\ exists' \subseteq ever' /\ WorkloadAfterDependencies'
        /\ \A q \in Operators : Progress(q)'
    <3>1. CASE Next
      BY <1>2, <3>1, PassDependencies, RestDependencies
    <3>2. CASE UNCHANGED vars
      <4>1. /\ exists' = exists /\ ever' = ever /\ template' = template
            /\ pc' = pc /\ idx' = idx /\ work' = work
        BY <3>2 DEF vars, objVars, passVars, histVars
      <4> QED
        BY <1>2, <4>1 DEF DependencyInv, WorkloadAfterDependencies, Needs, Progress
    <3> QED
      BY <1>2, <3>1, <3>2
  <2> QED
    BY <2>1, <2>2 DEF DependencyInv
<1> QED
  BY <1>1, <1>2

(***************************************************************************)
(* The order of reconcileInstance, for every interleaving, failure and     *)
(* edit in between: the Deployment is never given a template before the    *)
(* claims, secrets, database and cache that template names were written.   *)
(***************************************************************************)
THEOREM DependenciesFirst == Spec => []WorkloadAfterDependencies
<1>1. DependencyInv => WorkloadAfterDependencies
  BY DEF DependencyInv
<1> QED
  BY <1>1, DependencyInductive, PTL DEF Spec
=============================================================================
