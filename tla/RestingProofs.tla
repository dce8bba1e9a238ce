---------------------------- MODULE RestingProofs ----------------------------
(***************************************************************************)
(* Theorems about where Reconciler can come to rest, for every value of    *)
(* its constants and any number of operators at once: the status is then   *)
(* the present instance's own, and the cluster holds what its spec asks    *)
(* for.                                                                    *)
(*                                                                         *)
(* The argument follows a pass.  Behind(p, o) says that p's pass has dealt *)
(* with o; as long as p is not queued again, o is then still as the pass   *)
(* left it, because whoever changes a watched object, the instance or the  *)
(* replica queues every operator.  A pass that gets to its status patch    *)
(* unqueued therefore reports what is still true, and if the patch changes *)
(* nothing, that had already been reported.                                *)
(***************************************************************************)
EXTENDS ReconcilerProofs

\* The owner reference a pass over instance i gives o.
OwnerFor(i, o) == IF o \in Stateful THEN StatefulOwner(i) ELSE AlwaysOwner(i)

\* p's pass has got through every step.
Through(p) ==
  /\ pc[p] = "status"
  /\ work[p].conds.Ready.reason \in {"WorkloadReady", "WorkloadNotReady"}

\* o comes before the position p's step has reached in the list it walks.
PassedInList(p, o, list) == \E j \in 1..Len(list) : j < idx[p] /\ o = list[j]

\* p's pass has dealt with o: written it or, for a generated secret, found
\* nothing to write.
Behind(p, o) ==
  \/ /\ o \in Secrets
     /\ \/ pc[p] \in SecretSteps /\ PassedInList(p, o, SecretOrder)
        \/ pc[p] \in {"storage", "database", "cluster", "cache", "service", "deployment"}
        \/ Through(p)
  \/ /\ o \in Claims
     /\ \/ pc[p] = "storage" /\ PassedInList(p, o, Volumes)
        \/ pc[p] \in {"database", "cluster", "cache", "service", "deployment"}
        \/ Through(p)
  \/ /\ o = "db" /\ ~IsExternal(work[p].spec)
     /\ pc[p] \in {"cache", "service", "deployment"} \/ Through(p)
  \/ /\ o \in CacheParts /\ IsManaged(work[p].spec)
     /\ \/ pc[p] = "cache" /\ PassedInList(p, o, CacheOrder)
        \/ pc[p] \in {"service", "deployment"}
        \/ Through(p)
  \/ o = "service" /\ (pc[p] = "deployment" \/ Through(p))
  \/ o = "deployment" /\ Through(p)

-----------------------------------------------------------------------------
(***************************************************************************)
(* What a step of a pass does, one lemma per question.                     *)
(***************************************************************************)

\* The kinds of object are apart, and all of them are objects.
LEMMA KindFacts ==
  /\ \A o \in Objects :
       \/ o \in Secrets \/ o \in Claims \/ o = "db"
       \/ o \in CacheParts \/ o = "service" \/ o = "deployment"
  /\ \A s \in Secrets : s \in Stateful /\ s \in Objects /\ s \notin Watched
  /\ \A v \in Claims : v \in Stateful /\ v \in Objects /\ v \in Watched /\ v \notin Secrets
  /\ "db" \in Stateful /\ "db" \in Objects /\ "db" \notin Watched /\ "db" \notin Secrets
  /\ \A c \in CacheParts : c \notin Stateful /\ c \in Objects /\ c \in Watched /\ c \notin Secrets
  /\ \A c \in {"service", "deployment"} :
       c \notin Stateful /\ c \in Objects /\ c \in Watched /\ c \notin Secrets
  /\ "deployment" \notin Claims /\ "deployment" \notin CacheParts
BY ClaimFacts
DEF Objects, Stateful, Reproducible, Watched, CacheParts, Secrets, VolumeNames

\* Where a pass is, and what it has read, is its own; a queued name stays
\* queued until a pass begins, and no event is lost.
LEMMA PassFrame ==
  ASSUME TypeOK, NEW p \in Operators, OperatorStep(p)
  PROVE  /\ cache' = cache /\ uids' = uids
         /\ \A q \in Operators : q # p =>
              /\ pc'[q] = pc[q] /\ idx'[q] = idx[q] /\ work'[q] = work[q]
              /\ base'[q] = base[q] /\ again'[q] = again[q]
         /\ \A q \in Operators : q # p \/ pc[p] # "idle" => (queue[q] => queue'[q])
         /\ \A q \in Operators : notify[q] => notify'[q]
<1> USE DEF apiVars, passVars
<1>a. /\ pc \in [Operators -> Steps] /\ idx \in [Operators -> Nat]
      /\ work \in [Operators -> Instance]
      /\ base \in [Operators -> [conds : Conditions, observedGeneration : Nat]]
      /\ again \in [Operators -> BOOLEAN]
      /\ queue \in [Operators -> BOOLEAN] /\ notify \in [Operators -> BOOLEAN]
  BY DEF TypeOK, StepType, WorkType, InformerType
<1>1. CASE BeginPass(p)
  BY <1>1, <1>a DEF BeginPass, Goto
<1>2. CASE GetSecret(p)
  BY <1>2, <1>a DEF GetSecret, Advance, Goto
<1>3. CASE CreateSecret(p) \/ PatchSecret(p)
  BY <1>3, <1>a DEF CreateSecret, PatchSecret, NextSecret, Goto, Stop, Write
<1>4. CASE ReconcileStorage(p)
  BY <1>4, <1>a DEF ReconcileStorage, Advance, Goto, Stop, Write
<1>5. CASE ReconcileExternalDatabase(p)
  BY <1>5, <1>a DEF ReconcileExternalDatabase, Goto, Stop
<1>6. CASE CnpgInstalled(p)
  BY <1>6, <1>a DEF CnpgInstalled, Goto, Stop
<1>7. CASE ApplyCluster(p)
  BY <1>7, <1>a DEF ApplyCluster, Goto, Write
<1>8. CASE ReconcileCache(p)
  BY <1>8, <1>a DEF ReconcileCache, Advance, Goto, Write
<1>9. CASE ApplyService(p)
  BY <1>9, <1>a DEF ApplyService, Goto, Write
<1>10. CASE ApplyDeployment(p)
  BY <1>10, <1>a DEF ApplyDeployment, Goto, Write
<1>11. CASE PatchStatus(p)
  BY <1>11, <1>a DEF PatchStatus, EndPass, Goto
<1>12. CASE PatchStatusNotFound(p)
  BY <1>12, <1>a DEF PatchStatusNotFound, EndPass, Goto
<1> QED
  BY <1>1, <1>2, <1>3, <1>4, <1>5, <1>6, <1>7, <1>8, <1>9, <1>10, <1>11, <1>12
  DEF OperatorStep

\* The two conditions: each setter changes its own, at the generation read.
LEMMA SetterFacts ==
  ASSUME NEW i \in Instance, NEW r \in ReadyReasons
  PROVE  /\ SetReady(i, r).uid = i.uid /\ SetReady(i, r).spec = i.spec
         /\ SetReady(i, r).gen = i.gen
         /\ SetReady(i, r).conds.Ready.gen = i.gen
         /\ SetReady(i, r).conds.Ready.reason = r
BY DEF SetReady, Instance, Conditions

\* Ready is not touched by the database's condition.
LEMMA DatabaseSetterFacts ==
  ASSUME NEW i \in Instance, NEW d \in DatabaseReasons
  PROVE  /\ SetDatabaseReady(i, d) \in Instance
         /\ SetDatabaseReady(i, d).uid = i.uid /\ SetDatabaseReady(i, d).spec = i.spec
         /\ SetDatabaseReady(i, d).gen = i.gen
         /\ SetDatabaseReady(i, d).conds.Ready = i.conds.Ready
BY DEF SetDatabaseReady, Instance, Conditions

\* What a pass that has begun knows: whom it is for and at which generation.
\* A pass that goes to its status patch without asking to be queued again has
\* got through.
PassHolds(p) ==
  pc[p] # "idle" =>
    /\ work[p].uid # 0 /\ work[p].conds.Ready.gen = work[p].gen
    /\ work[p].conds.Ready.reason # ""
    /\ pc[p] = "status" /\ ~again[p] => Through(p)

\* A pass stays with the copy it read, and only its status patch touches the
\* instance.
LEMMA PassKeepsCopy ==
  ASSUME TypeOK, NEW p \in Operators, OperatorStep(p), pc[p] # "idle", pc'[p] # "idle"
  PROVE  /\ work'[p].uid = work[p].uid /\ work'[p].gen = work[p].gen
         /\ work'[p].spec = work[p].spec /\ base' = base
         /\ inst' = inst /\ src' = src /\ notify' = notify
         /\ PassHolds(p) => PassHolds(p)'
<1> USE DEF apiVars, passVars, histVars
<1>a. /\ pc \in [Operators -> Steps] /\ work \in [Operators -> Instance]
      /\ again \in [Operators -> BOOLEAN] /\ work[p] \in Instance
      /\ pc[p] # "status"
  BY DEF TypeOK, StepType, WorkType, OperatorStep, BeginPass, GetSecret, CreateSecret,
         PatchSecret, ReconcileStorage, ReconcileExternalDatabase, CnpgInstalled,
         ApplyCluster, ReconcileCache, ApplyService, ApplyDeployment, PatchStatus,
         PatchStatusNotFound, EndPass, Goto
<1>b. ASSUME NEW i \in Instance, NEW r \in ReadyReasons, r # "", Stop(p, i, r),
             i.uid = work[p].uid, i.gen = work[p].gen, i.spec = work[p].spec
      PROVE  /\ work'[p].uid = work[p].uid /\ work'[p].gen = work[p].gen
             /\ work'[p].spec = work[p].spec
             /\ PassHolds(p) => PassHolds(p)'
  <2>1. work'[p] = SetReady(i, r)
    BY <1>a, <1>b DEF Stop
  <2>2. again'[p] = TRUE
    BY <1>a, <1>b DEF Stop
  <2>3. /\ work'[p].uid = work[p].uid /\ work'[p].gen = work[p].gen
        /\ work'[p].spec = work[p].spec
        /\ work'[p].conds.Ready.gen = work'[p].gen /\ work'[p].conds.Ready.reason # ""
    <3>1. /\ SetReady(i, r).uid = i.uid /\ SetReady(i, r).gen = i.gen
          /\ SetReady(i, r).spec = i.spec
          /\ SetReady(i, r).conds.Ready.gen = i.gen /\ SetReady(i, r).conds.Ready.reason = r
      BY SetterFacts
    <3> QED
      BY <1>b, <2>1, <3>1
  <2> QED
    BY <2>2, <2>3 DEF PassHolds
<1>c. \A d \in DatabaseReasons :
        /\ SetDatabaseReady(work[p], d) \in Instance
        /\ SetDatabaseReady(work[p], d).uid = work[p].uid
        /\ SetDatabaseReady(work[p], d).gen = work[p].gen
        /\ SetDatabaseReady(work[p], d).spec = work[p].spec
        /\ SetDatabaseReady(work[p], d).conds.Ready = work[p].conds.Ready
  BY <1>a, DatabaseSetterFacts
<1>d. ASSUME work' = work, pc'[p] \notin {"idle", "status"}
      PROVE  PassHolds(p) => PassHolds(p)'
  BY <1>a, <1>d DEF PassHolds
<1>1. CASE GetSecret(p)
  BY <1>1, <1>a, <1>d DEF GetSecret, Advance, Goto, SecretOrder, Steps
<1>2. CASE CreateSecret(p) \/ PatchSecret(p)
  BY <1>2, <1>a, <1>b, <1>d DEF CreateSecret, PatchSecret, NextSecret, Goto, ReadyReasons
<1>3. CASE ReconcileStorage(p)
  <2>1. CASE Stop(p, work[p], "StorageNotReady")
    BY <1>3, <2>1, <1>a, <1>b DEF ReconcileStorage, ReadyReasons
  <2>2. CASE Advance(p, Volumes, "database") /\ UNCHANGED <<work, again>>
    BY <1>3, <2>2, <1>a, <1>d DEF ReconcileStorage, Advance, Goto
  <2> QED
    BY <1>3, <2>1, <2>2 DEF ReconcileStorage
<1>4. CASE ReconcileExternalDatabase(p)
  <2>1. CASE ext = "valid"
    <3>1. /\ work'[p] = SetDatabaseReady(work[p], "ExternalDatabaseConfigured")
          /\ pc'[p] = AfterDatabase(p)
      BY <1>4, <2>1, <1>a DEF ReconcileExternalDatabase, Goto
    <3> QED
      BY <1>4, <3>1, <1>a, <1>c
      DEF ReconcileExternalDatabase, AfterDatabase, PassHolds, DatabaseReasons
  <2>2. CASE ext # "valid"
    <3>1. PICK d \in DatabaseReasons :
            Stop(p, SetDatabaseReady(work[p], d), "DatabaseNotReady")
      BY <1>4, <2>2 DEF ReconcileExternalDatabase, DatabaseReasons
    <3> QED
      BY <1>4, <3>1, <1>b, <1>c DEF ReconcileExternalDatabase, ReadyReasons
  <2> QED
    BY <2>1, <2>2
<1>5. CASE CnpgInstalled(p)
  BY <1>5, <1>a, <1>b, <1>c, <1>d DEF CnpgInstalled, Goto, ReadyReasons, DatabaseReasons
<1>6. CASE ApplyCluster(p)
  <2>1. /\ work'[p] = SetDatabaseReady(work[p], "CloudNativePGClusterApplied")
        /\ pc'[p] = AfterDatabase(p)
    BY <1>6, <1>a DEF ApplyCluster, Goto
  <2> QED
    BY <1>6, <2>1, <1>a, <1>c DEF ApplyCluster, AfterDatabase, PassHolds, DatabaseReasons
<1>7. CASE ReconcileCache(p)
  BY <1>7, <1>a, <1>d DEF ReconcileCache, Advance, Goto
<1>8. CASE ApplyService(p)
  BY <1>8, <1>a, <1>d DEF ApplyService, Goto
<1>9. CASE ApplyDeployment(p)
  <2>1. PICK r \in {"WorkloadReady", "WorkloadNotReady"} : work'[p] = SetReady(work[p], r)
    BY <1>9, <1>a DEF ApplyDeployment
  <2>2. pc'[p] = "status" /\ r \in ReadyReasons
    BY <1>9, <1>a, <2>1 DEF ApplyDeployment, Goto, ReadyReasons
  <2>3. /\ work'[p].uid = work[p].uid /\ work'[p].gen = work[p].gen
        /\ work'[p].spec = work[p].spec
        /\ work'[p].conds.Ready.gen = work'[p].gen /\ work'[p].conds.Ready.reason = r
    BY <1>a, <2>1, <2>2, SetterFacts
  <2> QED
    BY <1>9, <2>1, <2>2, <2>3 DEF ApplyDeployment, PassHolds, Through
<1> QED
  BY <1>1, <1>2, <1>3, <1>4, <1>5, <1>6, <1>7, <1>8, <1>9, <1>a
  DEF OperatorStep, BeginPass, PatchStatus, PatchStatusNotFound

\* A step of a pass writes nothing, or one object with the reference that is
\* right for the copy of the instance it read; the template is stored with the
\* Deployment, and no pass touches a replica.
LEMMA PassWrites ==
  ASSUME TypeOK, NEW p \in Operators, OperatorStep(p)
  PROVE  /\ pod' = pod
         /\ \/ UNCHANGED <<exists, owner, template>>
            \/ \E o \in Objects, changed \in BOOLEAN :
                 /\ pc[p] # "idle" /\ Write(o, OwnerFor(work[p], o), changed)
                 /\ o # "deployment" => template' = template
                 /\ o = "deployment" =>
                      /\ template' = {Template(work[p].spec)}
                      /\ changed = (template # template')
<1> USE DEF objVars, apiVars
<1>a. /\ StepType
      /\ \A s \in Secrets : OwnerFor(work[p], s) = StatefulOwner(work[p]) /\ s \in Objects
      /\ \A v \in Claims : OwnerFor(work[p], v) = StatefulOwner(work[p]) /\ v \in Objects
      /\ OwnerFor(work[p], "db") = StatefulOwner(work[p]) /\ "db" \in Objects
      /\ \A c \in CacheParts : OwnerFor(work[p], c) = AlwaysOwner(work[p]) /\ c \in Objects
      /\ \A c \in {"service", "deployment"} :
           OwnerFor(work[p], c) = AlwaysOwner(work[p]) /\ c \in Objects
  BY KindFacts DEF TypeOK, OwnerFor
<1>b. /\ "deployment" \notin Secrets /\ "deployment" \notin Claims
      /\ "deployment" \notin CacheParts
  BY KindFacts
<1> DEFINE Wrote(o, changed) ==
             /\ pc[p] # "idle" /\ Write(o, OwnerFor(work[p], o), changed)
             /\ o # "deployment" => template' = template
             /\ o = "deployment" =>
                  /\ template' = {Template(work[p].spec)}
                  /\ changed = (template # template')
<1> SUFFICES /\ pod' = pod
             /\ \/ UNCHANGED <<exists, owner, template>>
                \/ \E o \in Objects, changed \in BOOLEAN : Wrote(o, changed)
  OBVIOUS
<1>1. CASE BeginPass(p) \/ GetSecret(p)
  BY <1>1 DEF BeginPass, GetSecret
<1>2. CASE CreateSecret(p) \/ PatchSecret(p)
  <2>1. ThisSecret(p) \in Secrets
    <3>1. pc[p] \in SecretSteps
      BY <1>2 DEF CreateSecret, PatchSecret, SecretSteps
    <3>2. idx[p] \in Nat /\ 1 <= idx[p] /\ idx[p] <= 2
      BY <3>1, ListFacts DEF TypeOK, StepType, WithinList
    <3> QED
      BY <3>2, ListFacts DEF ThisSecret
  <2>2. \/ UNCHANGED <<exists, owner, template>>
        \/ \E changed \in BOOLEAN : Wrote(ThisSecret(p), changed)
    BY <1>2, <2>1, <1>a, <1>b DEF CreateSecret, PatchSecret
  <2> QED
    BY <1>2, <2>1, <2>2, <1>a DEF CreateSecret, PatchSecret
<1>3. CASE ReconcileStorage(p)
  <2>1. Volumes[idx[p]] \in Claims
    BY <1>3, <1>a, ClaimFacts DEF ReconcileStorage, StepType, WithinList
  <2>2. \/ UNCHANGED <<exists, owner, template>>
        \/ \E changed \in BOOLEAN : Wrote(Volumes[idx[p]], changed)
    BY <1>3, <2>1, <1>a, <1>b DEF ReconcileStorage
  <2> QED
    BY <1>3, <2>1, <2>2, <1>a DEF ReconcileStorage
<1>4. CASE ReconcileExternalDatabase(p) \/ CnpgInstalled(p)
  BY <1>4 DEF ReconcileExternalDatabase, CnpgInstalled
<1>5. CASE ApplyCluster(p)
  <2>1. Wrote("db", FALSE)
    BY <1>5, <1>a DEF ApplyCluster
  <2> QED
    BY <1>5, <2>1, <1>a DEF ApplyCluster
<1>6. CASE ReconcileCache(p)
  <2>1. CacheOrder[idx[p]] \in CacheParts
    BY <1>6, <1>a, ListFacts DEF ReconcileCache, StepType, WithinList
  <2>2. Wrote(CacheOrder[idx[p]], FALSE)
    BY <1>6, <2>1, <1>a, <1>b DEF ReconcileCache
  <2> QED
    BY <1>6, <2>1, <2>2, <1>a DEF ReconcileCache
<1>7. CASE ApplyService(p)
  <2>1. Wrote("service", FALSE)
    BY <1>7, <1>a DEF ApplyService
  <2> QED
    BY <1>7, <2>1, <1>a DEF ApplyService
<1>8. CASE ApplyDeployment(p)
  <2> DEFINE t == Template(work[p].spec)
  <2>1. template' = {t} /\ Write("deployment", AlwaysOwner(work[p]), template # {t})
    BY <1>8 DEF ApplyDeployment
  <2>2. Wrote("deployment", template # {t})
    BY <1>8, <2>1, <1>a DEF ApplyDeployment
  <2> QED
    BY <1>8, <2>2, <1>a DEF ApplyDeployment
<1>9. CASE PatchStatus(p) \/ PatchStatusNotFound(p)
  BY <1>9 DEF PatchStatus, PatchStatusNotFound
<1> QED
  BY <1>1, <1>2, <1>3, <1>4, <1>5, <1>6, <1>7, <1>8, <1>9 DEF OperatorStep

\* Walking to the next element leaves one more element behind.
LEMMA PassedNext ==
  ASSUME NEW p \in Operators, NEW o, NEW list, idx[p] \in Nat, Len(list) \in Nat,
         idx'[p] = idx[p] + 1, PassedInList(p, o, list)'
  PROVE  PassedInList(p, o, list) \/ o = list[idx[p]]
BY DEF PassedInList

\* Walking past the last one leaves them all behind.
LEMMA PassedAll ==
  ASSUME NEW p \in Operators, NEW o, NEW list, idx[p] \in Nat, Len(list) \in Nat,
         idx[p] <= Len(list), ~(idx[p] < Len(list)),
         \E j \in 1..Len(list) : o = list[j]
  PROVE  PassedInList(p, o, list) \/ o = list[idx[p]]
BY DEF PassedInList

\* At its first element a list has none behind it.
LEMMA PassedNone ==
  ASSUME NEW p \in Operators, NEW o, NEW list, Len(list) \in Nat, idx'[p] = 1
  PROVE  ~PassedInList(p, o, list)'
BY DEF PassedInList

\* When a step takes a pass past an object, it has written it or, for a
\* generated secret, seen that nothing was to be written.
LEMMA PassBehind ==
  ASSUME TypeOK, NEW p \in Operators, OperatorStep(p), NEW o, Behind(p, o)'
  PROVE  \/ pc[p] # "idle" /\ Behind(p, o)
         \/ pc[p] # "idle" /\ \E changed \in BOOLEAN : Write(o, OwnerFor(work[p], o), changed)
         \/ /\ pc[p] # "idle" /\ o \in Secrets /\ UNCHANGED <<exists, owner>>
            /\ o \in exists => OwnershipMatches(p, o)
<1> USE DEF objVars, passVars
<1>a. /\ StepType /\ pc \in [Operators -> Steps] /\ idx \in [Operators -> Nat]
      /\ work \in [Operators -> Instance] /\ WithinList(p)
  BY DEF TypeOK, StepType, WorkType
<1>b. pc[p] # "idle" /\ pc'[p] # "idle" => work'[p].spec = work[p].spec
  BY PassSpecKept
<1>c. pc'[p] # "idle"
  BY DEF Behind, Through, SecretSteps
<1>d. ASSUME NEW i \in Instance, NEW r \in ReadyReasons,
             r \notin {"WorkloadReady", "WorkloadNotReady"}, Stop(p, i, r)
      PROVE  FALSE
  <2>1. pc'[p] = "status" /\ work'[p] = SetReady(i, r)
    BY <1>a, <1>d DEF Stop, Goto
  <2>2. ~Through(p)'
    BY <1>d, <2>1, SetterFacts DEF Through
  <2> QED
    BY <2>1, <2>2 DEF Behind, SecretSteps
<1>e. ASSUME pc[p] \in SecretSteps, work' = work,
             \/ idx[p] < Len(SecretOrder) /\ pc'[p] \in SecretSteps /\ idx'[p] = idx[p] + 1
             \/ ~(idx[p] < Len(SecretOrder)) /\ pc'[p] = "storage" /\ idx'[p] = 1
      PROVE  o \in Secrets /\ (Behind(p, o) \/ o = ThisSecret(p))
  <2>1. idx[p] \in Nat /\ idx[p] <= Len(SecretOrder) /\ Len(SecretOrder) \in Nat
    BY <1>a, <1>e, ListFacts DEF WithinList
  <2>2. o \in Secrets /\ (PassedInList(p, o, SecretOrder) \/ o = ThisSecret(p))
    <3>1. CASE idx[p] < Len(SecretOrder)
      <4>1. o \in Secrets /\ PassedInList(p, o, SecretOrder)'
        BY <1>e, <3>1 DEF Behind, Through, SecretSteps
      <4> QED
        BY <1>e, <2>1, <3>1, <4>1, PassedNext DEF ThisSecret
    <3>2. CASE ~(idx[p] < Len(SecretOrder))
      <4>1. ~PassedInList(p, o, Volumes)'
        BY <1>e, <3>2, ClaimFacts, PassedNone
      <4>2. o \in Secrets
        BY <1>e, <3>2, <4>1 DEF Behind, Through, SecretSteps
      <4>3. \E j \in 1..Len(SecretOrder) : o = SecretOrder[j]
        BY <4>2, ListsCover
      <4> QED
        BY <2>1, <3>2, <4>2, <4>3, PassedAll DEF ThisSecret
    <3> QED
      BY <3>1, <3>2
  <2> QED
    BY <1>e, <2>2 DEF Behind
<1>1. CASE BeginPass(p)
  <2>1. pc[p] = "idle" /\ (pc'[p] = "idle" \/ (pc'[p] = "get-secret" /\ idx'[p] = 1))
    BY <1>1, <1>a DEF BeginPass, Goto
  <2>2. idx'[p] = 1 => ~PassedInList(p, o, SecretOrder)'
    BY ListFacts, PassedNone
  <2> QED
    BY <2>1, <2>2, <1>c DEF Behind, Through
<1>2. CASE GetSecret(p)
  <2>1. pc[p] = "get-secret" /\ work' = work /\ UNCHANGED <<exists, owner>>
    BY <1>2 DEF GetSecret
  <2>2. CASE pc'[p] \in {"patch-secret", "create-secret"} /\ idx' = idx
    BY <2>1, <2>2 DEF Behind, Through, SecretSteps, PassedInList
  <2>3. CASE /\ Advance(p, SecretOrder, "storage")
             /\ ThisSecret(p) \in exists => OwnershipMatches(p, ThisSecret(p))
    <3>1. o \in Secrets /\ (Behind(p, o) \/ o = ThisSecret(p))
      BY <2>1, <2>3, <1>a, <1>e DEF Advance, Goto, SecretSteps
    <3> QED
      BY <2>1, <2>3, <3>1
  <2> QED
    BY <1>2, <1>a, <2>2, <2>3 DEF GetSecret
<1>3. CASE CreateSecret(p) \/ PatchSecret(p)
  <2>1. pc[p] \in SecretSteps /\ pc[p] # "idle"
    BY <1>3 DEF CreateSecret, PatchSecret, SecretSteps
  <2>2. /\ NextSecret(p) /\ work' = work
        /\ \E changed \in BOOLEAN : Write(ThisSecret(p), StatefulOwner(work[p]), changed)
    BY <1>3, <1>a, <1>d DEF CreateSecret, PatchSecret, ReadyReasons
  <2>3. o \in Secrets /\ (Behind(p, o) \/ o = ThisSecret(p))
    BY <2>1, <2>2, <1>a, <1>e DEF NextSecret, Goto, SecretSteps
  <2> QED
    BY <2>1, <2>2, <2>3, KindFacts DEF OwnerFor
<1>4. CASE ReconcileStorage(p)
  <2>1. pc[p] = "storage" /\ idx[p] <= Len(Volumes) /\ Len(Volumes) \in Nat
    BY <1>4, <1>a, ClaimFacts DEF ReconcileStorage, WithinList
  <2>2. /\ Advance(p, Volumes, "database") /\ work' = work
        /\ \E changed \in BOOLEAN : Write(Volumes[idx[p]], StatefulOwner(work[p]), changed)
    BY <1>4, <1>a, <1>d DEF ReconcileStorage, ReadyReasons
  <2>3. o \in Secrets \/ o \in Claims
    BY <2>1, <2>2, <1>a DEF Advance, Goto, Behind, Through, SecretSteps
  <2>4. CASE o \in Secrets
    BY <2>1, <2>4 DEF Behind
  <2>5. CASE o \in Claims
    <3>1. PassedInList(p, o, Volumes) \/ o = Volumes[idx[p]]
      <4>1. CASE idx[p] < Len(Volumes)
        <5>1. pc'[p] = "storage" /\ idx'[p] = idx[p] + 1
          BY <2>1, <2>2, <4>1, <1>a DEF Advance
        <5>2. PassedInList(p, o, Volumes)'
          BY <2>5, <5>1, KindFacts DEF Behind, Through
        <5> QED
          BY <2>1, <5>1, <5>2, <1>a, PassedNext
      <4>2. CASE ~(idx[p] < Len(Volumes))
        BY <2>1, <2>5, <4>2, <1>a, ListsCover, PassedAll
      <4> QED
        BY <4>1, <4>2
    <3> QED
      BY <2>1, <2>2, <2>5, <3>1, KindFacts DEF Behind, OwnerFor
  <2> QED
    BY <2>3, <2>4, <2>5
<1>f. ASSUME pc[p] \in {"database", "cluster"}, Goto(p, AfterDatabase(p))
      PROVE  \/ o \in Secrets /\ Behind(p, o)
             \/ o \in Claims /\ Behind(p, o)
             \/ o = "db" /\ ~IsExternal(work[p].spec)
  <2>1. /\ idx'[p] = 1 /\ work'[p].spec = work[p].spec
        /\ pc'[p] = (IF IsManaged(work[p].spec) THEN "cache" ELSE "service")
    BY <1>a, <1>b, <1>c, <1>f DEF Goto, AfterDatabase
  <2>2. ~PassedInList(p, o, CacheOrder)'
    BY <2>1, ListFacts, PassedNone
  <2>3. o \in Secrets \/ o \in Claims \/ (o = "db" /\ ~IsExternal(work[p].spec))
    BY <2>1, <2>2 DEF Behind, Through, SecretSteps
  <2> QED
    BY <1>f, <2>3 DEF Behind
<1>5. CASE ReconcileExternalDatabase(p)
  <2>1. pc[p] = "database" /\ IsExternal(work[p].spec)
    BY <1>5 DEF ReconcileExternalDatabase
  <2>2. CASE ext = "valid"
    BY <1>5, <2>1, <2>2, <1>f DEF ReconcileExternalDatabase
  <2>3. CASE ext # "valid"
    <3>1. PICK d \in DatabaseReasons :
            Stop(p, SetDatabaseReady(work[p], d), "DatabaseNotReady")
      BY <1>5, <2>3 DEF ReconcileExternalDatabase, DatabaseReasons
    <3>2. SetDatabaseReady(work[p], d) \in Instance
      BY <1>a, DatabaseSetterFacts
    <3> QED
      BY <3>1, <3>2, <1>d DEF ReadyReasons
  <2> QED
    BY <2>2, <2>3
<1>6. CASE CnpgInstalled(p)
  <2>1. pc[p] = "database"
    BY <1>6 DEF CnpgInstalled
  <2>2. CASE Goto(p, "cluster") /\ UNCHANGED <<work, again>>
    BY <2>1, <2>2, <1>a DEF Goto, Behind, Through, SecretSteps
  <2>3. CASE Stop(p, SetDatabaseReady(work[p], "CloudNativePGMissing"), "DatabaseNotReady")
    <3>1. SetDatabaseReady(work[p], "CloudNativePGMissing") \in Instance
      BY <1>a, DatabaseSetterFacts DEF DatabaseReasons
    <3> QED
      BY <2>3, <3>1, <1>d DEF ReadyReasons
  <2> QED
    BY <1>6, <2>2, <2>3 DEF CnpgInstalled
<1>7. CASE ApplyCluster(p)
  BY <1>7, <1>f, KindFacts DEF ApplyCluster, OwnerFor
<1>8. CASE ReconcileCache(p)
  <2>0. /\ pc[p] = "cache" /\ Advance(p, CacheOrder, "service") /\ work' = work
        /\ Write(CacheOrder[idx[p]], AlwaysOwner(work[p]), FALSE)
    BY <1>8 DEF ReconcileCache
  <2>1. idx[p] <= Len(CacheOrder) /\ Len(CacheOrder) \in Nat /\ idx[p] \in Nat
    BY <2>0, <1>a, ListFacts DEF WithinList
  <2>2. CASE o \notin CacheParts
    BY <2>0, <2>2, <1>a DEF Advance, Goto, Behind, Through, SecretSteps
  <2>3. CASE o \in CacheParts
    <3>1. IsManaged(work[p].spec)
      <4>1. pc'[p] \in {"cache", "service"}
        BY <2>0, <1>a DEF Advance, Goto
      <4>2. o \notin Secrets /\ o \notin Claims /\ o \notin {"db", "service", "deployment"}
        BY <2>3, KindFacts DEF CacheParts
      <4>3. IsManaged(work'[p].spec)
        BY <4>2 DEF Behind
      <4> QED
        BY <2>0, <4>3
    <3>2. PassedInList(p, o, CacheOrder) \/ o = CacheOrder[idx[p]]
      <4>1. CASE idx[p] < Len(CacheOrder)
        <5>1. pc'[p] = "cache" /\ idx'[p] = idx[p] + 1
          BY <2>0, <4>1, <1>a DEF Advance
        <5>2. PassedInList(p, o, CacheOrder)'
          BY <2>3, <5>1, KindFacts DEF Behind, Through
        <5> QED
          BY <2>1, <5>1, <5>2, <1>a, PassedNext
      <4>2. CASE ~(idx[p] < Len(CacheOrder))
        BY <2>1, <2>3, <4>2, <1>a, ListsCover, PassedAll
      <4> QED
        BY <4>1, <4>2
    <3> QED
      BY <2>0, <2>3, <3>1, <3>2, KindFacts DEF Behind, OwnerFor
  <2> QED
    BY <2>2, <2>3
<1>9. CASE ApplyService(p)
  <2>1. pc[p] = "service" /\ pc'[p] = "deployment" /\ work' = work
    BY <1>9, <1>a DEF ApplyService, Goto
  <2>2. Behind(p, o) \/ o = "service"
    BY <2>1 DEF Behind, Through, SecretSteps
  <2> QED
    BY <1>9, <2>1, <2>2, KindFacts DEF ApplyService, OwnerFor
<1>10. CASE ApplyDeployment(p)
  <2>1. /\ pc[p] = "deployment" /\ pc'[p] = "status" /\ work'[p].spec = work[p].spec
        /\ \E changed \in BOOLEAN : Write("deployment", AlwaysOwner(work[p]), changed)
    BY <1>10, <1>a, <1>b DEF ApplyDeployment, Goto
  <2>2. Behind(p, o) \/ o = "deployment"
    BY <2>1 DEF Behind, SecretSteps
  <2> QED
    BY <2>1, <2>2, KindFacts DEF OwnerFor
<1>11. CASE PatchStatus(p) \/ PatchStatusNotFound(p)
  BY <1>11, <1>a, <1>c DEF PatchStatus, PatchStatusNotFound, EndPass, Goto
<1> QED
  BY <1>1, <1>2, <1>3, <1>4, <1>5, <1>6, <1>7, <1>8, <1>9, <1>10, <1>11
  DEF OperatorStep

\* Only the step that stores the Deployment gets a pass through.
LEMMA PassGetsThrough ==
  ASSUME TypeOK, NEW p \in Operators, OperatorStep(p), Through(p)'
  PROVE  ApplyDeployment(p)
<1> USE DEF passVars
<1>a. /\ pc \in [Operators -> Steps] /\ work \in [Operators -> Instance]
      /\ work[p] \in Instance /\ pc'[p] = "status"
      /\ work'[p].conds.Ready.reason \in {"WorkloadReady", "WorkloadNotReady"}
  BY DEF TypeOK, StepType, WorkType, Through
<1>b. ASSUME NEW i \in Instance, NEW r \in ReadyReasons,
             r \notin {"WorkloadReady", "WorkloadNotReady"}, Stop(p, i, r)
      PROVE  FALSE
  <2>1. work'[p] = SetReady(i, r)
    BY <1>a, <1>b DEF Stop
  <2> QED
    BY <1>a, <1>b, <2>1, SetterFacts
<1>1. ~BeginPass(p) /\ ~GetSecret(p) /\ ~ApplyCluster(p) /\ ~ReconcileCache(p) /\ ~ApplyService(p)
  BY <1>a DEF BeginPass, GetSecret, ApplyCluster, ReconcileCache, ApplyService, Advance,
              Goto, AfterDatabase
<1>2. ~CreateSecret(p) /\ ~PatchSecret(p)
  BY <1>a, <1>b DEF CreateSecret, PatchSecret, NextSecret, Goto, ReadyReasons
<1>3. ~ReconcileStorage(p)
  BY <1>a, <1>b DEF ReconcileStorage, Advance, Goto, ReadyReasons
<1>4. ~ReconcileExternalDatabase(p)
  <2> SUFFICES ASSUME ReconcileExternalDatabase(p) PROVE FALSE
    OBVIOUS
  <2>1. CASE ext = "valid"
    BY <2>1, <1>a DEF ReconcileExternalDatabase, Goto, AfterDatabase
  <2>2. CASE ext # "valid"
    <3>1. PICK d \in DatabaseReasons :
            Stop(p, SetDatabaseReady(work[p], d), "DatabaseNotReady")
      BY <2>2 DEF ReconcileExternalDatabase, DatabaseReasons
    <3> QED
      BY <3>1, <1>a, <1>b, DatabaseSetterFacts DEF ReadyReasons
  <2> QED
    BY <2>1, <2>2
<1>5. ~CnpgInstalled(p)
  <2>1. SetDatabaseReady(work[p], "CloudNativePGMissing") \in Instance
    BY <1>a, DatabaseSetterFacts DEF DatabaseReasons
  <2> QED
    BY <2>1, <1>a, <1>b DEF CnpgInstalled, Goto, ReadyReasons
<1>6. ~PatchStatus(p) /\ ~PatchStatusNotFound(p)
  BY <1>a DEF PatchStatus, PatchStatusNotFound, EndPass, Goto
<1> QED
  BY <1>1, <1>2, <1>3, <1>4, <1>5, <1>6 DEF OperatorStep

\* A step that ends a pass is its status patch, or a read that finds no
\* instance.
LEMMA PassEnds ==
  ASSUME TypeOK, NEW p \in Operators, OperatorStep(p), pc'[p] = "idle"
  PROVE  \/ /\ BeginPass(p) /\ cache[p].uid = 0 /\ UNCHANGED passVars
         \/ PatchStatus(p) \/ PatchStatusNotFound(p)
<1> USE DEF passVars
<1>a. pc \in [Operators -> Steps]
  BY DEF TypeOK, StepType
<1>1. BeginPass(p) => cache[p].uid = 0 /\ UNCHANGED passVars
  BY <1>a DEF BeginPass, Goto
<1>2. ~GetSecret(p) /\ ~CreateSecret(p) /\ ~PatchSecret(p) /\ ~ReconcileStorage(p)
  BY <1>a DEF GetSecret, CreateSecret, PatchSecret, ReconcileStorage, NextSecret, Advance,
              Goto, Stop
<1>3. ~ReconcileExternalDatabase(p) /\ ~CnpgInstalled(p) /\ ~ApplyCluster(p)
  BY <1>a DEF ReconcileExternalDatabase, CnpgInstalled, ApplyCluster, AfterDatabase, Goto, Stop
<1>4. ~ReconcileCache(p) /\ ~ApplyService(p) /\ ~ApplyDeployment(p)
  BY <1>a DEF ReconcileCache, ApplyService, ApplyDeployment, Advance, Goto
<1> QED
  BY <1>1, <1>2, <1>3, <1>4 DEF OperatorStep

-----------------------------------------------------------------------------
(***************************************************************************)
(* The invariant.  Each part is about a pass whose operator has not been   *)
(* queued again since it began.                                            *)
(***************************************************************************)

\* It works from what the cache still holds.
PassCurrent(p) ==
  pc[p] # "idle" /\ ~queue[p] =>
    /\ work[p].uid = cache[p].uid /\ work[p].gen = cache[p].gen
    /\ work[p].spec = cache[p].spec
    /\ base[p] = [conds |-> cache[p].conds,
                  observedGeneration |-> cache[p].observedGeneration]

\* What it has dealt with is as it left it.
PassApplied(p) ==
  pc[p] # "idle" /\ ~queue[p] =>
    \A o \in Watched : Behind(p, o) =>
      /\ owner[o] = OwnerFor(work[p], o)
      /\ owner[o] # 0 => o \in exists

\* What it has seen of the replica still holds.
PassDeployed(p) ==
  Through(p) /\ ~queue[p] =>
    /\ template = {Template(work[p].spec)}
    /\ (work[p].conds.Ready.reason = "WorkloadReady") <=> pod # {}

\* Without an event in flight the cache holds the instance as it is.
CacheCurrent == \A p \in Operators : ~notify[p] => cache[p] = inst

Passes ==
  \A p \in Operators :
    PassHolds(p) /\ PassCurrent(p) /\ PassApplied(p) /\ PassDeployed(p)

RestInv ==
  /\ TypeOK /\ CacheCurrent /\ Passes
  /\ RestingStatusIsOwn /\ RestingIsServed

\* o has the owner it had, and is still there if it has one.
SameOwner(o) ==
  /\ owner'[o] = owner[o]
  /\ o \in exists /\ owner[o] # 0 => o \in exists'

\* An operator that stays unqueued while another's pass (or its own) makes a
\* step finds every controlled watched object, the template and the replica as
\* they were.
LEMMA PassLeaves ==
  ASSUME TypeOK, NEW p \in Operators, OperatorStep(p), PassHolds(p),
         NEW q \in Operators, ~queue'[q]
  PROVE  /\ \A o \in Watched : SameOwner(o)
         /\ template' = template /\ pod' = pod
<1>a. owner \in [Objects -> Nat]
  BY DEF TypeOK, ObjectType
<1>1. CASE UNCHANGED <<exists, owner, template>>
  BY <1>1, PassWrites DEF SameOwner
<1>2. CASE ~UNCHANGED <<exists, owner, template>>
  <2>1. PICK o \in Objects, changed \in BOOLEAN :
          /\ pc[p] # "idle" /\ Write(o, OwnerFor(work[p], o), changed)
          /\ o # "deployment" => template' = template
          /\ o = "deployment" =>
               /\ template' = {Template(work[p].spec)}
               /\ changed = (template # template')
    BY <1>2, PassWrites
  <2>2. /\ exists' = exists \cup {o}
        /\ owner' = [owner EXCEPT ![o] = OwnerFor(work[p], o)]
    BY <2>1 DEF Write
  <2>3. o \in Watched =>
          \/ o \in exists /\ owner[o] = OwnerFor(work[p], o) /\ changed = FALSE
          \/ owner[o] = 0 /\ OwnerFor(work[p], o) = 0
    BY <2>1 DEF Write
  <2>4. o = "deployment" => template' = template
    <3>1. "deployment" \in Watched /\ OwnerFor(work[p], "deployment") = work[p].uid
      BY KindFacts DEF OwnerFor, AlwaysOwner
    <3>2. work[p].uid # 0
      BY <2>1 DEF PassHolds
    <3> QED
      BY <2>1, <2>3, <3>1, <3>2
  <2>5. ASSUME NEW x \in Watched PROVE SameOwner(x)
    <3>1. x \in Objects
      BY KindFacts DEF Watched, Reproducible
    <3> QED
      BY <1>a, <2>2, <2>3, <3>1 DEF SameOwner
  <2> QED
    BY <2>1, <2>4, <2>5, PassWrites
<1> QED
  BY <1>1, <1>2

\* A pass that makes no step keeps what it relies on, unless it is queued.
LEMMA PassRelies ==
  ASSUME NEW q \in Operators,
         PassHolds(q) /\ PassCurrent(q) /\ PassApplied(q) /\ PassDeployed(q),
         pc'[q] = pc[q], idx'[q] = idx[q], work'[q] = work[q], base'[q] = base[q],
         again'[q] = again[q], queue[q] => queue'[q],
         ~queue'[q] =>
           /\ cache'[q] = cache[q]
           /\ \A o \in Watched : SameOwner(o)
           /\ owner["deployment"] # 0 => template' = template /\ pod' = pod
  PROVE  PassHolds(q)' /\ PassCurrent(q)' /\ PassApplied(q)' /\ PassDeployed(q)'
<1>1. Through(q)' <=> Through(q)
  BY DEF Through
<1>2. \A o : Behind(q, o)' <=> Behind(q, o)
  BY <1>1 DEF Behind, PassedInList
<1>3. \A o : OwnerFor(work'[q], o) = OwnerFor(work[q], o)
  OBVIOUS
<1>4. PassHolds(q)'
  BY <1>1 DEF PassHolds
<1>5. PassCurrent(q)'
  BY DEF PassCurrent
<1>6. PassApplied(q)'
  BY <1>2 DEF PassApplied, SameOwner, OwnerFor, StatefulOwner, AlwaysOwner
<1>7. PassDeployed(q)'
  <2> SUFFICES ASSUME Through(q)', ~queue'[q]
               PROVE  /\ template' = {Template(work'[q].spec)}
                      /\ (work'[q].conds.Ready.reason = "WorkloadReady") <=> pod' # {}
    BY DEF PassDeployed
  <2>1. Through(q) /\ ~queue[q] /\ pc[q] # "idle" /\ work[q].uid # 0
    BY <1>1 DEF Through, PassHolds
  <2>2. /\ "deployment" \in Watched /\ Behind(q, "deployment")
        /\ OwnerFor(work[q], "deployment") = work[q].uid
    BY <2>1, KindFacts DEF Behind, OwnerFor, AlwaysOwner
  <2>3. owner["deployment"] # 0
    BY <2>1, <2>2 DEF PassApplied
  <2> QED
    BY <2>1, <2>3 DEF PassDeployed
<1> QED
  BY <1>4, <1>5, <1>6, <1>7

\* A status patch that nobody is told of has changed nothing: what it sent, and
\* what it left out because base had it, is what the instance already holds.
LEMMA SilentPatch ==
  ASSUME TypeOK, NEW p \in Operators, PatchStatus(p), NEW q \in Operators, ~notify'[q]
  PROVE  /\ inst' = inst /\ ~notify[q]
         /\ work[p].conds = inst.conds \/ work[p].conds = base[p].conds
         /\ \/ work[p].gen = inst.observedGeneration
            \/ work[p].gen = base[p].observedGeneration
         /\ work[p].uid = inst.uid /\ inst.conds = work[p].conds => src' = inst.uid
<1>a. inst \in Instance
  BY DEF TypeOK, ApiType
<1>1. PICK moved \in BOOLEAN :
        LET sendConds == work[p].conds # base[p].conds \/ moved
            sendGen   == work[p].gen # base[p].observedGeneration
            patched   == [inst EXCEPT
              !.conds = IF sendConds THEN work[p].conds ELSE @,
              !.observedGeneration = IF sendGen THEN work[p].gen ELSE @]
        IN  /\ inst' = patched
            /\ notify' = [x \in Operators |-> notify[x] \/ moved \/ patched # inst]
            /\ src' = IF \/ sendConds
                         \/ patched.conds = work[p].conds /\ work[p].uid = inst.uid
                      THEN work[p].uid ELSE src
  BY DEF PatchStatus
<1>2. inst' = inst /\ ~notify[q] /\ ~moved
  BY <1>1
<1>3. /\ inst'.conds = IF work[p].conds # base[p].conds \/ moved
                       THEN work[p].conds ELSE inst.conds
      /\ inst'.observedGeneration = IF work[p].gen # base[p].observedGeneration
                                    THEN work[p].gen ELSE inst.observedGeneration
  BY <1>1, <1>a DEF Instance
<1>4. /\ work[p].conds = inst.conds \/ work[p].conds = base[p].conds
      /\ \/ work[p].gen = inst.observedGeneration
         \/ work[p].gen = base[p].observedGeneration
  BY <1>2, <1>3
<1>5. work[p].uid = inst.uid /\ inst.conds = work[p].conds => src' = inst.uid
  BY <1>1, <1>2, <1>3
<1> QED
  BY <1>2, <1>4, <1>5

\* The cache stays current: what changes the instance sends an event.
LEMMA PassCacheCurrent ==
  ASSUME TypeOK, CacheCurrent, NEW p \in Operators, OperatorStep(p)
  PROVE  CacheCurrent'
<1> USE DEF apiVars
<1> SUFFICES ASSUME NEW q \in Operators, ~notify'[q] PROVE cache'[q] = inst'
  BY DEF CacheCurrent
<1>1. cache'[q] = inst
  BY PassFrame DEF CacheCurrent
<1>2. inst' = inst
  <2>1. CASE PatchStatus(p)
    BY <2>1, SilentPatch
  <2>2. CASE ~PatchStatus(p)
    BY <2>2 DEF OperatorStep, BeginPass, GetSecret, CreateSecret, PatchSecret,
                ReconcileStorage, ReconcileExternalDatabase, CnpgInstalled, ApplyCluster,
                ReconcileCache, ApplyService, ApplyDeployment, PatchStatusNotFound
  <2> QED
    BY <2>1, <2>2
<1> QED
  BY <1>1, <1>2

\* The pass that makes the step keeps what it relies on as well.
LEMMA OwnPass ==
  ASSUME TypeOK, NEW p \in Operators, OperatorStep(p),
         PassHolds(p) /\ PassCurrent(p) /\ PassApplied(p) /\ PassDeployed(p)
  PROVE  PassHolds(p)' /\ PassCurrent(p)' /\ PassApplied(p)' /\ PassDeployed(p)'
<1> USE DEF passVars
<1>a. /\ pc \in [Operators -> Steps] /\ work \in [Operators -> Instance]
      /\ base \in [Operators -> [conds : Conditions, observedGeneration : Nat]]
      /\ cache[p] \in Instance /\ work[p] \in Instance /\ owner \in [Objects -> Nat]
  BY DEF TypeOK, StepType, WorkType, InformerType, ObjectType
<1>1. CASE pc'[p] = "idle"
  BY <1>1 DEF PassHolds, PassCurrent, PassApplied, PassDeployed, Through
<1>2. CASE pc[p] = "idle" /\ pc'[p] # "idle"
  <2>1. /\ BeginPass(p) /\ cache[p].uid # 0 /\ pc'[p] = "get-secret"
        /\ work'[p] = SetReady(cache[p], "Reconciling") /\ cache' = cache
        /\ base'[p] = [conds |-> cache[p].conds,
                       observedGeneration |-> cache[p].observedGeneration]
    BY <1>2, <1>a
    DEF OperatorStep, BeginPass, GetSecret, CreateSecret, PatchSecret, ReconcileStorage,
        ReconcileExternalDatabase, CnpgInstalled, ApplyCluster, ReconcileCache, ApplyService,
        ApplyDeployment, PatchStatus, PatchStatusNotFound, Goto
  <2>2. /\ work'[p].uid = cache[p].uid /\ work'[p].gen = cache[p].gen
        /\ work'[p].spec = cache[p].spec
        /\ work'[p].conds.Ready.gen = work'[p].gen
        /\ work'[p].conds.Ready.reason = "Reconciling"
    <3>1. "Reconciling" \in ReadyReasons
      BY DEF ReadyReasons
    <3> QED
      BY <2>1, <3>1, <1>a, SetterFacts
  <2>3. \A o : ~Behind(p, o)'
    BY <1>2, PassBehind
  <2> QED
    BY <2>1, <2>2, <2>3 DEF PassHolds, PassCurrent, PassApplied, PassDeployed, Through
<1>3. CASE pc[p] # "idle" /\ pc'[p] # "idle"
  <2>1. /\ work'[p].uid = work[p].uid /\ work'[p].gen = work[p].gen
        /\ work'[p].spec = work[p].spec /\ base' = base /\ cache' = cache
        /\ queue[p] => queue'[p]
    BY <1>3, PassKeepsCopy, PassFrame
  <2>2. PassHolds(p)'
    BY <1>3, PassKeepsCopy
  <2>3. PassCurrent(p)'
    BY <1>3, <2>1 DEF PassCurrent
  <2>4. PassApplied(p)'
    <3> SUFFICES ASSUME ~queue'[p], NEW o \in Watched, Behind(p, o)'
                 PROVE  owner'[o] = OwnerFor(work'[p], o) /\ (owner'[o] # 0 => o \in exists')
      BY DEF PassApplied, OwnerFor, StatefulOwner, AlwaysOwner
    <3>1. OwnerFor(work'[p], o) = OwnerFor(work[p], o)
      BY <2>1 DEF OwnerFor, StatefulOwner, AlwaysOwner
    <3>2. o \notin Secrets /\ o \in Objects
      BY KindFacts DEF Watched, Reproducible
    <3>3. CASE Behind(p, o)
      BY <1>3, <2>1, <3>1, <3>3, PassLeaves DEF PassApplied, SameOwner
    <3>4. ASSUME NEW changed \in BOOLEAN, Write(o, OwnerFor(work[p], o), changed)
          PROVE  owner'[o] = OwnerFor(work'[p], o) /\ (owner'[o] # 0 => o \in exists')
      BY <1>a, <3>1, <3>2, <3>4 DEF Write
    <3> QED
      BY <3>2, <3>3, <3>4, PassBehind
  <2>5. PassDeployed(p)'
    <3> SUFFICES ASSUME Through(p)', ~queue'[p]
                 PROVE  /\ template' = {Template(work'[p].spec)}
                        /\ (work'[p].conds.Ready.reason = "WorkloadReady") <=> pod' # {}
      BY DEF PassDeployed
    <3>1. ApplyDeployment(p)
      BY PassGetsThrough
    <3>2. /\ template' = {Template(work[p].spec)} /\ pod' = pod
          /\ work'[p] = SetReady(work[p], IF pod # {} THEN "WorkloadReady"
                                                      ELSE "WorkloadNotReady")
      BY <3>1, <1>a DEF ApplyDeployment
    <3>3. work'[p].conds.Ready.reason = IF pod # {} THEN "WorkloadReady"
                                                    ELSE "WorkloadNotReady"
      <4>1. "WorkloadReady" \in ReadyReasons /\ "WorkloadNotReady" \in ReadyReasons
        BY DEF ReadyReasons
      <4>2. CASE pod # {}
        BY <3>2, <4>1, <4>2, <1>a, SetterFacts
      <4>3. CASE pod = {}
        BY <3>2, <4>1, <4>3, <1>a, SetterFacts
      <4> QED
        BY <4>2, <4>3
    <3> QED
      BY <2>1, <3>2, <3>3
  <2> QED
    BY <2>2, <2>3, <2>4, <2>5
<1> QED
  BY <1>1, <1>2, <1>3

\* The way to rest: the status patch of a pass that was never queued again and
\* has nothing to add.
LEMMA PatchComesToRest ==
  ASSUME RestInv, NEW p \in Operators, PatchStatus(p), OperatorStep(p), AtRest'
  PROVE  RestingStatusIsOwn' /\ RestingIsServed'
<1> USE DEF objVars
<1>a. /\ TypeOK /\ PassHolds(p) /\ PassCurrent(p) /\ PassApplied(p) /\ PassDeployed(p)
      /\ inst \in Instance /\ work[p] \in Instance
      /\ pc[p] = "status" /\ inst.uid # 0
  BY DEF RestInv, Passes, TypeOK, ApiType, WorkType, PatchStatus
<1>1. ~queue[p] /\ ~again[p] /\ ~notify'[p]
  <2>1. queue \in [Operators -> BOOLEAN]
    BY <1>a DEF TypeOK, InformerType
  <2>2. ~queue'[p] /\ ~notify'[p]
    BY DEF AtRest
  <2>3. queue' = [queue EXCEPT ![p] = @ \/ again[p]]
    BY DEF PatchStatus
  <2> QED
    BY <2>1, <2>2, <2>3
<1>2. /\ Through(p) /\ work[p].uid # 0
      /\ work[p].conds.Ready.gen = work[p].gen
      /\ work[p].conds.Ready.reason \in {"WorkloadReady", "WorkloadNotReady"}
  BY <1>1, <1>a DEF PassHolds, Through
<1>3. /\ work[p].uid = inst.uid /\ work[p].gen = inst.gen /\ work[p].spec = inst.spec
      /\ base[p] = [conds |-> inst.conds, observedGeneration |-> inst.observedGeneration]
  <2>1. cache[p] = inst
    BY <1>1, <1>a, SilentPatch DEF RestInv, CacheCurrent
  <2> QED
    BY <2>1, <1>1, <1>a DEF PassCurrent
<1>4. /\ inst' = inst /\ src' = inst.uid /\ inst.conds = work[p].conds
      /\ inst.observedGeneration = inst.gen
  BY <1>1, <1>3, <1>a, SilentPatch
<1>5. RestingStatusIsOwn'
  BY <1>2, <1>3, <1>4, <1>a DEF RestingStatusIsOwn, Settled
<1>6. ASSUME NEW o \in Watched, Behind(p, o)
      PROVE  owner'[o] = OwnerFor(work[p], o) /\ (owner'[o] # 0 => o \in exists')
  <2>1. exists' = exists /\ owner' = owner
    BY DEF PatchStatus
  <2> QED
    BY <1>1, <1>6, <1>a, <2>1 DEF PassApplied
<1>7. ASSUME NEW o \in AppliedFor(inst.spec)
      PROVE  o \in exists' /\ owner'[o] = inst.uid
  <2>1. o \in Watched /\ OwnerFor(work[p], o) = work[p].uid
    BY KindFacts DEF AppliedFor, OwnerFor, AlwaysOwner
  <2>2. Behind(p, o)
    BY <1>2, <1>3 DEF AppliedFor, Behind
  <2> QED
    BY <1>2, <1>3, <1>6, <2>1, <2>2
<1>8. ASSUME NEW v \in Claims
      PROVE  owner'[v] = StatefulOwner(inst) /\ (StatefulOwner(inst) # 0 => v \in exists')
  <2>1. v \in Watched /\ OwnerFor(work[p], v) = StatefulOwner(inst)
    BY <1>3, KindFacts DEF OwnerFor, StatefulOwner
  <2>2. Behind(p, v)
    BY <1>2 DEF Behind
  <2> QED
    BY <1>6, <2>1, <2>2
<1>9. /\ template' = {Template(inst.spec)}
      /\ ReadyTrue(inst.conds) <=> pod' # {}
  <2>1. template' = template /\ pod' = pod
    BY DEF PatchStatus
  <2> QED
    BY <1>1, <1>2, <1>3, <1>4, <1>a, <2>1 DEF PassDeployed, ReadyTrue
<1>10. RestingIsServed'
  <2> SUFFICES /\ \A o \in AppliedFor(inst.spec) : o \in exists' /\ owner'[o] = inst.uid
               /\ \A v \in Claims :
                    /\ owner'[v] = StatefulOwner(inst)
                    /\ StatefulOwner(inst) # 0 => v \in exists'
               /\ template' = {Template(inst.spec)}
               /\ ReadyTrue(inst.conds) <=> pod' # {}
    BY <1>4 DEF RestingIsServed, AppliedFor, StatefulOwner, ReadyTrue
  <2> QED
    BY <1>7, <1>8, <1>9
<1> QED
  BY <1>5, <1>10

\* No other step of a pass comes to rest on an instance.
LEMMA PassRest ==
  ASSUME RestInv, NEW p \in Operators, OperatorStep(p)
  PROVE  RestInv'
<1>a. /\ TypeOK /\ CacheCurrent
      /\ \A q \in Operators :
           PassHolds(q) /\ PassCurrent(q) /\ PassApplied(q) /\ PassDeployed(q)
  BY DEF RestInv, Passes
<1>1. TypeOK' /\ CacheCurrent'
  BY <1>a, PassType, PassCacheCurrent
<1>2. ASSUME NEW q \in Operators
      PROVE  PassHolds(q)' /\ PassCurrent(q)' /\ PassApplied(q)' /\ PassDeployed(q)'
  <2>1. CASE q = p
    BY <1>a, <2>1, OwnPass
  <2>2. CASE q # p
    <3>1. /\ pc'[q] = pc[q] /\ idx'[q] = idx[q] /\ work'[q] = work[q]
          /\ base'[q] = base[q] /\ again'[q] = again[q] /\ (queue[q] => queue'[q])
          /\ cache'[q] = cache[q]
      BY <1>a, <2>2, PassFrame
    <3>2. ~queue'[q] =>
            /\ \A o \in Watched : SameOwner(o)
            /\ template' = template /\ pod' = pod
      BY <1>a, PassLeaves
    <3> QED
      BY <1>a, <3>1, <3>2, PassRelies
  <2> QED
    BY <2>1, <2>2
<1>3. RestingStatusIsOwn' /\ RestingIsServed'
  <2>1. CASE ~AtRest' \/ inst'.uid = 0
    BY <2>1 DEF RestingStatusIsOwn, RestingIsServed
  <2>2. CASE AtRest' /\ inst'.uid # 0
    <3>1. pc'[p] = "idle" /\ ~queue'[p] /\ ~notify'[p]
      BY <2>2 DEF AtRest
    <3>2. ~PatchStatusNotFound(p)
      <4>1. queue \in [Operators -> BOOLEAN]
        BY <1>a DEF TypeOK, InformerType
      <4> QED
        BY <3>1, <4>1 DEF PatchStatusNotFound
    <3>3. ~(BeginPass(p) /\ cache[p].uid = 0 /\ UNCHANGED passVars)
      <4>1. BeginPass(p) => inst' = inst /\ notify' = notify
        BY DEF BeginPass, apiVars
      <4> QED
        BY <2>2, <3>1, <4>1, <1>a DEF CacheCurrent
    <3> QED
      BY <1>a, <2>2, <3>1, <3>2, <3>3, PassEnds, PatchComesToRest
  <2> QED
    BY <2>1, <2>2
<1> QED
  BY <1>1, <1>2, <1>3 DEF RestInv, Passes

\* A failing call, a restart, an event or a resync: whoever stops is queued.
LEMMA OutsideRest ==
  ASSUME RestInv, NEW p \in Operators,
         ApiError(p) \/ Restart(p) \/ Observe(p) \/ Resync(p)
  PROVE  RestInv'
<1> USE DEF apiVars, objVars, passVars, histVars
<1>a. /\ TypeOK /\ CacheCurrent
      /\ \A q \in Operators :
           PassHolds(q) /\ PassCurrent(q) /\ PassApplied(q) /\ PassDeployed(q)
      /\ pc \in [Operators -> Steps] /\ idx \in [Operators -> Nat]
      /\ work \in [Operators -> Instance] /\ work[p] \in Instance
      /\ base \in [Operators -> [conds : Conditions, observedGeneration : Nat]]
      /\ again \in [Operators -> BOOLEAN] /\ queue \in [Operators -> BOOLEAN]
      /\ cache \in [Operators -> Instance] /\ notify \in [Operators -> BOOLEAN]
  BY DEF RestInv, Passes, TypeOK, StepType, WorkType, InformerType
<1>1. TypeOK'
  BY <1>a, OutsideType
<1>2. /\ inst' = inst /\ exists' = exists /\ owner' = owner
      /\ template' = template /\ pod' = pod
      /\ \A q \in Operators : q # p =>
           /\ pc'[q] = pc[q] /\ idx'[q] = idx[q] /\ work'[q] = work[q]
           /\ base'[q] = base[q] /\ again'[q] = again[q] /\ queue'[q] = queue[q]
           /\ cache'[q] = cache[q] /\ notify'[q] = notify[q]
  BY <1>a DEF ApiError, Restart, Observe, Resync, Stop, EndPass, Goto
<1>3. CacheCurrent'
  <2>1. cache'[p] = inst \/ (cache'[p] = cache[p] /\ notify'[p] = notify[p])
    BY <1>a DEF ApiError, Restart, Observe, Resync
  <2> QED
    BY <1>2, <1>a, <2>1 DEF CacheCurrent
<1>4. ASSUME NEW q \in Operators, q # p
      PROVE  PassHolds(q)' /\ PassCurrent(q)' /\ PassApplied(q)' /\ PassDeployed(q)'
  BY <1>2, <1>4, <1>a, PassRelies DEF SameOwner
<1>5. /\ PassHolds(p)' /\ PassCurrent(p)' /\ PassApplied(p)' /\ PassDeployed(p)'
      /\ inst'.uid = 0 \/ pc'[p] # "idle" \/ queue'[p] = TRUE
  <2>1. CASE ApiError(p) /\ pc[p] \notin {"idle", "status"}
    <3>1. /\ work'[p] = SetReady(work[p], StepReason(pc[p])) /\ again'[p] = TRUE
          /\ pc'[p] = "status" /\ base' = base /\ queue' = queue /\ cache' = cache
      BY <2>1, <1>a DEF ApiError, Stop, Goto
    <3>2. /\ StepReason(pc[p]) \in ReadyReasons \ {""}
          /\ StepReason(pc[p]) \notin {"WorkloadReady", "WorkloadNotReady"}
      BY <2>1, <1>a DEF StepReason, ReadyReasons, Steps
    <3>3. /\ work'[p].uid = work[p].uid /\ work'[p].gen = work[p].gen
          /\ work'[p].spec = work[p].spec
          /\ work'[p].conds.Ready.gen = work'[p].gen
          /\ work'[p].conds.Ready.reason = StepReason(pc[p])
      <4>1. StepReason(pc[p]) \in ReadyReasons
        BY <3>2
      <4> QED
        BY <3>1, <4>1, <1>a, SetterFacts
    <3>4. ~Through(p)' /\ \A o : ~Behind(p, o)'
      BY <3>1, <3>2, <3>3 DEF Through, Behind, SecretSteps
    <3> QED
      BY <2>1, <3>1, <3>2, <3>3, <3>4, <1>a
      DEF PassHolds, PassCurrent, PassApplied, PassDeployed
  <2>2. CASE (ApiError(p) /\ pc[p] = "status") \/ Restart(p)
    <3>1. pc'[p] = "idle"
      BY <2>2, <1>a DEF ApiError, Restart, EndPass, Goto
    <3>2. queue'[p] = TRUE \/ inst'.uid = 0
      BY <2>2, <1>a DEF ApiError, Restart
    <3> QED
      BY <3>1, <3>2 DEF PassHolds, PassCurrent, PassApplied, PassDeployed, Through
  <2>3. CASE Observe(p) \/ Resync(p)
    <3>1. /\ queue'[p] = TRUE /\ pc' = pc /\ idx' = idx /\ work' = work /\ again' = again
      BY <2>3, <1>a DEF Observe, Resync
    <3> QED
      BY <3>1, <1>a DEF PassHolds, PassCurrent, PassApplied, PassDeployed, Through
  <2>4. \/ ApiError(p) /\ pc[p] \notin {"idle", "status"}
        \/ (ApiError(p) /\ pc[p] = "status") \/ Restart(p)
        \/ Observe(p) \/ Resync(p)
    BY DEF ApiError
  <2> QED
    BY <2>1, <2>2, <2>3, <2>4
<1>6. RestingStatusIsOwn' /\ RestingIsServed'
  BY <1>5 DEF RestingStatusIsOwn, RestingIsServed, AtRest
<1> QED
  BY <1>1, <1>3, <1>4, <1>5, <1>6 DEF RestInv, Passes

\* A step that leaves every pass alone: it tells or queues every operator, or
\* leaves the instance and all that a pass relies on as they are.
LEMMA AsideRest ==
  ASSUME RestInv, TypeOK', UNCHANGED <<cache, passVars>>,
         \A q \in Operators : queue[q] => queue'[q],
         \/ \A q \in Operators : notify'[q] = TRUE
         \/ inst' = inst /\ notify' = notify,
         \A q \in Operators : ~queue'[q] =>
           /\ \A o \in Watched : SameOwner(o)
           /\ owner["deployment"] # 0 => template' = template /\ pod' = pod,
         \/ \A q \in Operators : notify'[q] = TRUE
         \/ src' = src
  PROVE  RestInv'
<1> USE DEF passVars
<1>1. \A q \in Operators :
        PassHolds(q)' /\ PassCurrent(q)' /\ PassApplied(q)' /\ PassDeployed(q)'
  BY PassRelies DEF RestInv, Passes
<1>2. CacheCurrent'
  BY DEF RestInv, CacheCurrent
<1>3. RestingStatusIsOwn' /\ RestingIsServed'
  <2> SUFFICES ASSUME AtRest', inst'.uid # 0
               PROVE  /\ Settled' /\ (inst.observedGeneration = inst.gen)'
                      /\ RestingIsServed'
    BY DEF RestingStatusIsOwn, RestingIsServed
  <2>1. PICK q \in Operators : TRUE
    BY OperatorsAssumption
  <2>2. ~queue'[q] /\ ~notify'[q]
    BY DEF AtRest
  <2>3. inst' = inst /\ notify' = notify /\ src' = src /\ AtRest
    BY <2>1, <2>2 DEF AtRest
  <2>4. /\ Settled /\ inst.observedGeneration = inst.gen
        /\ \A o \in AppliedFor(inst.spec) : o \in exists /\ owner[o] = inst.uid
        /\ \A v \in Claims :
             owner[v] = StatefulOwner(inst) /\ (StatefulOwner(inst) # 0 => v \in exists)
        /\ template = {Template(inst.spec)}
        /\ ReadyTrue(inst.conds) <=> pod # {}
    BY <2>3 DEF RestInv, RestingStatusIsOwn, RestingIsServed
  <2>5. /\ \A o \in AppliedFor(inst.spec) : o \in Watched
        /\ "deployment" \in AppliedFor(inst.spec)
    BY KindFacts DEF AppliedFor
  <2>6. inst.uid # 0
    BY <2>3
  <2>7. template' = template /\ pod' = pod
    BY <2>2, <2>4, <2>5, <2>6
  <2>8. /\ \A o \in AppliedFor(inst.spec) : o \in exists' /\ owner'[o] = inst.uid
        /\ \A v \in Claims :
             owner'[v] = StatefulOwner(inst) /\ (StatefulOwner(inst) # 0 => v \in exists')
    BY <2>2, <2>4, <2>5, <2>6, KindFacts DEF SameOwner
  <2>9. Settled'
    BY <2>3, <2>4 DEF Settled
  <2>10. RestingIsServed'
    BY <2>3, <2>4, <2>7, <2>8 DEF RestingIsServed, AppliedFor, StatefulOwner, ReadyTrue
  <2> QED
    BY <2>3, <2>4, <2>9, <2>10
<1> QED
  BY <1>1, <1>2, <1>3 DEF RestInv, Passes

\* Removing an object queues everyone unless nobody relies on it.
LEMMA RemoveRest ==
  ASSUME RestInv, TypeOK', NEW o \in Objects, Remove(o),
         UNCHANGED <<apiVars, cache, notify, passVars, src>>
  PROVE  RestInv'
<1>1. owner \in [Objects -> Nat] /\ queue \in [Operators -> BOOLEAN]
  BY DEF RestInv, TypeOK, ObjectType, InformerType
<1>2. \A q \in Operators : queue[q] => queue'[q]
  BY DEF Remove
<1>3. ASSUME NEW q \in Operators, ~queue'[q]
      PROVE  /\ \A x \in Watched : SameOwner(x)
             /\ owner["deployment"] # 0 => template' = template /\ pod' = pod
  <2>1. o \notin Watched \/ owner[o] = 0
    BY <1>3 DEF Remove
  <2>2. ASSUME NEW x \in Watched PROVE SameOwner(x)
    <3>1. x \in Objects /\ (x = o => owner[x] = 0)
      BY <2>1, KindFacts DEF Watched, Reproducible
    <3> QED
      BY <1>1, <3>1 DEF Remove, SameOwner
  <2>3. owner["deployment"] # 0 => template' = template /\ pod' = pod
    BY <2>1, KindFacts DEF Remove
  <2> QED
    BY <2>2, <2>3
<1> QED
  BY <1>2, <1>3, AsideRest DEF apiVars

\* The user and the cluster.
LEMMA UserRest ==
  ASSUME RestInv, User \/ Cluster
  PROVE  RestInv'
<1> USE DEF objVars, envVars, histVars
<1>a. TypeOK /\ TypeOK'
  BY UserType, ClusterType DEF RestInv
<1>1. ASSUME NotifyAll, UNCHANGED <<exists, owner, template, pod, cache, queue, passVars>>
      PROVE  RestInv'
  BY <1>1, <1>a, AsideRest DEF NotifyAll, SameOwner
<1>2. ASSUME UNCHANGED <<apiVars, exists, owner, template, pod, cache, notify, queue,
                         passVars, src>>
      PROVE  RestInv'
  BY <1>2, <1>a, AsideRest DEF apiVars, SameOwner
<1>3. ASSUME NEW t, SetPod(t) PROVE RestInv'
  BY <1>3, <1>a, AsideRest DEF SetPod, apiVars, SameOwner
<1>4. ASSUME NEW spec \in Specs, CreateInstance(spec) \/ EditSpec(spec) PROVE RestInv'
  BY <1>4, <1>1 DEF CreateInstance, EditSpec
<1>5. CASE DeleteInstance \/ DeleteInForeground \/ FinishDeletion
  BY <1>5, <1>1 DEF DeleteInstance, DeleteInForeground, FinishDeletion, DropInstance
<1>6. ASSUME NEW o \in Droppable, DropChild(o) PROVE RestInv'
  BY <1>6, <1>a, RemoveRest, DroppableAssumption DEF DropChild
<1>7. ASSUME NEW o \in Objects, GarbageCollect(o) PROVE RestInv'
  BY <1>7, <1>a, RemoveRest DEF GarbageCollect
<1>8. CASE InstallCNPG \/ ChangeExternalSecret
  BY <1>8, <1>2 DEF InstallCNPG, ChangeExternalSecret
<1>9. CASE RollOut \/ PodReady \/ PodFail
  BY <1>9, <1>3 DEF RollOut, PodReady, PodFail
<1> QED
  BY <1>4, <1>5, <1>6, <1>7, <1>8, <1>9 DEF User, Cluster

\* The invariant holds at first and every step keeps it.
LEMMA RestInductive ==
  /\ Init => RestInv
  /\ RestInv /\ [Next]_vars => RestInv'
<1>1. ASSUME Init PROVE RestInv
  <2>1. inst.uid = 0
    BY <1>1, NoInstanceFacts DEF Init
  <2>2. Passes /\ CacheCurrent
    BY <1>1
    DEF Init, Passes, CacheCurrent, PassHolds, PassCurrent, PassApplied, PassDeployed, Through
  <2> QED
    BY <1>1, <2>1, <2>2, InitType DEF RestInv, RestingStatusIsOwn, RestingIsServed
<1>2. ASSUME RestInv, Next PROVE RestInv'
  BY <1>2, PassRest, OutsideRest, UserRest DEF Next
<1>3. ASSUME RestInv, UNCHANGED vars PROVE RestInv'
  <2>1. TypeOK'
    BY <1>3, NextType DEF RestInv
  <2> QED
    BY <1>3, <2>1, AsideRest
    DEF SameOwner, vars, apiVars, objVars, passVars, histVars
<1> QED
  BY <1>1, <1>2, <1>3

(***************************************************************************)
(* Wherever the controller comes to rest, the status is the result of a    *)
(* whole pass over the present instance at its present generation:         *)
(* patchStatus, the requeues and the watch on the instance together never  *)
(* leave a stale or a foreign status behind.                               *)
(***************************************************************************)
THEOREM RestsOnOwnStatus == Spec => []RestingStatusIsOwn
<1>1. RestInv => RestingStatusIsOwn
  BY DEF RestInv
<1> QED
  BY <1>1, RestInductive, PTL DEF Spec

(***************************************************************************)
(* And the cluster holds what the present spec asks for: every change to   *)
(* what a pass has applied, by whomever, makes another pass.               *)
(***************************************************************************)
THEOREM RestsServed == Spec => []RestingIsServed
<1>1. RestInv => RestingIsServed
  BY DEF RestInv
<1> QED
  BY <1>1, RestInductive, PTL DEF Spec
=============================================================================
