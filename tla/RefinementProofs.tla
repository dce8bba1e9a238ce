-------------------------- MODULE RefinementProofs --------------------------
(***************************************************************************)
(* Reconciler implements DeletionPolicy, for every set of operators,       *)
(* volumes and specs and for all bounds.                                   *)
(*                                                                         *)
(* OwnershipInv (ReconcilerProofs) gives what a write and a collection     *)
(* need: a pass writes an owner reference only for an instance recorded as *)
(* having asked for Delete.  IssuedInv adds what a creation needs, that a  *)
(* new UID has never asked and owns nothing, and what a deletion in the    *)
(* foreground needs, that it is the deletion of somebody.                  *)
(***************************************************************************)
EXTENDS ReconcilerProofs

IssuedInv ==
  /\ inst.uid <= uids /\ \A u \in everDelete : u <= uids
  /\ deleting => inst.uid # 0

RefinementInv == OwnershipInv /\ IssuedInv

\* UIDs are handed out in order, and only instances ask.
LEMMA IssuedStep ==
  ASSUME TypeOK, IssuedInv, [Next]_vars
  PROVE  IssuedInv'
<1>a. inst \in Instance /\ uids \in Nat /\ everDelete \in SUBSET Nat
  BY DEF TypeOK, ApiType, HistoryType
<1>b. inst.uid \in Nat /\ NoInstance.uid = 0
  BY <1>a DEF Instance, NoInstance
<1>1. ASSUME NEW p \in Operators, OperatorStep(p) PROVE IssuedInv'
  <2>1. inst'.uid = inst.uid /\ everDelete' = everDelete
    BY <1>1, PassCopies
  <2>2. uids' = uids /\ deleting' = deleting
    BY <1>1 DEF OperatorStep, BeginPass, GetSecret, CreateSecret, PatchSecret,
       ReconcileStorage, ReconcileExternalDatabase, CnpgInstalled, ApplyCluster,
       ReconcileCache, ApplyService, ApplyDeployment, PatchStatus,
       PatchStatusNotFound, apiVars, envVars
  <2> QED
    BY <2>1, <2>2 DEF IssuedInv
<1>2. ASSUME NEW spec \in Specs, CreateInstance(spec) PROVE IssuedInv'
  <2>1. uids' = uids + 1 /\ inst'.uid = uids + 1
    BY <1>2 DEF CreateInstance
  <2>2. everDelete' \subseteq everDelete \cup {inst'.uid}
    BY <1>2 DEF CreateInstance, RecordPolicy
  <2>3. deleting' = deleting /\ inst.uid = 0
    BY <1>2 DEF CreateInstance, envVars
  <2> QED
    BY <2>1, <2>2, <2>3, <1>a DEF IssuedInv
<1>3. ASSUME NEW spec \in Specs, EditSpec(spec) PROVE IssuedInv'
  <2>1. uids' = uids /\ inst'.uid = inst.uid /\ inst.uid # 0
    BY <1>3, <1>a DEF EditSpec, Instance
  <2>2. everDelete' \subseteq everDelete \cup {inst'.uid}
    BY <1>3 DEF EditSpec, RecordPolicy
  <2> QED
    BY <2>1, <2>2, <1>a DEF IssuedInv
<1>4. CASE DeleteInstance \/ FinishDeletion
  <2>1. inst'.uid = 0 /\ uids' = uids /\ everDelete' = everDelete /\ ~deleting'
    BY <1>4, <1>b DEF DeleteInstance, FinishDeletion, DropInstance
  <2> QED
    BY <2>1, <1>a DEF IssuedInv
<1>5. CASE DeleteInForeground
  <2>1. inst'.uid = inst.uid /\ uids' = uids /\ everDelete' = everDelete
        /\ inst.uid # 0
    BY <1>5, <1>a DEF DeleteInForeground, Instance, histVars
  <2> QED
    BY <2>1 DEF IssuedInv
<1>6. CASE UNCHANGED <<inst, uids, everDelete, deleting>>
  BY <1>6 DEF IssuedInv
<1>7. ASSUME NEW p \in Operators, ApiError(p) \/ Restart(p) \/ Observe(p) \/ Resync(p)
      PROVE  UNCHANGED <<inst, uids, everDelete, deleting>>
  BY <1>7 DEF ApiError, Restart, Observe, Resync, apiVars, envVars, histVars
<1>8. ASSUME NEW o, DropChild(o) \/ GarbageCollect(o)
      PROVE  UNCHANGED <<inst, uids, everDelete, deleting>>
  BY <1>8 DEF DropChild, GarbageCollect, apiVars, envVars, histVars
<1>9. CASE InstallCNPG \/ ChangeExternalSecret \/ RollOut \/ PodReady \/ PodFail
  BY <1>6, <1>9 DEF InstallCNPG, ChangeExternalSecret, RollOut, PodReady, PodFail,
     SetPod, apiVars, envVars, histVars
<1>10. CASE UNCHANGED vars
  BY <1>6, <1>10 DEF vars, apiVars, envVars, histVars
<1> QED
  BY <1>1, <1>2, <1>3, <1>4, <1>5, <1>6, <1>7, <1>8, <1>9, <1>10
  DEF Next, User, Cluster

LEMMA RefinementInductive ==
  /\ Init => RefinementInv
  /\ RefinementInv /\ [Next]_vars => RefinementInv'
<1>1. Init => IssuedInv
  BY DEF Init, IssuedInv, NoInstance
<1>2. OwnershipInv => TypeOK
  BY DEF OwnershipInv
<1> QED
  BY <1>1, <1>2, OwnershipInductive, IssuedStep DEF RefinementInv

-----------------------------------------------------------------------------
(***************************************************************************)
(* The steps, one by one.                                                  *)
(***************************************************************************)

\* The instance, the marks and the stateful objects as DeletionPolicy sees them.
SameToPolicy ==
  /\ inst'.uid = inst.uid /\ deleting' = deleting /\ everDelete' = everDelete
  /\ exists' \cap Stateful = exists \cap Stateful
  /\ \A o \in Stateful : owner'[o] = owner[o]
  /\ key' = key /\ size' = size

LEMMA Stutter ==
  ASSUME TypeOK, TypeOK', SameToPolicy
  PROVE  UNCHANGED Policy!vars
<1>1. [o \in Stateful |-> owner'[o]] = [o \in Stateful |-> owner[o]]
  BY DEF SameToPolicy
<1> QED
  BY <1>1 DEF SameToPolicy, Policy!vars, Policy!nameVars, Policy!dataVars

\* A write of a stateful object by a pass.
LEMMA WriteProvides ==
  ASSUME OwnershipInv, TypeOK', NEW p \in Operators, NEW o \in Stateful, NEW changed,
         Write(o, StatefulOwner(work[p]), changed),
         inst'.uid = inst.uid, deleting' = deleting, everDelete' = everDelete,
         \A s \in Secrets \ {o} : key'[s] = key[s],
         o \in exists \cap Secrets => key'[o] = key[o],
         \A v \in Claims \ {o} : size'[v] = size[v],
         o \in exists \cap Claims => size'[o] >= size[o]
  PROVE  Policy!Provide(o)
<1>1. StatefulOwner(work[p]) \in everDelete \cup {0}
  BY DEF OwnershipInv, DeleteRecorded, Recorded, StatefulOwner
<1>2. owner' = [owner EXCEPT ![o] = StatefulOwner(work[p])]
      /\ exists' = exists \cup {o} /\ o \in Objects /\ Stateful \subseteq Objects
  BY DEF Write, Objects
<1>3. owner \in [Objects -> Nat] /\ owner' \in [Objects -> Nat]
      /\ key' \in [Secrets -> SUBSET Keys] /\ size' \in [Claims -> Nat]
  BY DEF OwnershipInv, TypeOK, ObjectType
<1> DEFINE own == [d \in Stateful |-> owner[d]]
           own1 == [d \in Stateful |-> owner'[d]]
<1>4. /\ own1 \in [Stateful -> Nat] /\ own1[o] \in everDelete \cup {0}
      /\ \A d \in Stateful \ {o} : own1[d] = own[d]
  BY <1>1, <1>2, <1>3
<1>5. exists' \cap Stateful = (exists \cap Stateful) \cup {o}
  BY <1>2
<1>6. Policy!OnlyConcerns(o)
  BY <1>3, <1>4 DEF Policy!OnlyConcerns, Policy!nameVars
<1> QED
  BY <1>4, <1>5, <1>6 DEF Policy!Provide

\* A write of anything else.
LEMMA OtherWrite ==
  ASSUME TypeOK, NEW o \in Objects \ Stateful, NEW u, NEW changed,
         Write(o, u, changed), key' = key, size' = size,
         inst'.uid = inst.uid, deleting' = deleting, everDelete' = everDelete
  PROVE  SameToPolicy
<1>1. owner' = [owner EXCEPT ![o] = u] /\ exists' = exists \cup {o}
      /\ Stateful \subseteq Objects /\ owner \in [Objects -> Nat]
  BY DEF Write, Objects, TypeOK, ObjectType
<1> QED
  BY <1>1 DEF SameToPolicy

\* What a pass does.
LEMMA PassImplements ==
  ASSUME OwnershipInv, TypeOK', NEW p \in Operators, OperatorStep(p)
  PROVE  SameToPolicy \/ \E o \in Stateful : Policy!Provide(o)
<1> USE DEF objVars
<1>a. /\ TypeOK /\ StepType
      /\ key \in [Secrets -> SUBSET Keys] /\ size \in [Claims -> Nat]
      /\ work[p] \in Instance
  BY DEF OwnershipInv, TypeOK, ObjectType, WorkType
<1>b. inst'.uid = inst.uid /\ everDelete' = everDelete
  BY <1>a, PassCopies
<1>c. deleting' = deleting
  BY DEF OperatorStep, BeginPass, GetSecret, CreateSecret, PatchSecret,
     ReconcileStorage, ReconcileExternalDatabase, CnpgInstalled, ApplyCluster,
     ReconcileCache, ApplyService, ApplyDeployment, PatchStatus,
     PatchStatusNotFound, envVars
<1>d. Secrets \subseteq Stateful /\ Claims \subseteq Stateful /\ "db" \in Stateful
  BY DEF Stateful
<1>e. /\ Secrets \cap Claims = {} /\ "db" \notin Secrets /\ "db" \notin Claims
  BY ClaimFacts DEF Secrets, VolumeNames
<1>f. /\ CacheParts \subseteq Objects \ Stateful
      /\ "service" \in Objects \ Stateful /\ "deployment" \in Objects \ Stateful
  BY ClaimFacts, ListFacts DEF CacheParts, Stateful, Secrets, VolumeNames
<1>1. CASE UNCHANGED <<exists, owner, key, size>>
  BY <1>1, <1>b, <1>c DEF SameToPolicy
<1>2. CASE CreateSecret(p) \/ PatchSecret(p)
  <2>0. pc[p] \in SecretSteps
    BY <1>2 DEF CreateSecret, PatchSecret, SecretSteps
  <2>1. PICK s \in Secrets : s = ThisSecret(p)
    BY <2>0, <1>a, ListFacts DEF ThisSecret, StepType, WithinList
  <2>2. \/ UNCHANGED <<exists, owner, key, size>>
        \/ /\ \E changed : Write(s, StatefulOwner(work[p]), changed)
           /\ size' = size
           /\ key' = key \/ (s \notin exists /\ \E k : key' = [key EXCEPT ![s] = k])
    BY <1>2, <2>1 DEF CreateSecret, PatchSecret
  <2>3. CASE UNCHANGED <<exists, owner, key, size>>
    BY <2>3, <1>1
  <2>4. ASSUME NEW changed, Write(s, StatefulOwner(work[p]), changed), size' = size,
               key' = key \/ (s \notin exists /\ \E k : key' = [key EXCEPT ![s] = k])
        PROVE  \E o \in Stateful : Policy!Provide(o)
    <3>1. /\ \A x \in Secrets \ {s} : key'[x] = key[x]
          /\ s \in exists \cap Secrets => key'[s] = key[s]
      BY <2>4, <1>a
    <3>2. /\ \A v \in Claims \ {s} : size'[v] = size[v]
          /\ s \in exists \cap Claims => size'[s] >= size[s]
      BY <2>1, <2>4, <1>a, <1>e
    <3>3. s \in Stateful
      BY <1>d
    <3>4. Policy!Provide(s)
      BY <2>4, <3>1, <3>2, <3>3, <1>b, <1>c, WriteProvides
    <3> QED
      BY <3>3, <3>4
  <2> QED
    BY <2>2, <2>3, <2>4
<1>3. CASE ReconcileStorage(p)
  <2>0. PICK v \in Claims : v = Volumes[idx[p]]
    BY <1>3, <1>a, ClaimFacts DEF ReconcileStorage, StepType, WithinList
  <2>1. PICK want \in Nat : want = SizeOrDefault(work[p].spec, v)
    BY <1>a, ClaimFacts, BuilderFacts DEF Instance
  <2>2. \/ UNCHANGED <<exists, owner, key, size>>
        \/ /\ \E changed : Write(v, StatefulOwner(work[p]), changed)
           /\ key' = key /\ size[v] <= want /\ size' = [size EXCEPT ![v] = want]
    BY <1>3, <2>0, <2>1 DEF ReconcileStorage
  <2>3. CASE UNCHANGED <<exists, owner, key, size>>
    BY <2>3, <1>1
  <2>4. ASSUME NEW changed, Write(v, StatefulOwner(work[p]), changed), key' = key,
               size[v] <= want, size' = [size EXCEPT ![v] = want]
        PROVE  \E o \in Stateful : Policy!Provide(o)
    <3>1. /\ \A x \in Claims \ {v} : size'[x] = size[x]
          /\ v \in exists \cap Claims => size'[v] >= size[v]
      BY <2>1, <2>4, <1>a
    <3>2. /\ \A s \in Secrets \ {v} : key'[s] = key[s]
          /\ v \in exists \cap Secrets => key'[v] = key[v]
      BY <2>4
    <3>3. v \in Stateful
      BY <1>d
    <3>4. Policy!Provide(v)
      BY <2>4, <3>1, <3>2, <3>3, <1>b, <1>c, WriteProvides
    <3> QED
      BY <3>3, <3>4
  <2> QED
    BY <2>2, <2>3, <2>4
<1>4. CASE ApplyCluster(p)
  <2>1. Write("db", StatefulOwner(work[p]), FALSE) /\ key' = key /\ size' = size
    BY <1>4 DEF ApplyCluster
  <2>2. Policy!Provide("db")
    BY <2>1, <1>b, <1>c, <1>d, <1>e, WriteProvides
  <2> QED
    BY <2>2, <1>d
<1>5. CASE ReconcileCache(p)
  <2>1. CacheOrder[idx[p]] \in CacheParts
    BY <1>5, <1>a, ListFacts DEF ReconcileCache, StepType, WithinList
  <2>2. \E u, changed : Write(CacheOrder[idx[p]], u, changed)
        /\ key' = key /\ size' = size
    BY <1>5 DEF ReconcileCache
  <2> QED
    BY <2>1, <2>2, <1>a, <1>b, <1>c, <1>f, OtherWrite
<1>6. CASE ApplyService(p) \/ ApplyDeployment(p)
  <2>1. \E o \in {"service", "deployment"} : \E u, changed : Write(o, u, changed)
    BY <1>6 DEF ApplyService, ApplyDeployment
  <2>2. key' = key /\ size' = size
    BY <1>6 DEF ApplyService, ApplyDeployment
  <2> QED
    BY <2>1, <2>2, <1>a, <1>b, <1>c, <1>f, OtherWrite
<1>7. CASE BeginPass(p) \/ GetSecret(p) \/ ReconcileExternalDatabase(p)
           \/ CnpgInstalled(p) \/ PatchStatus(p) \/ PatchStatusNotFound(p)
  <2>1. UNCHANGED objVars
    BY <1>7 DEF BeginPass, GetSecret, ReconcileExternalDatabase, CnpgInstalled,
                PatchStatus, PatchStatusNotFound
  <2> QED
    BY <2>1, <1>1
<1> QED
  BY <1>2, <1>3, <1>4, <1>5, <1>6, <1>7 DEF OperatorStep

\* What the garbage collector removes was the property of one who asked.
LEMMA RemoveLoses ==
  ASSUME TypeOK, TypeOK', NEW o \in exists, Remove(o),
         inst' = inst, deleting' = deleting, everDelete' = everDelete
  PROVE  IF o \in Stateful THEN Policy!Lose(o) ELSE SameToPolicy
<1>1. /\ owner \in [Objects -> Nat] /\ owner' \in [Objects -> Nat]
      /\ key \in [Secrets -> SUBSET Keys] /\ key' \in [Secrets -> SUBSET Keys]
      /\ size \in [Claims -> Nat] /\ size' \in [Claims -> Nat]
      /\ exists \subseteq Objects /\ Stateful \subseteq Objects
      /\ Secrets \subseteq Stateful /\ Claims \subseteq Stateful
  BY DEF TypeOK, ObjectType, Objects, Stateful
<1>2. /\ owner' = [owner EXCEPT ![o] = 0] /\ exists' = exists \ {o}
      /\ \A s \in Secrets \ {o} : key'[s] = key[s]
      /\ \A v \in Claims \ {o} : size'[v] = size[v]
  BY <1>1 DEF Remove
<1>3. CASE o \in Stateful
  <2> DEFINE own == [d \in Stateful |-> owner[d]]
             own1 == [d \in Stateful |-> owner'[d]]
  <2>1. /\ own1 \in [Stateful -> Nat] /\ own1[o] = 0
        /\ \A d \in Stateful \ {o} : own1[d] = own[d]
    BY <1>1, <1>2, <1>3
  <2>2. exists' \cap Stateful = (exists \cap Stateful) \ {o}
    BY <1>2
  <2>3. Policy!OnlyConcerns(o)
    BY <1>1, <1>2, <2>1 DEF Policy!OnlyConcerns, Policy!nameVars
  <2> QED
    BY <1>3, <2>1, <2>2, <2>3 DEF Policy!Lose
<1>4. CASE o \notin Stateful
  <2>1. /\ \A s \in Secrets : key'[s] = key[s]
        /\ \A v \in Claims : size'[v] = size[v]
    BY <1>1, <1>2, <1>4
  <2>2. key' = key /\ size' = size
    BY <1>1, <2>1
  <2> QED
    BY <1>1, <1>2, <1>4, <2>2 DEF SameToPolicy
<1> QED
  BY <1>3, <1>4

\* What the user and the cluster do.
LEMMA RestImplements ==
  ASSUME RefinementInv, TypeOK', Next, ~\E p \in Operators : OperatorStep(p)
  PROVE  SameToPolicy \/ Policy!Next
<1> USE DEF apiVars, objVars, envVars, passVars, histVars
<1>a. /\ TypeOK /\ inst \in Instance /\ uids \in Nat /\ everDelete \in SUBSET Nat
      /\ owner \in [Objects -> Nat] /\ Stateful \subseteq Objects
  BY DEF RefinementInv, OwnershipInv, TypeOK, ApiType, ObjectType, HistoryType, Objects
<1>b. inst.uid \in Nat /\ NoInstance.uid = 0
  BY <1>a DEF Instance, NoInstance
<1>c. ASSUME inst'.uid = inst.uid, deleting' = deleting, everDelete' = everDelete,
             UNCHANGED <<exists, owner, key, size>>
      PROVE  SameToPolicy
  BY <1>c DEF SameToPolicy
<1>d. ASSUME UNCHANGED <<exists, owner, key, size>> PROVE UNCHANGED Policy!dataVars
  BY <1>d DEF Policy!dataVars
<1>1. ASSUME NEW p \in Operators, ApiError(p) \/ Restart(p) \/ Observe(p) \/ Resync(p)
      PROVE  SameToPolicy
  BY <1>1, <1>c DEF ApiError, Restart, Observe, Resync
<1>2. ASSUME NEW spec \in Specs, CreateInstance(spec) PROVE Policy!Create
  <2>1. /\ inst.uid = 0 /\ inst'.uid = uids + 1 /\ deleting' = deleting
        /\ UNCHANGED <<exists, owner, key, size>>
    BY <1>2 DEF CreateInstance
  <2>2. everDelete' = everDelete \/ everDelete' = everDelete \cup {inst'.uid}
    BY <1>2 DEF CreateInstance, RecordPolicy
  <2>3. inst'.uid # 0 /\ inst'.uid \notin everDelete
    BY <2>1, <1>a DEF RefinementInv, IssuedInv
  <2>4. \A o \in Stateful : owner[o] # inst'.uid
    BY <2>3, <1>a DEF RefinementInv, OwnershipInv, OwnedOnlyUnderDelete
  <2>5. \A o \in Stateful : [d \in Stateful |-> owner[d]][o] # inst'.uid
    BY <2>4
  <2> QED
    BY <2>1, <2>2, <2>3, <2>5, <1>d DEF Policy!Create
<1>3. ASSUME NEW spec \in Specs, EditSpec(spec) PROVE SameToPolicy \/ Policy!Ask
  <2>1. /\ inst.uid # 0 /\ inst'.uid = inst.uid /\ deleting' = deleting
        /\ UNCHANGED <<exists, owner, key, size>>
    BY <1>3, <1>a DEF EditSpec, Instance
  <2>2. everDelete' = everDelete \/ everDelete' = everDelete \cup {inst.uid}
    BY <1>3, <2>1 DEF EditSpec, RecordPolicy
  <2> QED
    BY <2>1, <2>2, <1>c, <1>d DEF Policy!Ask
<1>4. CASE DeleteInstance \/ FinishDeletion
  <2>1. /\ inst'.uid = 0 /\ deleting' = FALSE /\ everDelete' = everDelete
        /\ UNCHANGED <<exists, owner, key, size>>
    BY <1>4, <1>b DEF DeleteInstance, FinishDeletion, DropInstance
  <2>2. inst.uid # 0
    BY <1>4 DEF DeleteInstance, FinishDeletion, RefinementInv, IssuedInv
  <2> QED
    BY <2>1, <2>2, <1>d DEF Policy!Next, Policy!Go
<1>5. CASE DeleteInForeground
  <2>1. /\ inst.uid # 0 /\ inst'.uid = inst.uid /\ deleting' = TRUE
        /\ everDelete' = everDelete /\ UNCHANGED <<exists, owner, key, size>>
    BY <1>5, <1>a DEF DeleteInForeground, Instance
  <2> QED
    BY <2>1, <1>d DEF Policy!Next, Policy!Leave
<1>6. ASSUME NEW o \in Droppable, DropChild(o) PROVE SameToPolicy \/ Policy!Next
  <2>1. o \in exists /\ Remove(o) /\ inst' = inst /\ deleting' = deleting
        /\ everDelete' = everDelete
    BY <1>6 DEF DropChild
  <2>2. IF o \in Stateful THEN Policy!Lose(o) ELSE SameToPolicy
    BY <2>1, <1>a, RemoveLoses
  <2> QED
    BY <2>2 DEF Policy!Next
<1>7. ASSUME NEW o \in Objects, GarbageCollect(o) PROVE SameToPolicy \/ Policy!Next
  <2>1. o \in exists /\ Remove(o) /\ inst' = inst /\ deleting' = deleting
        /\ everDelete' = everDelete /\ owner[o] # 0
        /\ (owner[o] # inst.uid \/ deleting)
    BY <1>7 DEF GarbageCollect
  <2>2. IF o \in Stateful THEN Policy!Lose(o) ELSE SameToPolicy
    BY <2>1, <1>a, RemoveLoses
  <2>3. CASE o \in Stateful
    <3>1. owner[o] \in everDelete /\ [d \in Stateful |-> owner[d]][o] = owner[o]
      BY <2>1, <2>3 DEF RefinementInv, OwnershipInv, OwnedOnlyUnderDelete
    <3>2. Policy!Discard(o)
      BY <2>1, <2>2, <2>3, <3>1 DEF Policy!Discard
    <3> QED
      BY <2>3, <3>2 DEF Policy!Next
  <2> QED
    BY <2>2, <2>3
<1>8. CASE InstallCNPG \/ ChangeExternalSecret \/ RollOut \/ PodReady \/ PodFail
  BY <1>8, <1>c DEF InstallCNPG, ChangeExternalSecret, RollOut, PodReady, PodFail, SetPod
<1>9. Policy!Create \/ Policy!Ask => Policy!Next
  BY DEF Policy!Next
<1> QED
  BY <1>1, <1>2, <1>3, <1>4, <1>5, <1>6, <1>7, <1>8, <1>9 DEF Next, User, Cluster

(***************************************************************************)
(* Whatever the operators, the cluster and the user do, the data kept      *)
(* under the instance's name changes only as DeletionPolicy allows.        *)
(***************************************************************************)
THEOREM PolicyImplemented == Spec => ImplementsDeletionPolicy
<1>1. Init => Policy!Init
  <2> SUFFICES ASSUME Init PROVE Policy!Init
    OBVIOUS
  <2>1. [o \in Stateful |-> owner[o]] = [o \in Stateful |-> 0]
    BY DEF Init, Objects
  <2> QED
    BY <2>1 DEF Init, Policy!Init, NoInstance
<1>2. RefinementInv /\ [Next]_vars => [Policy!Next]_(Policy!vars)
  <2> SUFFICES ASSUME RefinementInv, [Next]_vars
               PROVE  Policy!Next \/ UNCHANGED Policy!vars
    OBVIOUS
  <2>a. OwnershipInv /\ TypeOK /\ TypeOK'
    BY NextType DEF RefinementInv, OwnershipInv
  <2>1. CASE UNCHANGED vars
    <3>1. SameToPolicy
      BY <2>1 DEF vars, apiVars, objVars, envVars, histVars, SameToPolicy
    <3> QED
      BY <3>1, <2>a, Stutter
  <2>2. ASSUME NEW p \in Operators, OperatorStep(p)
        PROVE  Policy!Next \/ UNCHANGED Policy!vars
    <3>1. SameToPolicy \/ \E o \in Stateful : Policy!Provide(o)
      BY <2>2, <2>a, PassImplements
    <3> QED
      BY <3>1, <2>a, Stutter DEF Policy!Next
  <2>3. CASE Next /\ ~\E p \in Operators : OperatorStep(p)
    BY <2>3, <2>a, RestImplements, Stutter
  <2> QED
    BY <2>1, <2>2, <2>3
<1> QED
  BY <1>1, <1>2, RefinementInductive, PTL DEF Spec, ImplementsDeletionPolicy, Policy!Spec
=============================================================================
