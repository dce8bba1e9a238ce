----------------------------- MODULE Reconciler -----------------------------
(***************************************************************************)
(* PaperlessInstanceReconciler: the reconcile loop of                      *)
(* internal/controller, for one PaperlessInstance name, together with what *)
(* it runs against.                                                        *)
(*                                                                         *)
(*   - the operator processes (Operators; one under leader election), each *)
(*     with its informer cache, work queue and at most one reconcile pass  *)
(*     in flight for the name;                                             *)
(*   - the API server: the instance object and the objects the operator    *)
(*     writes, with their controller owner reference;                      *)
(*   - the garbage collector, the Deployment controller and the kubelet;   *)
(*   - the user, who creates, edits, deletes and recreates the instance,   *)
(*     and what goes wrong: failing API calls, operator restarts, deleted  *)
(*     children, failing pods.                                             *)
(*                                                                         *)
(* A pass reads the instance from its cache once, then makes one API call  *)
(* per step; everything else may happen between two calls.  Each call is   *)
(* one action.  Only the operator is this repository's code; the rest is   *)
(* modelled from how the code uses it.                                     *)
(***************************************************************************)
EXTENDS PaperlessSpec, Sequences, FiniteSets

CONSTANTS
  Operators,    \* running operator processes
  Volumes,      \* the PersistentVolumeClaims, in the order they are applied
  Specs,        \* the specs a user writes
  Keys,         \* the values RandomKey may mint
  MaxUID,       \* bound: how often the instance is created
  MaxGen,       \* bound: generations per created instance
  MaxChaos,     \* bound: failing calls, restarts, pod failures, lost children
  Droppable,    \* the children a user may delete by hand
  Cascades,     \* how an instance is deleted: background, foreground
  CrdAtStart,   \* whether CloudNativePG may be, or not be, installed at first
  ExtAtStart    \* the external database's Secret at first

ASSUME VolumesAssumption ==
  /\ Volumes \in Seq(VolumeNames)
  /\ Len(Volumes) >= 1

ASSUME SpecsAssumption ==
  Specs \subseteq {s \in PaperlessInstanceSpec : Admitted(s)}

ASSUME BoundsAssumption ==
  MaxUID \in Nat /\ MaxGen \in Nat /\ MaxChaos \in Nat

ASSUME ImagesAssumption == Images # {}

ASSUME OperatorsAssumption == Operators # {}

ExternalSecretStates == {"missing", "invalid", "valid"}

ASSUME StartAssumption ==
  CrdAtStart \subseteq BOOLEAN /\ ExtAtStart \subseteq ExternalSecretStates

Claims == {Volumes[i] : i \in 1..Len(Volumes)}

SecretOrder == <<"secret-key", "admin">>
CacheOrder  == <<"valkey-deployment", "valkey-service", "valkey-pvc">>
CacheParts  == {"valkey-deployment", "valkey-service", "valkey-pvc"}

\* What spec.deletionPolicy governs, and what is always deleted with the instance.
Stateful     == Secrets \cup Claims \cup {"db"}
Reproducible == CacheParts \cup {"service", "deployment"}
Objects      == Stateful \cup Reproducible

\* mutation: SetupWithManager does not Own Services
WatchedNoService == (Reproducible \ {"service"}) \cup Claims

\* SetupWithManager Owns Deployments, Services and PersistentVolumeClaims.
Watched == Reproducible \cup Claims

ASSUME DroppableAssumption == Droppable \subseteq Objects

ASSUME CascadesAssumption == Cascades \subseteq {"background", "foreground"}

VARIABLES
  \* API server
  inst,       \* the PaperlessInstance; uid 0 when there is none
  uids,       \* UIDs handed out so far
  exists,     \* the objects that exist
  owner,      \* UID in an object's controller owner reference, 0 for none
  key,        \* value stored in a generated Secret
  size,       \* storage request of a PersistentVolumeClaim
  template,   \* pod template of the Deployment: {} when there is none
  pod,        \* template of the Deployment's ready replica: {} when there is none
  crd,        \* CloudNativePG's Cluster CustomResourceDefinition is registered
  ext,        \* the external database's credentials Secret
  deleting,   \* the instance has a deletionTimestamp and waits for its objects
  \* each operator process
  cache,      \* informer cache: the instance as last delivered by the watch
  notify,     \* the watch has an event for the instance in flight
  queue,      \* the name is in the work queue
  pc, idx,    \* the pass in flight: its step, and the position in its list
  work,       \* the pass's inst: as read, its conditions since rewritten
  base,       \* the pass's base: the status as read
  again,      \* the pass ends in an error or a RequeueAfter
  \* bounds and history
  chaos,      \* failures so far
  everDelete, \* UIDs of instances whose policy has ever been Delete
  ever,       \* objects that have ever existed
  src         \* UID of the instance the stored conditions were computed for

apiVars  == <<inst, uids>>
objVars  == <<exists, owner, key, size, template, pod>>
envVars  == <<crd, ext, deleting>>
passVars == <<pc, idx, work, base, again>>
histVars == <<chaos, everDelete, ever, src>>
vars == <<apiVars, objVars, envVars, cache, notify, queue, passVars, histVars>>

-----------------------------------------------------------------------------
(***************************************************************************)
(* Status.  A condition is its reason and observedGeneration; Ready is     *)
(* True exactly for the reason WorkloadReady.  Messages and                *)
(* lastTransitionTime are not kept (see PatchStatus).                      *)
(***************************************************************************)
ReadyReasons ==
  {"", "Reconciling", "SecretsNotReady", "StorageNotReady",
   "DatabaseNotReady", "CacheNotReady", "WorkloadApplyFailed",
   "WorkloadNotReady", "WorkloadReady"}

DatabaseReasons ==
  {"", "ExternalDatabaseSecretMissing", "ExternalDatabaseSecretInvalid",
   "ExternalDatabaseConfigured", "CloudNativePGMissing",
   "CloudNativePGClusterApplied"}

Conditions ==
  [Ready         : [reason : ReadyReasons, gen : Nat],
   DatabaseReady : [reason : DatabaseReasons, gen : Nat]]

NoConditions ==
  [Ready         |-> [reason |-> "", gen |-> 0],
   DatabaseReady |-> [reason |-> "", gen |-> 0]]

ReadyTrue(conds) == conds.Ready.reason = "WorkloadReady"

Instance ==
  [uid : Nat, gen : Nat, spec : PaperlessInstanceSpec, conds : Conditions,
   observedGeneration : Nat]

DefaultSpec ==
  [deletionPolicy |-> "", cnpg |-> FALSE, external |-> FALSE,
   managed |-> "nil", url |-> FALSE, urlSecretRef |-> FALSE,
   adminEnabled |-> "nil", passwordSecretRef |-> FALSE,
   secretKeySecretRef |-> FALSE, storage |-> [v \in VolumeNames |-> 0],
   image |-> CHOOSE i \in Images : TRUE]

NoInstance ==
  [uid |-> 0, gen |-> 0, spec |-> DefaultSpec, conds |-> NoConditions,
   observedGeneration |-> 0]

NoStatus == [conds |-> NoConditions, observedGeneration |-> 0]

\* mutation: observedGeneration is stamped on a new condition only
SetReadyOnce(i, reason) ==
  [i EXCEPT !.conds.Ready =
     [reason |-> reason, gen |-> IF @.reason = "" THEN i.gen ELSE @.gen]]

SetReady(i, reason) ==
  [i EXCEPT !.conds.Ready = [reason |-> reason, gen |-> i.gen]]

SetDatabaseReady(i, reason) ==
  [i EXCEPT !.conds.DatabaseReady = [reason |-> reason, gen |-> i.gen]]

-----------------------------------------------------------------------------
Init ==
  /\ inst = NoInstance /\ uids = 0
  /\ exists = {} /\ owner = [o \in Objects |-> 0]
  /\ key = [s \in Secrets |-> {}] /\ size = [v \in Claims |-> 0]
  /\ template = {} /\ pod = {}
  /\ crd \in CrdAtStart /\ ext \in ExtAtStart /\ deleting = FALSE
  /\ cache = [p \in Operators |-> NoInstance]
  /\ notify = [p \in Operators |-> FALSE]
  /\ queue = [p \in Operators |-> FALSE]
  /\ pc = [p \in Operators |-> "idle"] /\ idx = [p \in Operators |-> 1]
  /\ work = [p \in Operators |-> NoInstance]
  /\ base = [p \in Operators |-> NoStatus]
  /\ again = [p \in Operators |-> FALSE]
  /\ chaos = 0 /\ everDelete = {} /\ ever = {} /\ src = 0

-----------------------------------------------------------------------------
(***************************************************************************)
(* Steps of a pass.                                                        *)
(***************************************************************************)
Goto(p, step) ==
  /\ pc' = [pc EXCEPT ![p] = step]
  /\ idx' = [idx EXCEPT ![p] = 1]

\* mutation: one element too many
AdvancePastEnd(p, list, step) ==
  IF idx[p] <= Len(list)
  THEN idx' = [idx EXCEPT ![p] = @ + 1] /\ UNCHANGED pc
  ELSE Goto(p, step)

\* The next element of the list the step walks, or the step after the list.
Advance(p, list, step) ==
  IF idx[p] < Len(list)
  THEN idx' = [idx EXCEPT ![p] = @ + 1] /\ UNCHANGED pc
  ELSE Goto(p, step)

\* mutation: no error and no RequeueAfter is returned
StopForGood(p, i, reason) ==
  /\ work' = [work EXCEPT ![p] = SetReady(i, reason)]
  /\ UNCHANGED again
  /\ Goto(p, "status")

\* A step that failed or stopped: Ready names it, the pass goes on to patchStatus
\* and the name is queued again afterwards.
Stop(p, i, reason) ==
  /\ work' = [work EXCEPT ![p] = SetReady(i, reason)]
  /\ again' = [again EXCEPT ![p] = TRUE]
  /\ Goto(p, "status")

EndPass(p) ==
  /\ Goto(p, "idle")
  /\ work' = [work EXCEPT ![p] = NoInstance]
  /\ base' = [base EXCEPT ![p] = NoStatus]
  /\ again' = [again EXCEPT ![p] = FALSE]

\* An object is written with owner reference u (0 for an explicit empty list).
\* A write that changes a watched object that is or was controlled by the
\* instance queues the instance's name in every operator.
Write(o, u, changed) ==
  /\ exists' = exists \cup {o}
  /\ ever' = ever \cup {o}
  /\ owner' = [owner EXCEPT ![o] = u]
  /\ queue' = [q \in Operators |->
                 \/ queue[q]
                 \/ /\ o \in Watched
                    /\ o \notin exists \/ owner[o] # u \/ changed
                    /\ owner[o] # 0 \/ u # 0]

\* The owner reference applyOwned gives, whatever the policy.
NoOwner(i) == 0                 \* mutation: SetControllerReference is not called
AlwaysOwner(i) == i.uid

AnyPolicyOwner(i) == i.uid      \* mutation: the policy is not looked at

\* The one applyStateful, ensureGeneratedSecret and reconcileSecretOwnership
\* give: the instance under Delete, none under Retain.
StatefulOwner(i) ==
  IF DeletionPolicyOrDefault(i.spec) = "Delete" THEN i.uid ELSE 0

-----------------------------------------------------------------------------
(***************************************************************************)
(* Reconcile: the read from the informer cache.  A name that is gone ends  *)
(* the pass; otherwise Ready is seeded in memory and the steps begin.      *)
(***************************************************************************)
BeginPass(p) ==
  /\ pc[p] = "idle" /\ queue[p]
  /\ queue' = [queue EXCEPT ![p] = FALSE]
  /\ IF cache[p].uid = 0
     THEN UNCHANGED passVars
     ELSE /\ work' = [work EXCEPT ![p] = SetReady(cache[p], "Reconciling")]
          /\ base' = [base EXCEPT ![p] =
               [conds |-> cache[p].conds,
                observedGeneration |-> cache[p].observedGeneration]]
          /\ Goto(p, "get-secret")
          /\ UNCHANGED again
  /\ UNCHANGED <<apiVars, objVars, envVars, cache, notify, histVars>>

(***************************************************************************)
(* reconcileSecrets: ensureGeneratedSecret for the secret key, then for    *)
(* the admin credentials.  The Get goes to the API server (Secrets are not *)
(* cached).  What it returned decides the second call, if there is one.    *)
(***************************************************************************)
ThisSecret(p) == SecretOrder[idx[p]]

\* mutation: a reference is added but never taken away
OwnershipSuffices(p, s) ==
  (DeletionPolicyOrDefault(work[p].spec) = "Delete") => (owner[s] = work[p].uid)

OwnershipMatches(p, s) ==
  (DeletionPolicyOrDefault(work[p].spec) = "Delete") <=> (owner[s] = work[p].uid)

GetSecret(p) ==
  /\ pc[p] = "get-secret"
  /\ LET s == ThisSecret(p) IN
       \/ /\ s \in exists /\ OwnershipMatches(p, s)
          /\ Advance(p, SecretOrder, "storage")
       \/ /\ s \in exists /\ ~OwnershipMatches(p, s)
          /\ pc' = [pc EXCEPT ![p] = "patch-secret"] /\ UNCHANGED idx
       \/ /\ s \notin exists /\ ~Generates(work[p].spec, s)
          /\ Advance(p, SecretOrder, "storage")
       \/ /\ s \notin exists /\ Generates(work[p].spec, s)
          /\ pc' = [pc EXCEPT ![p] = "create-secret"] /\ UNCHANGED idx
  /\ UNCHANGED <<apiVars, objVars, envVars, cache, notify, queue, work, base,
                 again, histVars>>

\* Advance, from a call that walked to the next secret.
NextSecret(p) ==
  IF idx[p] < Len(SecretOrder)
  THEN /\ idx' = [idx EXCEPT ![p] = @ + 1]
       /\ pc' = [pc EXCEPT ![p] = "get-secret"]
  ELSE Goto(p, "storage")

\* mutation: applied instead of created
ApplySecret(p) ==
  /\ pc[p] = "create-secret"
  /\ LET s == ThisSecret(p) IN
       /\ \E v \in Keys : key' = [key EXCEPT ![s] = {v}]
       /\ Write(s, StatefulOwner(work[p]), TRUE)
  /\ NextSecret(p)
  /\ UNCHANGED <<apiVars, size, template, pod, envVars, cache, notify, work,
                 base, again, chaos, everDelete, src>>

\* Create with a freshly minted value; AlreadyExists is an error.
CreateSecret(p) ==
  /\ pc[p] = "create-secret"
  /\ LET s == ThisSecret(p) IN
       \/ /\ s \notin exists
          /\ \E v \in Keys : key' = [key EXCEPT ![s] = {v}]
          /\ Write(s, StatefulOwner(work[p]), TRUE)
          /\ NextSecret(p)
          /\ UNCHANGED <<work, again>>
       \/ /\ s \in exists
          /\ Stop(p, work[p], "SecretsNotReady")
          /\ UNCHANGED <<key, exists, ever, owner, queue>>
  /\ UNCHANGED <<apiVars, size, template, pod, envVars, cache, notify, base,
                 chaos, everDelete, src>>

\* reconcileSecretOwnership: a merge patch of metadata.ownerReferences by name.
PatchSecret(p) ==
  /\ pc[p] = "patch-secret"
  /\ LET s == ThisSecret(p) IN
       \/ /\ s \in exists
          /\ Write(s, StatefulOwner(work[p]), FALSE)
          /\ NextSecret(p)
          /\ UNCHANGED <<work, again>>
       \/ /\ s \notin exists
          /\ Stop(p, work[p], "SecretsNotReady")
          /\ UNCHANGED <<exists, ever, owner, queue>>
  /\ UNCHANGED <<apiVars, key, size, template, pod, envVars, cache, notify,
                 base, chaos, everDelete, src>>

(***************************************************************************)
(* reconcileStorage: applyStateful for each claim.  The API server refuses *)
(* to shrink a claim.                                                      *)
(***************************************************************************)
ReconcileStorage(p) ==
  /\ pc[p] = "storage"
  /\ LET v == Volumes[idx[p]]
         want == SizeOrDefault(work[p].spec, v)
     IN  \/ /\ size[v] <= want
            /\ size' = [size EXCEPT ![v] = want]
            /\ Write(v, StatefulOwner(work[p]), size[v] # want)
            /\ Advance(p, Volumes, "database")
            /\ UNCHANGED <<work, again>>
         \/ /\ size[v] > want
            /\ Stop(p, work[p], "StorageNotReady")
            /\ UNCHANGED <<size, exists, ever, owner, queue>>
  /\ UNCHANGED <<apiVars, key, template, pod, envVars, cache, notify, base,
                 chaos, everDelete, src>>

(***************************************************************************)
(* reconcileDatabase.  A database that is not usable stops the pass before *)
(* the cache and the workload; the pass is requeued after an interval.     *)
(***************************************************************************)
AfterDatabaseNoCache(p) == "service"         \* mutation: the cache step is left out
AfterDatabase(p) == IF IsManaged(work[p].spec) THEN "cache" ELSE "service"

ReconcileExternalDatabase(p) ==
  /\ pc[p] = "database" /\ IsExternal(work[p].spec)
  /\ \/ /\ ext = "valid"
        /\ work' = [work EXCEPT ![p] =
                      SetDatabaseReady(@, "ExternalDatabaseConfigured")]
        /\ Goto(p, AfterDatabase(p))
        /\ UNCHANGED again
     \/ /\ ext = "missing"
        /\ Stop(p, SetDatabaseReady(work[p], "ExternalDatabaseSecretMissing"),
                "DatabaseNotReady")
     \/ /\ ext = "invalid"
        /\ Stop(p, SetDatabaseReady(work[p], "ExternalDatabaseSecretInvalid"),
                "DatabaseNotReady")
  /\ UNCHANGED <<apiVars, objVars, envVars, cache, notify, queue, base, histVars>>

CnpgInstalled(p) ==
  /\ pc[p] = "database" /\ ~IsExternal(work[p].spec)
  /\ \/ /\ crd
        /\ Goto(p, "cluster")
        /\ UNCHANGED <<work, again>>
     \/ /\ ~crd
        /\ Stop(p, SetDatabaseReady(work[p], "CloudNativePGMissing"),
                "DatabaseNotReady")
  /\ UNCHANGED <<apiVars, objVars, envVars, cache, notify, queue, base, histVars>>

ApplyCluster(p) ==
  /\ pc[p] = "cluster"
  /\ Write("db", StatefulOwner(work[p]), FALSE)
  /\ work' = [work EXCEPT ![p] =
                SetDatabaseReady(@, "CloudNativePGClusterApplied")]
  /\ Goto(p, AfterDatabase(p))
  /\ UNCHANGED <<apiVars, key, size, template, pod, envVars, cache, notify,
                 base, again, chaos, everDelete, src>>

(***************************************************************************)
(* reconcileCache and reconcileWorkload: applyOwned, whatever the policy.  *)
(***************************************************************************)
ReconcileCache(p) ==
  /\ pc[p] = "cache"
  /\ Write(CacheOrder[idx[p]], AlwaysOwner(work[p]), FALSE)
  /\ Advance(p, CacheOrder, "service")
  /\ UNCHANGED <<apiVars, key, size, template, pod, envVars, cache, notify,
                 work, base, again, chaos, everDelete, src>>

ApplyService(p) ==
  /\ pc[p] = "service"
  /\ Write("service", AlwaysOwner(work[p]), FALSE)
  /\ Goto(p, "deployment")
  /\ UNCHANGED <<apiVars, key, size, template, pod, envVars, cache, notify,
                 work, base, again, chaos, everDelete, src>>

\* The response carries the Deployment's current status, so Ready follows
\* whatever replica is ready when the new template is stored.
ApplyDeployment(p) ==
  /\ pc[p] = "deployment"
  /\ LET t == Template(work[p].spec) IN
       /\ template' = {t}
       /\ Write("deployment", AlwaysOwner(work[p]), template # {t})
  /\ work' = [work EXCEPT ![p] =
                SetReady(@, IF pod # {} THEN "WorkloadReady"
                                        ELSE "WorkloadNotReady")]
  /\ Goto(p, "status")
  /\ UNCHANGED <<apiVars, key, size, pod, envVars, cache, notify, base, again,
                 chaos, everDelete, src>>

(***************************************************************************)
(* patchStatus: a JSON merge patch computed against base, sent by name.    *)
(* Only what differs from base is sent: conditions as one list,            *)
(* observedGeneration on its own.  When Ready was True as read, seeding it *)
(* and setting it back has moved its lastTransitionTime, which alone makes *)
(* the lists differ once the clock's second has changed (moved).           *)
(***************************************************************************)
PatchStatus(p) ==
  /\ pc[p] = "status" /\ inst.uid # 0
  /\ \E moved \in BOOLEAN :
       /\ moved => ReadyTrue(base[p].conds) /\ ReadyTrue(work[p].conds)
       /\ LET sendConds == work[p].conds # base[p].conds \/ moved
              sendGen   == work[p].gen # base[p].observedGeneration
              patched   == [inst EXCEPT
                !.conds = IF sendConds THEN work[p].conds ELSE @,
                !.observedGeneration = IF sendGen THEN work[p].gen ELSE @]
          IN  /\ inst' = patched
              /\ notify' = [q \in Operators |->
                              notify[q] \/ moved \/ patched # inst]
              /\ src' = IF \/ sendConds
                           \/ patched.conds = work[p].conds /\ work[p].uid = inst.uid
                        THEN work[p].uid ELSE src
  /\ queue' = [queue EXCEPT ![p] = @ \/ again[p]]
  /\ EndPass(p)
  /\ UNCHANGED <<uids, objVars, envVars, cache, chaos, everDelete, ever>>

\* The instance is gone: the patch fails and the error requeues the name.
PatchStatusNotFound(p) ==
  /\ pc[p] = "status" /\ inst.uid = 0
  /\ queue' = [queue EXCEPT ![p] = TRUE]
  /\ EndPass(p)
  /\ UNCHANGED <<apiVars, objVars, envVars, cache, notify, histVars>>

OperatorStep(p) ==
  \/ BeginPass(p)
  \/ GetSecret(p) \/ CreateSecret(p) \/ PatchSecret(p)
  \/ ReconcileStorage(p)
  \/ ReconcileExternalDatabase(p) \/ CnpgInstalled(p) \/ ApplyCluster(p)
  \/ ReconcileCache(p) \/ ApplyService(p) \/ ApplyDeployment(p)
  \/ PatchStatus(p) \/ PatchStatusNotFound(p)

(***************************************************************************)
(* What goes wrong in an operator.  A failing call stops the pass at its   *)
(* step: reconcileInstance stamps the step's reason on Ready and returns   *)
(* the error.  When the call is the status patch itself, nothing is        *)
(* stored.  A restart loses the pass, lists the instance and its children  *)
(* afresh and queues what it lists.                                        *)
(***************************************************************************)
StepReason(step) ==
  CASE step \in {"get-secret", "create-secret", "patch-secret"} -> "SecretsNotReady"
    [] step = "storage"                   -> "StorageNotReady"
    [] step \in {"database", "cluster"}   -> "DatabaseNotReady"
    [] step = "cache"                     -> "CacheNotReady"
    [] step \in {"service", "deployment"} -> "WorkloadApplyFailed"

ApiError(p) ==
  /\ chaos < MaxChaos /\ chaos' = chaos + 1
  /\ \/ /\ pc[p] \notin {"idle", "status"}
        /\ Stop(p, work[p], StepReason(pc[p]))
        /\ UNCHANGED <<queue, base>>
     \/ /\ pc[p] = "status"
        /\ queue' = [queue EXCEPT ![p] = TRUE]
        /\ EndPass(p)
  /\ UNCHANGED <<apiVars, objVars, envVars, cache, notify, everDelete, ever, src>>

Restart(p) ==
  /\ chaos < MaxChaos /\ chaos' = chaos + 1
  /\ EndPass(p)
  /\ cache' = [cache EXCEPT ![p] = inst]
  /\ notify' = [notify EXCEPT ![p] = FALSE]
  /\ queue' = [queue EXCEPT ![p] =
                 \/ inst.uid # 0
                 \/ \E o \in exists \cap Watched : owner[o] # 0]
  /\ UNCHANGED <<apiVars, objVars, envVars, everDelete, ever, src>>

(***************************************************************************)
(* Informers.  A watch event brings the newest version of the instance     *)
(* into the cache and queues its name, whatever field changed.  The        *)
(* periodic resync queues it without any event.                            *)
(***************************************************************************)
\* mutation: the watch filters for a changed generation
ObserveGeneration(p) ==
  /\ notify[p]
  /\ notify' = [notify EXCEPT ![p] = FALSE]
  /\ cache' = [cache EXCEPT ![p] = inst]
  /\ queue' = [queue EXCEPT ![p] = @ \/ inst.gen # cache[p].gen]
  /\ UNCHANGED <<apiVars, objVars, envVars, passVars, histVars>>

Observe(p) ==
  /\ notify[p]
  /\ notify' = [notify EXCEPT ![p] = FALSE]
  /\ cache' = [cache EXCEPT ![p] = inst]
  /\ queue' = [queue EXCEPT ![p] = TRUE]
  /\ UNCHANGED <<apiVars, objVars, envVars, passVars, histVars>>

Resync(p) ==
  /\ ~queue[p]
  /\ queue' = [queue EXCEPT ![p] = TRUE]
  /\ UNCHANGED <<apiVars, objVars, envVars, cache, notify, passVars, histVars>>

-----------------------------------------------------------------------------
(***************************************************************************)
(* The user.  The operator sets no finalizer: in the background cascade,   *)
(* the default, a deleted instance is gone at once.  In the foreground     *)
(* cascade it stays, with a deletionTimestamp and a new generation, until  *)
(* its objects are gone; Reconcile does not look at the deletionTimestamp. *)
(***************************************************************************)
NotifyAll == notify' = [q \in Operators |-> TRUE]

RecordPolicy(i) ==
  everDelete' = IF DeletionPolicyOrDefault(i.spec) = "Delete"
                THEN everDelete \cup {i.uid} ELSE everDelete

CreateInstance(spec) ==
  /\ inst.uid = 0 /\ uids < MaxUID
  /\ uids' = uids + 1
  /\ inst' = [uid |-> uids + 1, gen |-> 1, spec |-> spec,
              conds |-> NoConditions, observedGeneration |-> 0]
  /\ RecordPolicy(inst') /\ NotifyAll
  /\ UNCHANGED <<objVars, envVars, cache, queue, passVars, chaos, ever, src>>

EditSpec(spec) ==
  /\ inst.uid # 0 /\ inst.gen < MaxGen /\ spec # inst.spec
  /\ inst' = [inst EXCEPT !.spec = spec, !.gen = @ + 1]
  /\ RecordPolicy(inst') /\ NotifyAll
  /\ UNCHANGED <<uids, objVars, envVars, cache, queue, passVars, chaos, ever, src>>

DropInstance ==
  /\ inst' = NoInstance /\ src' = 0 /\ deleting' = FALSE
  /\ NotifyAll
  /\ UNCHANGED <<uids, objVars, crd, ext, cache, queue, passVars, chaos,
                 everDelete, ever>>

DeleteInstance == inst.uid # 0 /\ "background" \in Cascades /\ DropInstance

DeleteInForeground ==
  /\ inst.uid # 0 /\ "foreground" \in Cascades /\ ~deleting
  /\ deleting' = TRUE
  /\ inst' = [inst EXCEPT !.gen = @ + 1]
  /\ NotifyAll
  /\ UNCHANGED <<uids, objVars, crd, ext, cache, queue, passVars, histVars>>

(***************************************************************************)
(* The cluster.  The garbage collector removes an object whose owner's UID *)
(* no longer exists or is being deleted in the foreground, and lets such   *)
(* an owner go once nothing carries its UID.  The deletion of a watched,   *)
(* controlled object is an event, and so is a change of the Deployment's   *)
(* status.                                                                 *)
(***************************************************************************)
Remove(o) ==
  /\ exists' = exists \ {o}
  /\ owner' = [owner EXCEPT ![o] = 0]
  /\ key' = [s \in Secrets |-> IF s = o THEN {} ELSE key[s]]
  /\ size' = [v \in Claims |-> IF v = o THEN 0 ELSE size[v]]
  /\ template' = IF o = "deployment" THEN {} ELSE template
  /\ pod' = IF o = "deployment" THEN {} ELSE pod
  /\ queue' = [q \in Operators |-> queue[q] \/ (o \in Watched /\ owner[o] # 0)]

GarbageCollect(o) ==
  /\ o \in exists /\ owner[o] # 0
  /\ owner[o] # inst.uid \/ deleting
  /\ Remove(o)
  /\ UNCHANGED <<apiVars, envVars, cache, notify, passVars, histVars>>

FinishDeletion ==
  /\ deleting /\ \A o \in exists : owner[o] # inst.uid
  /\ DropInstance

DropChild(o) ==
  /\ o \in exists /\ chaos < MaxChaos
  /\ chaos' = chaos + 1
  /\ Remove(o)
  /\ UNCHANGED <<apiVars, envVars, cache, notify, passVars, everDelete, ever, src>>

\* The objects a pod of template t cannot start without.
Needs(t) ==
  Claims \cup t.generated
    \cup (IF t.external THEN {} ELSE {"db"})
    \cup (IF t.managed THEN CacheParts ELSE {})

SetPod(t) ==
  /\ pod' = t
  /\ queue' = [q \in Operators |-> TRUE]
  /\ UNCHANGED <<apiVars, exists, owner, key, size, template, envVars, cache,
                 notify, passVars, everDelete, ever, src>>

\* strategy Recreate: the old replica goes before the new one comes.
RollOut == pod # {} /\ pod # template /\ SetPod({}) /\ UNCHANGED chaos

PodReady ==
  /\ pod = {}
  /\ \E t \in template :
       /\ Needs(t) \subseteq exists
       /\ t.external => ext = "valid"
  /\ SetPod(template) /\ UNCHANGED chaos

PodFail == pod # {} /\ chaos < MaxChaos /\ chaos' = chaos + 1 /\ SetPod({})

InstallCNPG ==
  /\ ~crd /\ crd' = TRUE
  /\ UNCHANGED <<apiVars, objVars, ext, deleting, cache, notify, queue, passVars,
                 histVars>>

\* Neither CustomResourceDefinitions nor Secrets are watched: no event.
ChangeExternalSecret ==
  /\ \E spec \in Specs : IsExternal(spec)
  /\ chaos < MaxChaos /\ chaos' = chaos + 1
  /\ \E e \in ExternalSecretStates \ {ext} : ext' = e
  /\ UNCHANGED <<apiVars, objVars, crd, deleting, cache, notify, queue, passVars,
                 everDelete, ever, src>>

-----------------------------------------------------------------------------
User ==
  \/ \E spec \in Specs : CreateInstance(spec) \/ EditSpec(spec)
  \/ DeleteInstance \/ DeleteInForeground
  \/ \E o \in Droppable : DropChild(o)
  \/ InstallCNPG
  \/ ChangeExternalSecret

Cluster ==
  \/ \E o \in Objects : GarbageCollect(o)
  \/ FinishDeletion
  \/ RollOut \/ PodReady \/ PodFail

Next ==
  \/ \E p \in Operators :
       OperatorStep(p) \/ ApiError(p) \/ Restart(p) \/ Observe(p) \/ Resync(p)
  \/ User
  \/ Cluster

Spec == Init /\ [][Next]_vars

(***************************************************************************)
(* Fairness.  A worker takes queued names and finishes its passes, watch   *)
(* events arrive, the garbage collector and the Deployment controller do   *)
(* their work; an instance deleted in the foreground goes whenever the     *)
(* collector keeps finding it without objects.  Nothing is assumed of the  *)
(* user, of failures or of the resync, which comes hours later; ResyncSpec *)
(* is for what only the resync repairs.                                    *)
(***************************************************************************)
Fairness ==
  /\ \A p \in Operators : WF_vars(OperatorStep(p)) /\ WF_vars(Observe(p))
  /\ \A o \in Objects : WF_vars(GarbageCollect(o))
  /\ SF_vars(FinishDeletion)
  /\ WF_vars(RollOut) /\ WF_vars(PodReady)

FairSpec   == Spec /\ Fairness
ResyncSpec == FairSpec /\ \A p \in Operators : WF_vars(Resync(p))

-----------------------------------------------------------------------------
Steps ==
  {"idle", "get-secret", "create-secret", "patch-secret", "storage",
   "database", "cluster", "cache", "service", "deployment", "status"}

SecretSteps == {"get-secret", "create-secret", "patch-secret"}

\* The position a step works at is one of the list it walks.
WithinList(p) ==
  /\ 1 <= idx[p]
  /\ pc[p] \in SecretSteps => idx[p] <= Len(SecretOrder)
  /\ pc[p] = "storage" => idx[p] <= Len(Volumes)
  /\ pc[p] = "cache" => idx[p] <= Len(CacheOrder)

ApiType == inst \in Instance /\ uids \in Nat

ObjectType ==
  /\ exists \in SUBSET Objects /\ owner \in [Objects -> Nat]
  /\ key \in [Secrets -> SUBSET Keys] /\ size \in [Claims -> Nat]
  /\ template \in SUBSET Templates /\ pod \in SUBSET Templates

EnvironmentType ==
  crd \in BOOLEAN /\ ext \in ExternalSecretStates /\ deleting \in BOOLEAN

InformerType ==
  /\ cache \in [Operators -> Instance]
  /\ notify \in [Operators -> BOOLEAN]
  /\ queue \in [Operators -> BOOLEAN]

StepType ==
  /\ pc \in [Operators -> Steps] /\ idx \in [Operators -> Nat]
  /\ \A p \in Operators : WithinList(p)

WorkType ==
  /\ work \in [Operators -> Instance]
  /\ base \in [Operators -> [conds : Conditions, observedGeneration : Nat]]
  /\ again \in [Operators -> BOOLEAN]

HistoryType ==
  /\ chaos \in Nat /\ src \in Nat
  /\ everDelete \in SUBSET Nat /\ ever \in SUBSET Objects

(***************************************************************************)
(* Every variable has its type, and a pass never walks past the end of the *)
(* list its step is working through.                                       *)
(***************************************************************************)
TypeOK ==
  /\ ApiType /\ ObjectType /\ EnvironmentType /\ InformerType
  /\ StepType /\ WorkType /\ HistoryType

(***************************************************************************)
(* spec.deletionPolicy: a volume, the database or a generated secret       *)
(* carries the owner reference of an instance only if that very instance   *)
(* has asked for Delete, however stale the pass that wrote it was and      *)
(* whoever else was reconciling the name.                                  *)
(***************************************************************************)
OwnedOnlyUnderDelete ==
  \A o \in Stateful : owner[o] # 0 => owner[o] \in everDelete

(***************************************************************************)
(* The promise behind it: while it exists, a volume never shrinks and a    *)
(* generated secret keeps its value; and unless the user deletes it, it    *)
(* disappears only as the property of an instance that asked for Delete    *)
(* and is gone or being deleted.  Passes may be stale, interrupted,        *)
(* repeated or concurrent.                                                 *)
(***************************************************************************)
StatefulDataStep ==
  \A o \in Stateful \ Droppable : o \in exists =>
    \/ /\ o \in exists'
       /\ o \in Secrets => key'[o] = key[o]
       /\ o \in Claims => size'[o] >= size[o]
    \/ /\ o \notin exists'
       /\ owner[o] \in everDelete
       /\ owner[o] # inst.uid \/ deleting

StatefulDataKept == [][StatefulDataStep]_vars

(***************************************************************************)
(* reconcileInstance's order: a Deployment is only ever given a template   *)
(* after every object its pod mounts, reads or connects to has been        *)
(* written, even when the spec changed between the pass that wrote them    *)
(* and the one that writes the template.                                   *)
(***************************************************************************)
WorkloadAfterDependencies ==
  \A t \in template : Needs(t) \subseteq ever

Policy == INSTANCE DeletionPolicy WITH
  Data <- Stateful, Claims <- Claims, Secrets <- Secrets, Keys <- Keys,
  Droppable <- Droppable \cap Stateful,
  live <- inst.uid, leaving <- deleting, asked <- everDelete,
  held <- exists \cap Stateful, owner <- [o \in Stateful |-> owner[o]],
  key <- key, size <- size

(***************************************************************************)
(* The promise as a whole: what any number of operators, the garbage       *)
(* collector and the user do to the volumes, the database and the secrets, *)
(* through edits of the policy, deletions, and new instances that take     *)
(* over an old one's data, is what DeletionPolicy allows.                  *)
(***************************************************************************)
ImplementsDeletionPolicy == Policy!Spec

\* The stored status is the result of a pass that ran to its end for the
\* instance as it is now.
Settled ==
  /\ inst.uid # 0 /\ src = inst.uid
  /\ inst.conds.Ready.gen = inst.gen
  /\ inst.conds.Ready.reason \in {"WorkloadReady", "WorkloadNotReady"}

(***************************************************************************)
(* Once a pass for the current generation has got through, each object the *)
(* spec uses carries exactly the owner reference the policy asks for, also *)
(* when the policy was switched, the instance was recreated, or a pass for *)
(* an older generation or an earlier instance was interrupted half-way.    *)
(* (A retained secret may keep a reference to an earlier instance: see     *)
(* RetainedSecretsUnowned.)                                                *)
(***************************************************************************)
SettledOwnership ==
  Settled =>
    /\ \A o \in exists \cap Claims : owner[o] = StatefulOwner(inst)
    /\ "db" \in exists /\ ~IsExternal(inst.spec) => owner["db"] = StatefulOwner(inst)
    /\ \A s \in exists \cap Secrets :
         (owner[s] = inst.uid) <=> (StatefulOwner(inst) = inst.uid)
    /\ \A o \in exists \cap {"service", "deployment"} : owner[o] = inst.uid
    /\ IsManaged(inst.spec) => \A o \in exists \cap CacheParts : owner[o] = inst.uid

(***************************************************************************)
(* For the first instance of a name, Ready is always of the generation     *)
(* observedGeneration names, though the patch sends the two independently, *)
(* each against a base that may be stale, and a pass may fail at any step. *)
(* (DatabaseReady is not: a pass that stops before the database step       *)
(* leaves that of an older generation and still stamps observedGeneration. *)
(* Nor is Ready on an instance recreated during a pass: patchStatus        *)
(* patches by name; see RestingStatusIsOwn.)                               *)
(***************************************************************************)
ReadyAtObservedGeneration ==
  inst.uid = 1 /\ inst.conds.Ready.reason # "" =>
    inst.conds.Ready.gen = inst.observedGeneration

\* No pass is running, queued or about to be.
AtRest == \A p \in Operators : pc[p] = "idle" /\ ~queue[p] /\ ~notify[p]

(***************************************************************************)
(* The controller never comes to rest on a status that is not the result   *)
(* of a whole pass over the present instance at its present generation: a  *)
(* pass that failed or stopped half-way, one that outlived its instance    *)
(* and reported, by name, on the one recreated under it, and a patch that  *)
(* left out a needed change because its base was stale, each leave         *)
(* something queued or in flight that puts it right.                       *)
(***************************************************************************)
RestingStatusIsOwn ==
  AtRest /\ inst.uid # 0 => Settled /\ inst.observedGeneration = inst.gen

\* What a pass applies, whatever the policy, for an instance with this spec.
AppliedFor(spec) ==
  {"service", "deployment"} \cup (IF IsManaged(spec) THEN CacheParts ELSE {})

(***************************************************************************)
(* Nor on a cluster that is not as the present spec asks: whatever a stale *)
(* pass, another operator, the garbage collector or the user did to the    *)
(* workload, the cache or the volumes after the last pass dealt with them  *)
(* has queued another one, and Ready says whether there is a ready         *)
(* replica.  This is what SetupWithManager's Owns are for.  (A retained    *)
(* volume carries no reference, so its deletion is no event: it may be     *)
(* missing.)                                                               *)
(***************************************************************************)
RestingIsServed ==
  AtRest /\ inst.uid # 0 =>
    /\ \A o \in AppliedFor(inst.spec) : o \in exists /\ owner[o] = inst.uid
    /\ \A v \in Claims :
         /\ owner[v] = StatefulOwner(inst)
         /\ StatefulOwner(inst) # 0 => v \in exists
    /\ template = {Template(inst.spec)}
    /\ ReadyTrue(inst.conds) <=> pod # {}

(***************************************************************************)
(* What the repository says and the code does not keep.                    *)
(***************************************************************************)
(***************************************************************************)
(* Under Retain a settled instance's generated secrets carry no owner      *)
(* reference (SecretKey in internal/resources/secret.go).  isControlledBy  *)
(* only recognises the current UID, so a reference to an earlier instance  *)
(* of the name stays, and the garbage collector acts on it.                *)
(***************************************************************************)
RetainedSecretsUnowned ==
  Settled /\ StatefulOwner(inst) = 0 =>
    \A s \in exists \cap Secrets : owner[s] = 0

(***************************************************************************)
(* Under Retain a settled instance's database is left behind when it is    *)
(* deleted (README, DeletionPolicyRetain).  reconcileDatabase does not     *)
(* look at the Cluster of an instance that moves to an external database,  *)
(* so a switch to Retain made with that move, or later, does not reach it. *)
(***************************************************************************)
RetainedDatabaseUnowned ==
  Settled /\ StatefulOwner(inst) = 0 /\ "db" \in exists => owner["db"] = 0

-----------------------------------------------------------------------------
VolumesFit == \A v \in Claims : size[v] <= SizeOrDefault(inst.spec, v)

DatabaseAvailable == IF IsExternal(inst.spec) THEN ext = "valid" ELSE crd

\* Ready as a pass over the present state of the cluster would leave it.
RightReady ==
  [reason |-> IF ~VolumesFit THEN "StorageNotReady"
              ELSE IF ~DatabaseAvailable THEN "DatabaseNotReady"
              ELSE "WorkloadReady",
   gen |-> inst.gen]

Serving ==
  /\ inst.conds.Ready = RightReady
  /\ inst.observedGeneration = inst.gen
  /\ RightReady.reason = "WorkloadReady" =>
       "service" \in exists /\ pod = {Template(inst.spec)}

(***************************************************************************)
(* Without the resync: an instance whose volumes fit and whose database is *)
(* there ends up served by a replica of its current template and reported  *)
(* Ready for its current generation, whatever failed, was deleted or came  *)
(* late on the way.  This is what notReadyRequeueInterval, the errors a    *)
(* pass returns and the watches on children are for.                       *)
(***************************************************************************)
BecomesReady ==
  <>[](inst.uid # 0 /\ ~deleting /\ VolumesFit /\ DatabaseAvailable => Serving)

(***************************************************************************)
(* With the resync: the reported status is eventually right in every case, *)
(* a volume that cannot shrink or a database that went away included.      *)
(***************************************************************************)
StatusConverges == <>[](inst.uid # 0 /\ ~deleting => Serving)

(***************************************************************************)
(* A deleted instance leaves nothing behind but what Retain keeps, even    *)
(* though passes that had begun before the deletion go on writing.         *)
(***************************************************************************)
DeletionConverges ==
  <>[](inst.uid = 0 => \A o \in exists : o \in Stateful /\ owner[o] = 0)

(***************************************************************************)
(* A deletion in the foreground comes to its end: the Deployment, Service  *)
(* and Valkey cache are removed, and the instance with them (README).  The *)
(* passes go on as if nothing had happened and put back what the garbage   *)
(* collector removes, each removal starting the next pass.                 *)
(***************************************************************************)
ForegroundDeletionCompletes == deleting ~> ~deleting
=============================================================================
