# TLA+ verification of paperless-ngx-operator

The operator turns a `PaperlessInstance` custom resource into a running
Paperless-NGX: two generated Secrets, four PersistentVolumeClaims, a CloudNativePG
Cluster (or an external database), a Valkey cache (or an external one), a Service
and a Deployment. Its behaviour is one reconcile loop, `internal/controller`, that
makes a series of API calls from a possibly stale copy of the instance while users,
other operators, the garbage collector and the kubelet act on the same objects. This
directory models that loop and what it runs against, the builders that decide names
and environment, and the process around it; checks them with TLC; and proves the
safety properties with TLAPS.

## Inventory

| Component | State | Operations | Interacts with |
| --- | --- | --- | --- |
| Reconcile loop (`paperlessinstance_controller.go`) | work queue, informer cache, the pass in flight (`inst`, `base`) | `Reconcile`, the five steps of `reconcileInstance`, `patchStatus` | API server (Get, Create, Patch), watches on Deployments, Services, PVCs |
| Deletion policy (`deletion_policy.go`) | controller owner references | `applyStateful`, `applyOwned`, `reconcileSecretOwnership` | garbage collector |
| Conditions (`conditions.go`) | `Ready`, `DatabaseReady`, their times | `SetCondition` | `patchStatus`, the clock, users |
| API types (`api/v1alpha1`) | none | nil-safe accessors, CEL rules, defaults | every other part |
| Resource builders (`internal/resources`) | none | one pure builder per object, derived names, the container's environment | the steps that apply their results |
| Operator process (`cmd`, `internal/manager`) | how far `main` has come, the lease | set-up, leader election, exit, restart | decides how many operators act, and that Secrets are read live |
| Kubernetes and the user (external) | the stored objects | watch, resync, garbage collection, roll-out, edits, deletions, failures | all of it |

Hard behaviours: a pass works from a stale read; the instance can be edited,
deleted (in the background or the foreground) and recreated between any two calls;
calls fail and operators restart half-way; two operators may act at once, since
leader election is off by default; some things the loop depends on are never
watched; the status is patched by name against a possibly stale base, and a patch is
itself an event; names derived from two instances' names can meet; the garbage
collector runs at its own pace.

What makes it correct:

- *Deletion policy*: nothing stateful is tied to an instance that did not ask for
  it, no data is lost or overwritten, and a settled instance has the ownership its
  policy asks for.
- *Reconcile loop*: steps in order; every failure, late dependency and lost child is
  eventually repaired; a deleted instance leaves nothing but what Retain keeps; one
  instance does not disturb or hold up another.
- *Conditions*: what is reported is eventually right, and belongs to the generation
  and the instance it names once the operator is at rest; an instance that waits
  does not keep the operator writing.
- *Builders*: the environment has each name once, keeps the user's overrides and
  reads only what exists; names of data never meet.
- *Process*: at most one leader, and always one again.

The hazards behind these, each at its line, are in `PROJECT.json`.

## Modules

| Module | Models |
| --- | --- |
| `PaperlessSpec` | constant-level: the part of the spec the code branches on, accessors, CEL rules, default sizes, which Secrets are generated, what the pod template depends on |
| `Reconciler` | the loop and its cluster for one instance name, one action per API call |
| `DeletionPolicy` | the abstract specification: what may happen to an instance's data, without an operator. `Reconciler` implements it (`INSTANCE DeletionPolicy WITH ...`) |
| `WorkloadEnv` | `workloadEnv` and the loop of `dedupeEnv`, for one instance |
| `SharedNamespace` | passes over several instances in one namespace, over objects told apart by kind and derived name |
| `StatusClock` | the status with `lastTransitionTime` against a clock, and the events its patches cause |
| `OperatorProcess` | `main`, leader election and a rolling upgrade |
| `MC*` | the values for TLC |
| `ReconcilerProofs`, `RestingProofs`, `SettledProofs`, `RefinementProofs`, `WorkloadEnvProofs`, `SharedNamespaceProofs`, `StatusClockProofs`, `OperatorProcessProofs` | the theorems |

`Reconciler` is the composition: user, API server, informers, work queue, any number
of operators, garbage collector and Deployment controller over one shared state. The
others each take up one thing it abstracts from: `SharedNamespace` several names,
`StatusClock` time, `WorkloadEnv` what a template is made of, `OperatorProcess` how
many operators there are.

### Reconciler

State:

- API server: `inst` (UID, generation, spec, status), `uids`; per object `exists`,
  `owner` (UID of the controller owner reference, 0 for none), `key` of a generated
  Secret, `size` of a claim; `template` of the Deployment and `pod`, the template of
  its ready replica; `crd`, whether CloudNativePG is installed; `ext`, the external
  database's Secret; `deleting`, a foreground deletion under way.
- Each operator: `cache`, `notify` (a watch event in flight), `queue`, and the pass:
  `pc` (the API call it makes next), `idx` (position in the list it walks), `work`
  (`inst` in the code), `base`, `again` (it will return an error or a RequeueAfter).
- Bounds and history: `chaos` counts failures, `everDelete` the UIDs whose policy was
  ever Delete, `ever` the objects ever written, `src` the UID the stored conditions
  were computed for.

| Action | Code |
| --- | --- |
| `BeginPass` | the cached Get, seeding Ready |
| `GetSecret`, `CreateSecret`, `PatchSecret` | `ensureGeneratedSecret`, `reconcileSecretOwnership` |
| `ReconcileStorage` | one `applyStateful` of `reconcileStorage` |
| `ReconcileExternalDatabase`, `CnpgInstalled`, `ApplyCluster` | `reconcileDatabase` |
| `ReconcileCache` | one `applyOwned` of `reconcileCache` |
| `ApplyService`, `ApplyDeployment` | `reconcileWorkload` |
| `PatchStatus`, `PatchStatusNotFound` | `patchStatus` and the end of `Reconcile` |
| `ApiError` | every error path of `reconcileInstance` and of the status patch |
| `Restart`, `Observe`, `Resync` | process, informers, work queue (external) |
| `CreateInstance`, `EditSpec`, `DeleteInstance`, `DeleteInForeground`, `DropChild`, `InstallCNPG`, `ChangeExternalSecret` | the user (external) |
| `GarbageCollect`, `FinishDeletion`, `RollOut`, `PodReady`, `PodFail` | the cluster (external; `RollOut` follows strategy Recreate) |

Choices worth knowing:

- `Observe` delivers the newest version; intermediate ones are skipped, which an
  informer may do. The cache is still arbitrarily stale, since `Observe` may be late.
- A status merge patch sends the list of conditions as a whole when it differs from
  `base`, and `observedGeneration` on its own. Messages are left out, and
  `lastTransitionTime` is `StatusClock`'s subject: here whether it has moved, which
  makes an otherwise empty patch a write, is a free choice (`moved`).
- Server-side apply with an explicit list of owner references, and the merge patch on
  a Secret, both replace the reference. No one else adds owner references.
- The API server refuses to shrink a claim and accepts growth; other immutable
  fields of a claim are not modelled.
- A failing call did not take effect. A call that took effect and whose answer is
  lost is not an action of its own: a restart, or a failure of the next call, leaves
  the same objects, though not the same reason on `Ready`.
- The operator sets no finalizer: a deletion in the background removes the instance
  at once. A foreground deletion sets the deletionTimestamp, counts the generation up
  and keeps the instance until the garbage collector finds none of its objects;
  `Reconcile` goes on as before, as the code does not look at the deletionTimestamp.
- CloudNativePG is never uninstalled, and the Deployment's progress deadline sends no
  event.
- `Write` queues the name when a watched object changes that is or was controlled by
  the instance, as `Owns` does.

### DeletionPolicy

`live`, `leaving` and `asked` say which instance there is, whether it is going, and
which ever asked for Delete; `held`, `owner`, `key`, `size` what data there is.
`Provide` creates, grows or re-owns data; `Discard` removes data only when it is
owned by an instance that asked for Delete and is gone or going; `Lose` is the user's
own doing. The mapping renames `inst.uid`, `everDelete`, `exists \cap Stateful` and so
on; every step of a pass is one `Provide` or a stutter.

### WorkloadEnv

`workloadEnv` assembles `env` (typed fields, then `spec.env`); each `dedupeEnv` step
walks one entry, with the code's map as `index` and its result as `out`. An entry has
a name, where its value comes from and, for literals, a set of tokens. Which text
most values have is left out; that one comes from a generated Secret, from the Cluster
or the Valkey Service is kept, since the properties compare it with what
`PaperlessSpec` says is built. `ALLOWED_HOSTS` is the set of its hosts, each the
sequence of words between its dots, so that `serviceDNSNames` gives an instance's own
name and namespace and the probes' `Host` is told apart from the qualified names.

### SharedNamespace

A name is a sequence of segments between dashes, so that `a` + `-data` and the name
`a-data` are the same sequence; `Width` is its length in characters. `Begin`, `Skip`
(an existing Secret), `Apply`, `Refuse` (a length limit, or a Deployment selector that
cannot change) and `PatchStatus` are the steps of the one worker; each object
remembers who wrote it (the selector and labels) and its owner. Limits: 63 for labels
and Services, 253 otherwise. Each name is created once, those in `Lasting` before the
operator starts and for good; policies are Retain.

### StatusClock

One instance. A condition has status, reason with message, generation and
`lastTransitionTime`; `SetCondition` is `meta.SetStatusCondition`: the time moves when
the status does. A pass seeds `Ready`, walks the five steps against what `cluster`
says (a step that fails for a while, the database, a ready replica), and patches what
differs from `base`. The clock counts seconds modulo `Period`.

### OperatorProcess

`stage` follows `main`: flags, manager, health checks, controller, `Start`. With
`--leader-elect` a process becomes active only with the lease; a process that ends
keeps its lease until it expires (`LeaderElectionReleaseOnCancel` is not set). A
rolling upgrade retires old pods once new ones are ready, which says nothing of
leadership. That a process which can no longer renew stops before its lease expires
is client-go's promise and is assumed.

## Runs

A "Lean" spec uses an external cache and no admin account, which removes steps that
behave like others and leaves room for interleavings.

| Run | Instance | Checks |
| --- | --- | --- |
| `policy` | 1 operator, 2 creations, 2 generations each, Retain and Delete | `OwnedOnlyUnderDelete`, `SettledOwnership`, `RestingStatusIsOwn`, `ImplementsDeletionPolicy` |
| `two_operators` | 2 operators, 2 keys, 1 creation, 2 generations, symmetry | `StatefulDataKept` |
| `recovery` | 1 operator, 2 specs, 2 failures of any kind, database late, no resync | `BecomesReady` |
| `deletion` | 1 operator, Retain and Delete, background and foreground | `RestingIsServed`, `DeletionConverges`, `StatefulDataKept` |
| `resync` | 1 operator, two specs that differ in every branch, 1 failure or hand-deleted child | `TypeOK`, `WorkloadAfterDependencies`, `ReadyAtObservedGeneration`, `RestingIsServed`, `StatusConverges`, `DeletionConverges` |
| `workload_env` | every branch of the typed fields, 2 instance names, up to 3 overrides | `TypeOK`, `NoDuplicateNames`, `DedupeCorrect`, `UserValueWins`, `ReadsOnlyWhatIsBuilt`, `ProbesAccepted` |
| `shared_namespace` | names `a` and `a-valkey`, which meet; `a-data` (too long) and `a-media` (fits, managed database), which are there throughout | `TypeOK`, `AppliedIsKept`, `RestingIsKept`, `DataNeverShared`, `LengthBoundary`, `AllSettle` |
| `status_clock` | 2 generations, 2 changes or restarts, 2 kinds of failing step | `TypeOK`, `QuietPass`, `ComesToRest` |
| `operator_process` | 1 old and 2 new replicas, 3 faults, with and without election | `AtMostOneActive`, `KeepsWorking` |
| `retained_secrets`, `retained_database`, `foreground` | 1 operator | one documented statement each, violated (below) |

What the passing runs show: in these instances no interleaving of a pass with
edits, deletion, recreation, a second operator, garbage collection, failures and
restarts breaks the deletion policy or the order of the steps; the loop recovers
from each of them on its own where the code promises it and with the resync
otherwise; where the loop rests, the status is the present instance's own and the
cluster is as its spec asks; instances do not disturb each other
beyond the one collision of names described below; requeues of a waiting instance
stop writing; and an upgrade never leaves the namespace without a leader for good.

### Bounds

- `MaxUID = 2`: a pass for one instance meets its successor; a third would meet it in
  the same way, as only equality with the present UID is ever tested. 1 where the
  subject is not recreation.
- `MaxGen = 2`: stale, current.
- `MaxChaos` limits failing calls, restarts, pod failures, hand deletions and changes
  of the external Secret together: 2 where they are the subject, 0 where the subject
  is another interleaving.
- One volume in `Reconciler`'s runs: volumes behave alike, and the walk over a longer
  list is covered by the list of Secrets, the three Valkey objects, and the proofs.
  `SharedNamespace` has all four.
- `Period = 2`: only whether two times are equal matters, and two passes can fall
  into the same second or not.
- Four names: `a-data` and `a-media` end in suffixes of data, `a-valkey` in the one that
  collides; `a-data` is a character above its limit, the others within. So a worker that
  has one name refused for ever and two that fight in its queue also has one that must
  be applied. `Lasting` holds `a-data` and `a-media`: the names that meet are the ones
  created and deleted at any point. `MaxFaults = 3`: one per process.
- `WorkloadEnv`: three overrides suffice for a name repeated around another.
- The theorems have none of these bounds.

### Fairness

`Reconciler!FairSpec` assumes weak fairness of each operator's steps (a worker takes
queued names and finishes its pass; an error or a RequeueAfter puts the name back
after a finite delay), of watch delivery, of the garbage collector per object and of
the Deployment controller, and strong fairness of `FinishDeletion`: the collector
looks again and again, and would finish if it ever found the instance without
objects. It assumes nothing of users, failures, CloudNativePG's installation or the
resync. `ResyncSpec` adds the informers' periodic resync, which the comment on
`notReadyRequeueInterval` names as what takes effect "hours later".

`SharedNamespace` has strong fairness of `Begin` per name: the work queue is first
in, first out, so a queued name comes to the worker though others come in between.
`StatusClock` adds that time passes. `OperatorProcess` has weak fairness of restarts,
set-up steps and lease expiry, and strong fairness of acquiring a lease, which a
campaigning process tries periodically and may find taken in between.

`BecomesReady`, `StatusConverges` and `DeletionConverges` are of the form `<>[]`:
bounded edits and failures end, and then the state has to be right and stay right.

### Findings

Three statements of the repository do not hold of the code; each has a run whose
counterexample shows it, and an entry under `findings`.

1. A Retain instance created over the leftovers of a Delete instance, before the
   garbage collector has run, keeps the dead instance's owner reference on its
   Secrets, and loses them (`RetainedSecretsUnowned`).
2. A switch to Retain in the edit that moves an instance to an external database does
   not reach the Cluster it had, which is deleted with the instance
   (`RetainedDatabaseUnowned`).
3. Under foreground deletion each child the collector removes starts a pass that
   applies it again, and the deletion need never end (`ForegroundDeletionCompletes`).

### Exceptions visible in the statements

Some properties are stated around behaviour a reader should know of:

- `QuietPass` excepts an instance that is Ready: seeding `Ready` False and setting it
  back moves `lastTransitionTime` once the second has changed, so the pass stores a
  status. The comment of the idempotence test
  (`internal/controller/paperlessinstance_controller_test.go:459-462`) expects a
  no-op; its instance never becomes Ready. `ComesToRest` excepts it too.
- `AppliedIsKept` and `AllSettle` except instances named N and N-valkey: the second's
  Service has the name of the first's Valkey Service, and both are applied by force.
  `KeysMeet` proves that this is the only way derived names meet. The two never settle
  while both exist; `RestingIsKept`, which has no exception, says that neither is left
  reported as applied over an object it has lost without another pass.
- `ProbesAccepted` excepts a `spec.env` that sets `PAPERLESS_ALLOWED_HOSTS`: the user's
  list replaces the operator's, the probes' `Host` included. Nor does the operator's
  list have `name.namespace`, under which cluster DNS resolves the Service as well; no
  statement of the repository asks for it, and the probes do not use it.
- `ReadyAtObservedGeneration` is about Ready only, and about the first instance of a
  name: `DatabaseReady` may lag behind `observedGeneration`
  (`paperlessinstance_types.go:373-374`), and a pass that outlives its instance
  reports on the one recreated under its name until the next pass, which
  `RestingStatusIsOwn` says comes.
- `RestingIsServed` does not ask that a retained volume exists, nor any generated
  secret or the database: their deletion is no event (`StatusConverges` has them,
  with the resync).
- `DeletionConverges` says when a Valkey left by a switch to an external cache goes:
  with the instance. Until then it runs, unused.
- `DedupeCorrect`: an override takes the position of the entry it replaces, so a
  `$(X)` in it no longer sees an X the user set before it.
- `SettledOwnership` and `ReadyAtObservedGeneration` need one operator. Of two without
  leader election, one may work from a stale policy and change an owner reference
  after the other has reported, or patch a status against a base that the other has
  since replaced; TLC finds both at once. `RestingStatusIsOwn` and `RestingIsServed`
  hold for any number: such a state does not last.

## Proofs

For every value of the constants:

- `ReconcilerProofs!TypeCorrect`: `TypeOK` is inductive by itself. It includes that a
  pass stays within the list it walks, which the other proofs need.
- `DeletionPolicyRespected`: `Spec => []OwnedOnlyUnderDelete`. Not inductive alone: a
  pass writes references from its own copy of the instance. `OwnershipInv` adds
  `DeleteRecorded`: every copy (stored, cached, in a pass) with policy Delete has its
  UID in `everDelete`. Each step of a pass takes its copy from the cache or keeps it
  (`PassCopies`), each write takes its reference from such a copy (`WriteOwnership`).
- `UserDataKept`: `Spec => StatefulDataKept`. Steps of a pass only add, grow and keep
  (`PassKeepsData`); the garbage collector only removes what has an owner, and by
  `OwnershipInv` that owner asked for Delete.
- `DependenciesFirst`: `Spec => []WorkloadAfterDependencies`. `DependencyInv` adds
  `Progress`: at each step of a pass, what the earlier steps and the earlier elements
  of its list stand for has been written. At `ApplyDeployment` this covers `Needs`.
- `RefinementProofs!PolicyImplemented`: `Spec => ImplementsDeletionPolicy`, any number
  of operators and either cascade. `RefinementInv` is `OwnershipInv` and `IssuedInv`
  (every UID in use has been handed out, so a new instance is a new one); each action
  is shown to be a `DeletionPolicy` step or a stutter.
- `RestingProofs`, any number of operators: `RestsOnOwnStatus`
  (`Spec => []RestingStatusIsOwn`) and `RestsServed` (`Spec => []RestingIsServed`).
  Neither is inductive: what makes a state at rest right is what a pass knew before.
  `RestInv` says, of a pass whose operator has not been queued again since it began,
  that the cache still holds what it read (`PassCurrent`), that each watched object it
  has dealt with (`Behind`) still is as it left it (`PassApplied`), and once it is
  through, that the template and the replica are as it reports (`PassDeployed`); and
  without an event in flight the cache is the instance (`CacheCurrent`). Whoever
  breaks one of these queues every operator (`PassLeaves`, `RemoveRest`), so they are
  kept. Rest can only begin with a status patch that changes nothing and asks for no
  requeue (`PassEnds`, `PatchComesToRest`): then the pass read the present instance,
  and what it found was stored already (`SilentPatch`).
- `SettledProofs`, for one operator (`OneOperator`): `SettledIsOwned`
  (`Spec => []SettledOwnership`). `SettledInv` adds that what a pass has dealt with has
  the reference its copy gives (`OwnedSoFar`), that a copy of the present generation
  has the present spec (`Copies`), and the reason no later step spoils it: once the
  status tells of the present generation, cache and pass are at that generation too
  (`NoneBehind`). An edit or a new instance makes everything stale and nothing settled
  (`ChangeSettled`).
- There too: `ReadyIsObserved` (`Spec => []ReadyAtObservedGeneration`) and
  `StatusNeverGoesBack` (`Spec => StatusGoesForward`: the generations in the status
  only grow). `ObservedInv` orders them: `observedGeneration` as a pass read it <= as
  stored <= the generation of the pass <= of the cache <= of the instance
  (`ReadBetween`, `CachedBetween`), from which a patch that leaves one of the two out
  had it right already (`PatchObserved`).
- `WorkloadEnvProofs`: `NamesUnique`, `LastAtFirstPosition`, `UserOverridesOperator`,
  `ReadsAreProvided`, `ProbesAnswered`, for lists of any length, from `LoopInv`:
  `index` and `out` agree (`IndexRight`), each name walked has its last entry in `out`
  (`LastEntryKept`), and `out` has the order of first appearances. For `ProbesAnswered`:
  the operator's part starts with `ALLOWED_HOSTS` (`OperatorEnvIn`), so the name is
  walked and stands in `out`; what stands there is the operator's unless the user set it
  (`WinsAtEnd`), and the operator's has the instance's name (`OperatorHosted`).
- `SharedNamespaceProofs`: `KeysMeet`, the complete list of collisions of derived names
  for names of any length; from it `DataSeparate`, and `SeparateInstancesKeep` through
  `KeptInv` (what the pass in flight has applied so far is as applied);
  `LossesAreNotSilent` (`Spec => []RestingIsKept`) through `LossIsTold` (a step that
  takes an object from a live instance queues it) and `PassRests`; `LengthLimit`.
- `StatusClockProofs`: `ClockTypeCorrect` (the seed is never stored) and `QuietPasses`,
  from `PassInv`: at each step, how the working conditions relate to those read.
- `OperatorProcessProofs!SingleLeader`, from `LeaseInv`: whoever is active holds the
  one lease.

Assumptions: those on the constants in the modules that declare them (at least one
operator; at least one volume among the four names; admitted specs; natural bounds;
at least one image; start states of the right kind; names as non-empty sequences of
segments, `Lasting` among them; and so on). TLC evaluates them in every run. `OneOperator` is a hypothesis
of the three theorems that need it and of no other. As released it is met: the chart
turns leader election on (`leaderElection.enabled` in
`charts/paperless-ngx-operator/values.yaml`), which `OperatorProcess` and
`SingleLeader` are about. The flag's own default is off (`cmd/main.go:22`); a single
replica is then alone except during an upgrade.

Only model-checked: the liveness properties (`BecomesReady`, `StatusConverges`,
`DeletionConverges`, `AllSettle`, `ComesToRest`, `KeepsWorking`), which are outside the
prover's reach. `RestInv`, `SettledInv` and `ObservedInv` were model-checked before
they were proved: with the specs of `policy` and `resync`, with three database specs,
with foreground deletion, with a failing call or restart and hand-deleted children,
and `RestInv` with two operators.

## Not modelled

Generated deep copies, scheme registration, the version string, the metrics address
and log flags, the chart, CRD and RBAC manifests, and release tooling: no logic of
their own at run time. Of the builders: ports, probe periods, mounts, resource
requirements and the Cluster's own spec, which nothing else depends on. Objects that
CloudNativePG derives from the Cluster, and their name limits. The timing inside
leader election. The wording of messages.

## Open

No safety invariant of a run is without a theorem. What could be stated next: what of
`SettledOwnership` survives a second operator (its references after both have come to
rest, for the secrets and the database too, which `RestingIsServed` leaves out), and
the part of the liveness arguments that is not temporal: that each step of a pass
brings it closer to its end.
