----------------------------- MODULE StatusClock -----------------------------
(***************************************************************************)
(* The status of one PaperlessInstance against the clock.                  *)
(*                                                                         *)
(* SetCondition (internal/controller/conditions.go) goes through           *)
(* meta.SetStatusCondition, which stamps the current time on a condition   *)
(* whose status changes in memory.  Every pass seeds Ready to False and    *)
(* sets it again at its end, patchStatus sends what then differs from the  *)
(* status as read, and a patch that stores anything comes back as a watch  *)
(* event that starts the next pass.  Whether the operator comes to rest    *)
(* depends on which of these patches are empty.                            *)
(*                                                                         *)
(* Reconciler leaves the clock out and lets a Ready instance's patch be    *)
(* empty or not as it likes; here the times are kept, and what the steps   *)
(* do to the cluster is reduced to whether they succeed.                   *)
(***************************************************************************)
EXTENDS Naturals

CONSTANTS
  Period,      \* bound: the clock's seconds are kept modulo this
  MaxGen,      \* bound: generations of the instance
  MaxChanges,  \* bound: changes of the cluster, and operator restarts
  Failures     \* the steps that may fail, for as long as the cause lasts

ASSUME ClockAssumption ==
  Period \in Nat \ {0} /\ MaxGen \in Nat /\ MaxChanges \in Nat

StepNames == {"secrets", "storage", "database", "cache", "workload"}

ASSUME FailuresAssumption == Failures \subseteq StepNames

VARIABLES
  now,      \* the current second
  gen,      \* metadata.generation
  status,   \* the stored status: its conditions and observedGeneration
  cluster,  \* what a pass finds: a failing step, the database, a ready replica
  cache,    \* the instance as the informer last delivered it
  notify,   \* the watch has an event for the instance in flight
  queue,    \* the instance is in the work queue
  pc,       \* the step of the pass in flight
  work,     \* the pass's inst: generation and conditions
  base,     \* the pass's base: the status as read
  again,    \* the pass ends in an error or a RequeueAfter
  changes   \* changes so far

passVars == <<pc, work, base, again>>
vars == <<now, gen, status, cluster, cache, notify, queue, passVars, changes>>

Seconds == 0..(Period - 1)

\* A condition's text is its reason and message: the error of a failing database
\* step and a database that is not there yet share a reason, not a message.
Texts ==
  {"", "Reconciling", "NoDatabase", "WorkloadNotReady", "WorkloadReady",
   "DatabaseAvailable"} \cup StepNames

Condition ==
  [status : {"", "True", "False"}, text : Texts, gen : Nat, since : Seconds]

Conditions == [Ready : Condition, DatabaseReady : Condition]

Status == [conds : Conditions, observedGeneration : Nat]

Absent == [status |-> "", text |-> "", gen |-> 0, since |-> 0]

NoStatus ==
  [conds |-> [Ready |-> Absent, DatabaseReady |-> Absent],
   observedGeneration |-> 0]

NoWork == [gen |-> 0, conds |-> NoStatus.conds]

\* mutation: an upsert that stamps the time whenever it is called
SetConditionAlways(w, type, value, text) ==
  [w EXCEPT !.conds[type] =
     [status |-> value, text |-> text, gen |-> w.gen, since |-> now]]

\* meta.SetStatusCondition: the time moves only with the status.
SetCondition(w, type, value, text) ==
  [w EXCEPT !.conds[type] =
     [status |-> value, text |-> text, gen |-> w.gen,
      since |-> IF @.status = value THEN @.since ELSE now]]

Init ==
  /\ now = 0 /\ gen = 1 /\ status = NoStatus
  /\ cluster \in [failing : Failures \cup {"none"}, database : BOOLEAN,
                  replica : {FALSE}]
  /\ cache = [gen |-> 1, status |-> NoStatus]
  /\ notify = FALSE /\ queue = TRUE
  /\ pc = "idle" /\ work = NoWork /\ base = NoStatus /\ again = FALSE
  /\ changes = 0

-----------------------------------------------------------------------------
(***************************************************************************)
(* The pass.                                                               *)
(***************************************************************************)
\* mutation: Ready is dropped and set afresh instead of seeded
SeedAnew(w) ==
  SetCondition([w EXCEPT !.conds.Ready.status = ""], "Ready", "False", "Reconciling")

Seed(w) == SetCondition(w, "Ready", "False", "Reconciling")

BeginPass ==
  /\ pc = "idle" /\ queue
  /\ queue' = FALSE
  /\ base' = cache.status
  /\ work' = Seed([gen |-> cache.gen, conds |-> cache.status.conds])
  /\ pc' = "secrets"
  /\ UNCHANGED <<now, gen, status, cluster, cache, notify, again, changes>>

Fails(step) == cluster.failing = step

\* reconcileInstance's error branch: Ready names the step, the error is returned.
FailingStep ==
  /\ pc \in StepNames /\ Fails(pc)
  /\ work' = SetCondition(work, "Ready", "False", pc)
  /\ again' = TRUE /\ pc' = "status"
  /\ UNCHANGED <<now, gen, status, cluster, cache, notify, queue, base,
                 changes>>

After(step) ==
  CASE step = "secrets" -> "storage"
    [] step = "storage" -> "database"
    [] step = "cache"   -> "workload"

\* reconcileSecrets, reconcileStorage and reconcileCache leave the status alone.
QuietStep ==
  /\ pc \in {"secrets", "storage", "cache"} /\ ~Fails(pc)
  /\ pc' = After(pc)
  /\ UNCHANGED <<now, gen, status, cluster, cache, notify, queue, work, base,
                 again, changes>>

ReconcileDatabase ==
  /\ pc = "database" /\ ~Fails(pc)
  /\ \/ /\ cluster.database
        /\ work' = SetCondition(work, "DatabaseReady", "True", "DatabaseAvailable")
        /\ pc' = "cache" /\ UNCHANGED again
     \/ /\ ~cluster.database
        /\ work' = SetCondition(
                     SetCondition(work, "DatabaseReady", "False", "NoDatabase"),
                     "Ready", "False", "NoDatabase")
        /\ again' = TRUE /\ pc' = "status"
  /\ UNCHANGED <<now, gen, status, cluster, cache, notify, queue, base,
                 changes>>

\* mutation: only the good news is written over the seed
ReconcileWorkloadIfReady ==
  /\ pc = "workload" /\ ~Fails(pc)
  /\ work' = IF cluster.replica
             THEN SetCondition(work, "Ready", "True", "WorkloadReady") ELSE work
  /\ pc' = "status"
  /\ UNCHANGED <<now, gen, status, cluster, cache, notify, queue, base, again,
                 changes>>

ReconcileWorkload ==
  /\ pc = "workload" /\ ~Fails(pc)
  /\ work' = IF cluster.replica
             THEN SetCondition(work, "Ready", "True", "WorkloadReady")
             ELSE SetCondition(work, "Ready", "False", "WorkloadNotReady")
  /\ pc' = "status"
  /\ UNCHANGED <<now, gen, status, cluster, cache, notify, queue, base, again,
                 changes>>

\* The merge patch: conditions are one list, sent whole when it differs from
\* base; a patch that changes nothing stores nothing and raises no event.
Patched ==
  [conds |-> IF work.conds # base.conds THEN work.conds ELSE status.conds,
   observedGeneration |-> IF work.gen # base.observedGeneration
                          THEN work.gen ELSE status.observedGeneration]

EndPass ==
  /\ pc' = "idle" /\ work' = NoWork /\ base' = NoStatus /\ again' = FALSE

PatchStatus ==
  /\ pc = "status"
  /\ status' = Patched
  /\ notify' = (notify \/ Patched # status)
  /\ queue' = (queue \/ again)
  /\ EndPass
  /\ UNCHANGED <<now, gen, cluster, cache, changes>>

OperatorStep ==
  \/ BeginPass \/ FailingStep \/ QuietStep \/ ReconcileDatabase
  \/ ReconcileWorkload \/ PatchStatus

-----------------------------------------------------------------------------
(***************************************************************************)
(* Around the pass.                                                        *)
(***************************************************************************)
Tick ==
  /\ now' = (now + 1) % Period
  /\ UNCHANGED <<gen, status, cluster, cache, notify, queue, passVars, changes>>

Observe ==
  /\ notify /\ notify' = FALSE
  /\ cache' = [gen |-> gen, status |-> status] /\ queue' = TRUE
  /\ UNCHANGED <<now, gen, status, cluster, passVars, changes>>

EditSpec ==
  /\ gen < MaxGen /\ gen' = gen + 1 /\ notify' = TRUE
  /\ UNCHANGED <<now, status, cluster, cache, queue, passVars, changes>>

\* Only the Deployment is watched.
ChangeCluster ==
  /\ changes < MaxChanges /\ changes' = changes + 1
  /\ \/ /\ \E f \in (Failures \cup {"none"}) \ {cluster.failing} :
             cluster' = [cluster EXCEPT !.failing = f]
        /\ UNCHANGED queue
     \/ cluster' = [cluster EXCEPT !.database = ~@] /\ UNCHANGED queue
     \/ cluster' = [cluster EXCEPT !.replica = ~@] /\ queue' = TRUE
  /\ UNCHANGED <<now, gen, status, cache, notify, passVars>>

Restart ==
  /\ changes < MaxChanges /\ changes' = changes + 1
  /\ EndPass
  /\ cache' = [gen |-> gen, status |-> status] /\ queue' = TRUE /\ notify' = FALSE
  /\ UNCHANGED <<now, gen, status, cluster>>

Next ==
  \/ OperatorStep \/ Tick \/ Observe
  \/ EditSpec \/ ChangeCluster \/ Restart

Spec == Init /\ [][Next]_vars

\* A worker takes the queued name and finishes its passes, watch events arrive,
\* time passes.
FairSpec ==
  Spec /\ WF_vars(OperatorStep) /\ WF_vars(Observe) /\ WF_vars(Tick)

-----------------------------------------------------------------------------
(***************************************************************************)
(* Every variable has its type, and the seed is never what is stored: every*)
(* path through a pass writes over it, whatever failed or changed meanwhile*)
(* ("every path below overwrites this").                                   *)
(***************************************************************************)
TypeOK ==
  /\ now \in Seconds /\ gen \in Nat /\ status \in Status
  /\ cluster \in [failing : StepNames \cup {"none"}, database : BOOLEAN,
                  replica : BOOLEAN]
  /\ cache \in [gen : Nat, status : Status]
  /\ notify \in BOOLEAN /\ queue \in BOOLEAN
  /\ pc \in StepNames \cup {"idle", "status"}
  /\ work \in [gen : Nat, conds : Conditions] /\ base \in Status
  /\ again \in BOOLEAN /\ changes \in Nat
  /\ status.conds.Ready.text # "Reconciling"

\* What a condition says, its time left aside.
Says(c) == [status |-> c.status, text |-> c.text, gen |-> c.gen]

SameReport(conds1, conds2) ==
  /\ Says(conds1.Ready) = Says(conds2.Ready)
  /\ Says(conds1.DatabaseReady) = Says(conds2.DatabaseReady)

\* This pass read what is stored and found what is stored.
NothingNew ==
  /\ pc = "status" /\ base = status
  /\ work.gen = base.observedGeneration
  /\ SameReport(work.conds, base.conds)

(***************************************************************************)
(* The second pass over an unchanged instance stores nothing, and so does  *)
(* not start a third: always when the instance is not Ready, which seeding *)
(* must not cost its lastTransitionTime.  Of a Ready instance, set to      *)
(* False and back, it holds only while the second is that of the last      *)
(* transition; later its pass stores a moved time.                         *)
(***************************************************************************)
QuietPassStep ==
  /\ NothingNew
  /\ \/ work.conds.Ready.status = "False"
     \/ work.conds.Ready.since = base.conds.Ready.since
  => status' = status

QuietPass == [][QuietPassStep]_vars

NotReadyCause == cluster.failing # "none" \/ ~cluster.database \/ ~cluster.replica

(***************************************************************************)
(* An instance that cannot become Ready is requeued without end, by errors *)
(* or by notReadyRequeueInterval, but from some point on none of these     *)
(* passes writes its status any more.                                      *)
(***************************************************************************)
ComesToRest == <>[]NotReadyCause => <>[][status' = status]_vars
=============================================================================
