-------------------------- MODULE StatusClockProofs --------------------------
(***************************************************************************)
(* Proofs about StatusClock: the type invariant, which says that the seed  *)
(* is never stored, and QuietPass, for every number of seconds,            *)
(* generations and changes and for every set of failing steps.             *)
(*                                                                         *)
(* QuietPass speaks of the last step of a pass.  What it needs from the    *)
(* steps before is in PassInv: until its last report the pass holds Ready  *)
(* at False, and a condition that ends with the status it was read with    *)
(* still has the time it was read with.                                    *)
(***************************************************************************)
EXTENDS StatusClock, TLAPS

Begun == pc \in StepNames \cup {"status"}

\* DatabaseReady as read, until the database step sets it once.
DatabaseUntouched ==
  pc \in {"secrets", "storage", "database"} =>
    work.conds.DatabaseReady = base.conds.DatabaseReady

DatabaseTimeKept ==
  Begun /\ work.conds.DatabaseReady.status = base.conds.DatabaseReady.status =>
    work.conds.DatabaseReady.since = base.conds.DatabaseReady.since

SeedHeld == pc \in StepNames => work.conds.Ready.status = "False"

SeedOverwritten == pc = "status" => work.conds.Ready.text # "Reconciling"

ReadyTimeKept ==
  Begun /\ work.conds.Ready.status = "False" /\ base.conds.Ready.status = "False" =>
    work.conds.Ready.since = base.conds.Ready.since

PassInv ==
  /\ DatabaseUntouched /\ DatabaseTimeKept
  /\ SeedHeld /\ SeedOverwritten /\ ReadyTimeKept

Inv == TypeOK /\ PassInv

(***************************************************************************)
(* SetCondition returns a well-typed pass, changes the one condition, and  *)
(* keeps its time when the status stays (meta.SetStatusCondition).         *)
(***************************************************************************)
LEMMA SetReady ==
  ASSUME NEW w \in [gen : Nat, conds : Conditions],
         NEW value \in {"True", "False"}, NEW text \in Texts,
         now \in Seconds,
         NEW v, v = SetCondition(w, "Ready", value, text)
  PROVE  /\ v \in [gen : Nat, conds : Conditions]
         /\ v.conds.Ready.status = value /\ v.conds.Ready.text = text
         /\ w.conds.Ready.status = value =>
              v.conds.Ready.since = w.conds.Ready.since
         /\ v.conds.DatabaseReady = w.conds.DatabaseReady
  BY DEF SetCondition, Conditions, Condition

LEMMA SetDatabaseReady ==
  ASSUME NEW w \in [gen : Nat, conds : Conditions],
         NEW value \in {"True", "False"}, NEW text \in Texts,
         now \in Seconds,
         NEW v, v = SetCondition(w, "DatabaseReady", value, text)
  PROVE  /\ v \in [gen : Nat, conds : Conditions]
         /\ v.conds.DatabaseReady.status = value /\ v.conds.DatabaseReady.text = text
         /\ w.conds.DatabaseReady.status = value =>
              v.conds.DatabaseReady.since = w.conds.DatabaseReady.since
         /\ v.conds.Ready = w.conds.Ready
  BY DEF SetCondition, Conditions, Condition

(***************************************************************************)
(* Initially the invariant holds.                                          *)
(***************************************************************************)
LEMMA InitInv == Init => Inv
  <1> SUFFICES ASSUME Init PROVE Inv
    OBVIOUS
  <1>1. 0 \in Seconds
    BY ClockAssumption DEF Seconds
  <1>2. NoStatus \in Status /\ NoWork \in [gen : Nat, conds : Conditions]
    BY <1>1 DEF NoStatus, NoWork, Absent, Status, Conditions, Condition, Texts
  <1>3. TypeOK
    BY <1>1, <1>2, FailuresAssumption DEF Init, TypeOK, NoStatus, Absent
  <1>4. PassInv
    BY DEF Init, PassInv, DatabaseUntouched, DatabaseTimeKept, SeedHeld,
           SeedOverwritten, ReadyTimeKept, Begun, StepNames
  <1> QED  BY <1>3, <1>4 DEF Inv

(***************************************************************************)
(* The steps of a pass keep the invariant.                                 *)
(***************************************************************************)
LEMMA BeginInv == ASSUME Inv, BeginPass PROVE Inv'
  <1> DEFINE w == [gen |-> cache.gen, conds |-> cache.status.conds]
  <1>1. /\ w \in [gen : Nat, conds : Conditions] /\ now \in Seconds
        /\ cache.status \in Status /\ "Reconciling" \in Texts
    BY DEF Inv, TypeOK, Status, Texts
  <1>2. /\ work' = SetCondition(w, "Ready", "False", "Reconciling")
        /\ base' = cache.status /\ pc' = "secrets"
        /\ w.conds = cache.status.conds
    BY DEF BeginPass, Seed
  <1> HIDE DEF w
  <1>3. /\ work' \in [gen : Nat, conds : Conditions]
        /\ work'.conds.Ready.status = "False"
        /\ w.conds.Ready.status = "False" =>
             work'.conds.Ready.since = w.conds.Ready.since
        /\ work'.conds.DatabaseReady = w.conds.DatabaseReady
    BY <1>1, <1>2, SetReady
  <1>4. TypeOK'
    BY <1>1, <1>2, <1>3 DEF Inv, TypeOK, BeginPass, StepNames
  <1>5. PassInv'
    BY <1>2, <1>3 DEF PassInv, DatabaseUntouched, DatabaseTimeKept, SeedHeld,
           SeedOverwritten, ReadyTimeKept, Begun, StepNames
  <1> QED  BY <1>4, <1>5 DEF Inv

LEMMA FailingInv == ASSUME Inv, FailingStep PROVE Inv'
  <1>1. /\ work \in [gen : Nat, conds : Conditions] /\ now \in Seconds
        /\ pc \in Texts /\ pc # "Reconciling" /\ pc \in StepNames
    BY DEF Inv, TypeOK, FailingStep, Texts, StepNames
  <1>2. work' = SetCondition(work, "Ready", "False", pc) /\ pc' = "status"
    BY DEF FailingStep
  <1>3. /\ work' \in [gen : Nat, conds : Conditions]
        /\ work'.conds.Ready.text = pc
        /\ work.conds.Ready.status = "False" =>
             work'.conds.Ready.since = work.conds.Ready.since
        /\ work'.conds.DatabaseReady = work.conds.DatabaseReady
    BY <1>1, <1>2, SetReady
  <1>4. TypeOK'
    BY <1>2, <1>3 DEF Inv, TypeOK, FailingStep
  <1>5. PassInv'
    BY <1>1, <1>2, <1>3 DEF Inv, FailingStep, PassInv, DatabaseUntouched,
       DatabaseTimeKept, SeedHeld, SeedOverwritten, ReadyTimeKept, Begun, StepNames
  <1> QED  BY <1>4, <1>5 DEF Inv

LEMMA QuietInv == ASSUME Inv, QuietStep PROVE Inv'
  <1>1. \/ pc = "secrets" /\ pc' = "storage"
        \/ pc = "storage" /\ pc' = "database"
        \/ pc = "cache" /\ pc' = "workload"
    BY DEF QuietStep, After
  <1>2. TypeOK'
    BY <1>1 DEF Inv, TypeOK, QuietStep, StepNames
  <1>3. PassInv'
    BY <1>1 DEF Inv, QuietStep, PassInv, DatabaseUntouched,
       DatabaseTimeKept, SeedHeld, SeedOverwritten, ReadyTimeKept, Begun, StepNames
  <1> QED  BY <1>2, <1>3 DEF Inv

LEMMA DatabaseInv == ASSUME Inv, ReconcileDatabase PROVE Inv'
  <1>1. /\ work \in [gen : Nat, conds : Conditions] /\ now \in Seconds
    BY DEF Inv, TypeOK
  <1>2. /\ pc = "database" /\ base' = base
        /\ work.conds.DatabaseReady = base.conds.DatabaseReady
        /\ work.conds.Ready.status = "False"
        /\ base.conds.Ready.status = "False" =>
             work.conds.Ready.since = base.conds.Ready.since
    BY DEF Inv, PassInv, DatabaseUntouched, SeedHeld, ReadyTimeKept, Begun,
       StepNames, ReconcileDatabase
  <1>3. CASE cluster.database
    <2>1. /\ work' = SetCondition(work, "DatabaseReady", "True", "DatabaseAvailable")
          /\ pc' = "cache"
      BY <1>3 DEF ReconcileDatabase
    <2>0. "DatabaseAvailable" \in Texts
      BY DEF Texts
    <2>2. /\ work' \in [gen : Nat, conds : Conditions]
          /\ work'.conds.DatabaseReady.status = "True"
          /\ work.conds.DatabaseReady.status = "True" =>
               work'.conds.DatabaseReady.since = work.conds.DatabaseReady.since
          /\ work'.conds.Ready = work.conds.Ready
      BY <1>1, <2>0, <2>1, SetDatabaseReady
    <2>3. TypeOK'
      BY <1>3, <2>1, <2>2 DEF Inv, TypeOK, ReconcileDatabase, StepNames
    <2>4. PassInv'
      BY <1>2, <2>1, <2>2 DEF PassInv, DatabaseUntouched, DatabaseTimeKept,
         SeedHeld, SeedOverwritten, ReadyTimeKept, Begun, StepNames
    <2> QED  BY <2>3, <2>4 DEF Inv
  <1>4. CASE ~cluster.database
    <2> DEFINE w == SetCondition(work, "DatabaseReady", "False", "NoDatabase")
    <2>1. work' = SetCondition(w, "Ready", "False", "NoDatabase") /\ pc' = "status"
      BY <1>4 DEF ReconcileDatabase
    <2>0. w = SetCondition(work, "DatabaseReady", "False", "NoDatabase")
      OBVIOUS
    <2> HIDE DEF w
    <2>n. "NoDatabase" \in Texts
      BY DEF Texts
    <2>2. /\ w \in [gen : Nat, conds : Conditions]
          /\ w.conds.DatabaseReady.status = "False"
          /\ work.conds.DatabaseReady.status = "False" =>
               w.conds.DatabaseReady.since = work.conds.DatabaseReady.since
          /\ w.conds.Ready = work.conds.Ready
      BY <1>1, <2>n, <2>0, SetDatabaseReady
    <2>3. /\ work' \in [gen : Nat, conds : Conditions]
          /\ work'.conds.Ready.text = "NoDatabase"
          /\ work.conds.Ready.status = "False" =>
               work'.conds.Ready.since = w.conds.Ready.since
          /\ work'.conds.DatabaseReady = w.conds.DatabaseReady
      BY <1>1, <2>n, <2>1, <2>2, SetReady
    <2>4. TypeOK'
      BY <1>4, <2>1, <2>3 DEF Inv, TypeOK, ReconcileDatabase
    <2>5. PassInv'
      BY <1>2, <2>1, <2>2, <2>3 DEF PassInv, DatabaseUntouched, DatabaseTimeKept,
         SeedHeld, SeedOverwritten, ReadyTimeKept, Begun, StepNames
    <2> QED  BY <2>4, <2>5 DEF Inv
  <1> QED  BY <1>3, <1>4

LEMMA WorkloadInv == ASSUME Inv, ReconcileWorkload PROVE Inv'
  <1>1. work \in [gen : Nat, conds : Conditions] /\ now \in Seconds
    BY DEF Inv, TypeOK
  <1>2. /\ work' \in [gen : Nat, conds : Conditions]
        /\ work'.conds.Ready.text # "Reconciling"
        /\ work.conds.Ready.status = "False" /\ work'.conds.Ready.status = "False" =>
             work'.conds.Ready.since = work.conds.Ready.since
        /\ work'.conds.DatabaseReady = work.conds.DatabaseReady
    <2>1. CASE cluster.replica
      <3>1. work' = SetCondition(work, "Ready", "True", "WorkloadReady")
        BY <2>1 DEF ReconcileWorkload
      <3>2. "WorkloadReady" \in Texts
        BY DEF Texts
      <3> QED  BY <1>1, <3>1, <3>2, SetReady
    <2>2. CASE ~cluster.replica
      <3>1. work' = SetCondition(work, "Ready", "False", "WorkloadNotReady")
        BY <2>2 DEF ReconcileWorkload
      <3>2. "WorkloadNotReady" \in Texts
        BY DEF Texts
      <3> QED  BY <1>1, <3>1, <3>2, SetReady
    <2> QED  BY <2>1, <2>2
  <1>3. TypeOK'
    BY <1>2 DEF Inv, TypeOK, ReconcileWorkload
  <1>4. PassInv'
    BY <1>2 DEF Inv, ReconcileWorkload, PassInv, DatabaseUntouched,
       DatabaseTimeKept, SeedHeld, SeedOverwritten, ReadyTimeKept, Begun, StepNames
  <1> QED  BY <1>3, <1>4 DEF Inv

LEMMA EndPassInv ==
  ASSUME EndPass
  PROVE  /\ PassInv' /\ pc' = "idle" /\ again' \in BOOLEAN
         /\ work' \in [gen : Nat, conds : Conditions] /\ base' \in Status
  <1>1. 0 \in Seconds
    BY ClockAssumption DEF Seconds
  <1>2. NoStatus \in Status /\ NoWork \in [gen : Nat, conds : Conditions]
    BY <1>1 DEF NoStatus, NoWork, Absent, Status, Conditions, Condition, Texts
  <1> QED
    BY <1>2 DEF EndPass, PassInv, DatabaseUntouched, DatabaseTimeKept, SeedHeld,
       SeedOverwritten, ReadyTimeKept, Begun, StepNames

LEMMA PatchInv == ASSUME Inv, PatchStatus PROVE Inv'
  <1>1. Patched \in Status /\ Patched.conds.Ready.text # "Reconciling"
    BY DEF Inv, TypeOK, PassInv, SeedOverwritten, PatchStatus, Patched, Status
  <1>2. TypeOK'
    BY <1>1, EndPassInv DEF Inv, TypeOK, PatchStatus
  <1> QED  BY <1>2, EndPassInv DEF Inv, PatchStatus

(***************************************************************************)
(* So do the steps around it, which leave the pass alone or end it.        *)
(***************************************************************************)
LEMMA AroundInv ==
  ASSUME Inv, Tick \/ Observe \/ EditSpec \/ ChangeCluster \/ Restart
  PROVE  Inv'
  <1>1. CASE Tick
    <2>1. now' \in Seconds
      BY <1>1, ClockAssumption DEF Inv, TypeOK, Tick, Seconds
    <2> QED  BY <1>1, <2>1 DEF Inv, TypeOK, Tick, passVars, PassInv,
           DatabaseUntouched, DatabaseTimeKept, SeedHeld, SeedOverwritten,
           ReadyTimeKept, Begun
  <1>2. CASE Observe
    BY <1>2 DEF Inv, TypeOK, Observe, passVars, PassInv,
           DatabaseUntouched, DatabaseTimeKept, SeedHeld, SeedOverwritten,
           ReadyTimeKept, Begun
  <1>3. CASE EditSpec
    BY <1>3 DEF Inv, TypeOK, EditSpec, passVars, PassInv,
           DatabaseUntouched, DatabaseTimeKept, SeedHeld, SeedOverwritten,
           ReadyTimeKept, Begun
  <1>4. CASE ChangeCluster
    <2>1. cluster' \in [failing : StepNames \cup {"none"}, database : BOOLEAN,
                        replica : BOOLEAN]
      BY <1>4, FailuresAssumption DEF Inv, TypeOK, ChangeCluster
    <2>2. queue' \in BOOLEAN
      BY <1>4 DEF Inv, TypeOK, ChangeCluster
    <2>c. changes' \in Nat
      BY <1>4 DEF Inv, TypeOK, ChangeCluster
    <2>3. UNCHANGED <<now, gen, status, cache, notify, passVars>>
      BY <1>4 DEF ChangeCluster
    <2> QED  BY <2>1, <2>2, <2>c, <2>3 DEF Inv, TypeOK, passVars, PassInv,
           DatabaseUntouched, DatabaseTimeKept, SeedHeld, SeedOverwritten,
           ReadyTimeKept, Begun
  <1>5. CASE Restart
    <2>1. EndPass
      BY <1>5 DEF Restart
    <2>a. changes' \in Nat
      BY <1>5 DEF Inv, TypeOK, Restart
    <2>b. cache' \in [gen : Nat, status : Status]
      BY <1>5 DEF Inv, TypeOK, Restart
    <2>c. pc' \in StepNames \cup {"idle", "status"}
      BY <2>1, EndPassInv
    <2>2. TypeOK'
      BY <1>5, <2>1, <2>a, <2>b, <2>c, EndPassInv DEF Inv, TypeOK, Restart
    <2> QED  BY <2>1, <2>2, EndPassInv DEF Inv
  <1> QED  BY <1>1, <1>2, <1>3, <1>4, <1>5

LEMMA Inductive == Inv /\ [Next]_vars => Inv'
  <1> SUFFICES ASSUME Inv, [Next]_vars PROVE Inv'
    OBVIOUS
  <1>1. CASE OperatorStep
    BY <1>1, BeginInv, FailingInv, QuietInv, DatabaseInv, WorkloadInv, PatchInv
       DEF OperatorStep
  <1>2. CASE UNCHANGED vars
    BY <1>2 DEF vars, passVars, Inv, TypeOK, PassInv, DatabaseUntouched,
       DatabaseTimeKept, SeedHeld, SeedOverwritten, ReadyTimeKept, Begun
  <1> QED  BY <1>1, <1>2, AroundInv DEF Next

LEMMA AlwaysInv == Spec => []Inv
  BY InitInv, Inductive, PTL DEF Spec

(***************************************************************************)
(* The type invariant: no pass ever stores the seeded Ready condition.     *)
(***************************************************************************)
THEOREM ClockTypeCorrect == Spec => []TypeOK
  BY AlwaysInv, PTL DEF Inv

(***************************************************************************)
(* A pass with nothing new to say about an instance that is not Ready, or  *)
(* that says it in the second of the last transition, sends nothing.       *)
(***************************************************************************)
LEMMA QuietStepLemma == Inv /\ [Next]_vars => QuietPassStep
  <1> SUFFICES ASSUME Inv, [Next]_vars, NothingNew,
                      \/ work.conds.Ready.status = "False"
                      \/ work.conds.Ready.since = base.conds.Ready.since
               PROVE  status' = status
    BY DEF QuietPassStep
  <1>1. /\ work.conds \in Conditions /\ base.conds \in Conditions
        /\ status \in Status /\ pc = "status" /\ Begun
    BY DEF Inv, TypeOK, Status, NothingNew, Begun
  <1>0. ASSUME NEW c \in Condition, NEW d \in Condition, Says(c) = Says(d)
        PROVE  /\ c.status = d.status
               /\ c.since = d.since => c = d
    <2>1. /\ Says(c).status = c.status /\ Says(d).status = d.status
          /\ Says(c).text = c.text /\ Says(d).text = d.text
          /\ Says(c).gen = c.gen /\ Says(d).gen = d.gen
      BY DEF Says
    <2>2. c.status = d.status /\ c.text = d.text /\ c.gen = d.gen
      BY <1>0, <2>1
    <2>3. ASSUME c.since = d.since PROVE c = d
      <3>1. c = [status |-> c.status, text |-> c.text, gen |-> c.gen, since |-> c.since]
        BY DEF Condition
      <3>2. d = [status |-> d.status, text |-> d.text, gen |-> d.gen, since |-> d.since]
        BY DEF Condition
      <3> QED  BY <2>2, <2>3, <3>1, <3>2
    <2> QED  BY <2>2, <2>3
  <1>a. /\ work.conds.Ready \in Condition /\ base.conds.Ready \in Condition
        /\ work.conds.DatabaseReady \in Condition
        /\ base.conds.DatabaseReady \in Condition
    BY <1>1 DEF Conditions
  <1>b. /\ Says(work.conds.Ready) = Says(base.conds.Ready)
        /\ Says(work.conds.DatabaseReady) = Says(base.conds.DatabaseReady)
    BY DEF NothingNew, SameReport
  <1>2. work.conds.Ready = base.conds.Ready
    BY <1>1, <1>0, <1>a, <1>b DEF Inv, PassInv, ReadyTimeKept
  <1>3. work.conds.DatabaseReady = base.conds.DatabaseReady
    BY <1>1, <1>0, <1>a, <1>b DEF Inv, PassInv, DatabaseTimeKept
  <1>4. work.conds = base.conds
    BY <1>1, <1>2, <1>3 DEF Conditions
  <1>5. Patched = status
    BY <1>1, <1>4 DEF Patched, NothingNew, Status
  <1>6. CASE PatchStatus
    BY <1>5, <1>6 DEF PatchStatus
  <1>7. CASE UNCHANGED vars
    BY <1>7 DEF vars
  <1> QED
    BY <1>1, <1>6, <1>7 DEF Next, OperatorStep, BeginPass, FailingStep, QuietStep,
       ReconcileDatabase, ReconcileWorkload, Tick, Observe, EditSpec,
       ChangeCluster, Restart, StepNames

THEOREM QuietPasses == Spec => QuietPass
  BY AlwaysInv, QuietStepLemma, PTL DEF Spec, QuietPass
=============================================================================
