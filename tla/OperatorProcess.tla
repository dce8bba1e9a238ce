-------------------------- MODULE OperatorProcess --------------------------
(***************************************************************************)
(* The operator's processes: main (cmd/main.go) with the options of        *)
(* internal/manager, several replicas and two versions during a rolling    *)
(* upgrade.                                                                *)
(*                                                                         *)
(* main builds the manager, registers the two probes and the controller    *)
(* and starts; any error ends the process, and the kubelet starts another. *)
(* With --leader-elect a started process campaigns for the lease named     *)
(* LeaderElectionID before it reconciles, and main ends when the lease is  *)
(* lost.  LeaderElectionReleaseOnCancel is not set: a process that ends    *)
(* leaves its lease to expire.  The lease itself is client-go's: its       *)
(* holder gives up before anyone else may take it, and a restarted process *)
(* has a new identity.                                                     *)
(*                                                                         *)
(* This is where Reconciler's set of Operators comes from: with the        *)
(* election one process acts at a time, without it all do.                 *)
(***************************************************************************)
EXTENDS Naturals

CONSTANTS
  Processes,   \* the pods of the operator's Deployment
  VersionOf,   \* the release each runs: "old" or "new"
  Elections,   \* whether --leader-elect may, or may not, be given
  MaxFaults    \* bound: failing starts, crashes, lost leases

ASSUME ProcessAssumption ==
  /\ VersionOf \in [Processes -> {"old", "new"}]
  /\ Elections \subseteq BOOLEAN /\ MaxFaults \in Nat

\* The name of the lock.
LeaderElectionIDByVersion(p) == VersionOf[p]   \* mutation: renamed in a release
LeaderElectionID(p) == "paperless-ngx-operator"

Locks == {"paperless-ngx-operator", "old", "new"}

VARIABLES
  election,  \* --leader-elect
  stage,     \* how far main has come
  lease,     \* the processes that hold a lock, as the API server has it
  faults     \* faults so far

vars == <<election, stage, lease, faults>>

Init ==
  /\ election \in Elections
  /\ stage = [p \in Processes |-> "down"]
  /\ lease = [l \in Locks |-> {}]
  /\ faults = 0

To(p, s) == stage' = [stage EXCEPT ![p] = s]

\* The kubelet starts the container again whenever it has ended.
StartContainer(p) ==
  /\ stage[p] = "down" /\ To(p, "begun")
  /\ UNCHANGED <<election, lease, faults>>

\* NewManager, the two probes, SetupWithManager, Start: in this order.
Onwards(s) ==
  CASE s = "begun"      -> "manager"
    [] s = "manager"    -> "probes"
    [] s = "probes"     -> "controller"
    [] s = "controller" -> "started"

SetupStep(p) ==
  /\ stage[p] \in {"begun", "manager", "probes", "controller"}
  /\ To(p, Onwards(stage[p]))
  /\ UNCHANGED <<election, lease, faults>>

\* mutation: the error is logged and main goes on without a controller
SetupLogsError(p) ==
  /\ stage[p] \in {"begun", "manager", "probes"}
  /\ faults < MaxFaults /\ faults' = faults + 1
  /\ To(p, IF stage[p] = "probes" THEN "idle" ELSE "down")
  /\ UNCHANGED <<election, lease>>

\* Each of the steps logs its error and exits.
SetupFails(p) ==
  /\ stage[p] \in {"begun", "manager", "probes"}
  /\ faults < MaxFaults /\ faults' = faults + 1
  /\ To(p, "down")
  /\ UNCHANGED <<election, lease>>

\* mgr.Start: the controller runs at once, or once the process leads.
RunController(p) ==
  /\ stage[p] = "started"
  /\ \/ ~election /\ UNCHANGED lease
     \/ /\ election /\ lease[LeaderElectionID(p)] = {}
        /\ lease' = [lease EXCEPT ![LeaderElectionID(p)] = {p}]
  /\ To(p, "active")
  /\ UNCHANGED <<election, faults>>

\* mgr.Start returns an error when the lease cannot be renewed, and main exits;
\* a crash needs no cause.
Exit(p) ==
  /\ stage[p] \in {"started", "active"}
  /\ faults < MaxFaults /\ faults' = faults + 1
  /\ To(p, "down")
  /\ UNCHANGED <<election, lease>>

\* readyz is a ping, answered from Start on, by a process that waits too.
Ready(p) == stage[p] \in {"started", "active"}

\* The upgrade: an old pod goes once a new one is Ready.  SIGTERM ends mgr.Start
\* without an error; the lease is not released.
Retire(p) ==
  /\ VersionOf[p] = "old" /\ stage[p] # "gone"
  /\ \E q \in Processes : VersionOf[q] = "new" /\ Ready(q)
  /\ To(p, "gone")
  /\ UNCHANGED <<election, lease, faults>>

\* A lease nobody renews any more expires.
Expire(l) ==
  /\ lease[l] # {} /\ \A p \in lease[l] : stage[p] # "active"
  /\ lease' = [lease EXCEPT ![l] = {}]
  /\ UNCHANGED <<election, stage, faults>>

Next ==
  \/ \E p \in Processes :
       \/ StartContainer(p) \/ SetupStep(p) \/ SetupFails(p)
       \/ RunController(p) \/ Exit(p) \/ Retire(p)
  \/ \E l \in Locks : Expire(l)

Spec == Init /\ [][Next]_vars

\* The kubelet restarts containers, main goes on, leases expire, and a process
\* that campaigns acquires a lease it finds free again and again.
FairSpec ==
  /\ Spec
  /\ \A p \in Processes :
       /\ WF_vars(StartContainer(p)) /\ WF_vars(SetupStep(p))
       /\ SF_vars(RunController(p))
  /\ \A l \in Locks : WF_vars(Expire(l))

-----------------------------------------------------------------------------
Active == {p \in Processes : stage[p] = "active"}

(***************************************************************************)
(* Under leader election at most one process reconciles, through crashes,  *)
(* lost leases and an upgrade in which both releases run: the lock has the *)
(* same name in every release ("Changing this splits an upgrading operator *)
(* into two active leaders", internal/manager/options.go).                 *)
(***************************************************************************)
AtMostOneActive ==
  election => \A p, q \in Active : p = q

(***************************************************************************)
(* Some process always comes to reconcile again, whatever failed during a  *)
(* start and although the lease of a process that ended must first expire, *)
(* also after the upgrade has taken the old release away.                  *)
(***************************************************************************)
KeepsWorking == []<>(Active # {})
=============================================================================
