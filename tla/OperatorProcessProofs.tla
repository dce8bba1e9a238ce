----------------------- MODULE OperatorProcessProofs -----------------------
(***************************************************************************)
(* Proof that leader election leaves at most one process active, for every *)
(* number of processes and faults.  What makes it inductive: an active     *)
(* process is the one its lock is held by.                                 *)
(***************************************************************************)
EXTENDS OperatorProcess, TLAPS

LeaseType ==
  /\ election \in BOOLEAN
  /\ DOMAIN stage = Processes /\ lease \in [Locks -> SUBSET Processes]

ActiveHolds ==
  election => \A p \in Active : lease[LeaderElectionID(p)] = {p}

LeaseInv == LeaseType /\ ActiveHolds

\* Moving one process to another stage changes no other one's.
LEMMA ToFacts ==
  ASSUME LeaseType, NEW p \in Processes, NEW s, To(p, s)
  PROVE  /\ DOMAIN stage' = Processes
         /\ \A q \in Processes : q # p => stage'[q] = stage[q]
         /\ stage'[p] = s
  BY DEF LeaseType, To

\* A step of one process that does not end with it active and leaves the leases.
LEMMA Inactive ==
  ASSUME LeaseInv, NEW p \in Processes, NEW s, To(p, s), s # "active",
         UNCHANGED <<election, lease>>
  PROVE  LeaseInv'
  <1>1. Active' \subseteq Active
    BY ToFacts DEF Active, LeaseInv
  <1> QED  BY <1>1, ToFacts DEF LeaseInv, LeaseType, ActiveHolds, LeaderElectionID

LEMMA LeaseStep == LeaseInv /\ [Next]_vars => LeaseInv'
  <1> SUFFICES ASSUME LeaseInv, [Next]_vars PROVE LeaseInv'
    OBVIOUS
  <1>1. ASSUME NEW p \in Processes,
               StartContainer(p) \/ SetupStep(p) \/ SetupFails(p) \/ Exit(p) \/ Retire(p)
        PROVE  LeaseInv'
    <2>1. /\ UNCHANGED <<election, lease>>
          /\ \E s \in {"begun", "manager", "probes", "controller", "started", "down",
                       "gone"} : To(p, s)
      BY <1>1 DEF StartContainer, SetupStep, Onwards, SetupFails, Exit, Retire
    <2> QED  BY <2>1, Inactive
  <1>2. ASSUME NEW p \in Processes, RunController(p) PROVE LeaseInv'
    <2>1. To(p, "active") /\ election' = election
      BY <1>2 DEF RunController
    <2>2. /\ DOMAIN stage' = Processes
          /\ \A q \in Processes : q # p => stage'[q] = stage[q]
      BY <2>1, ToFacts DEF LeaseInv
    <2>3. CASE ~election
      BY <1>2, <2>1, <2>2, <2>3 DEF RunController, LeaseInv, LeaseType, ActiveHolds
    <2>4. CASE election
      <3>1. /\ lease[LeaderElectionID(p)] = {}
            /\ lease' = [lease EXCEPT ![LeaderElectionID(p)] = {p}]
        BY <1>2, <2>4 DEF RunController
      <3>2. LeaderElectionID(p) \in Locks
        BY DEF LeaderElectionID, Locks
      <3>3. Active = {}
        BY <2>4, <3>1 DEF LeaseInv, ActiveHolds, LeaderElectionID
      <3>4. Active' \subseteq {p}
        BY <2>2, <3>3 DEF Active
      <3>5. lease'[LeaderElectionID(p)] = {p} /\ lease' \in [Locks -> SUBSET Processes]
        BY <3>1, <3>2 DEF LeaseInv, LeaseType
      <3> QED
        BY <2>1, <2>2, <3>4, <3>5 DEF LeaseInv, LeaseType, ActiveHolds, LeaderElectionID
    <2> QED  BY <2>3, <2>4 DEF LeaseInv, LeaseType
  <1>3. ASSUME NEW l \in Locks, Expire(l) PROVE LeaseInv'
    <2>1. /\ election' = election /\ stage' = stage /\ Active' = Active
          /\ lease' = [lease EXCEPT ![l] = {}]
          /\ \A p \in lease[l] : stage[p] # "active"
      BY <1>3 DEF Expire, Active
    <2>2. election => \A p \in Active : LeaderElectionID(p) # l
      BY <2>1 DEF LeaseInv, ActiveHolds, Active
    <2> QED
      BY <2>1, <2>2 DEF LeaseInv, LeaseType, ActiveHolds, LeaderElectionID, Locks
  <1>4. CASE UNCHANGED vars
    BY <1>4 DEF vars, LeaseInv, LeaseType, ActiveHolds, Active, LeaderElectionID
  <1> QED  BY <1>1, <1>2, <1>3, <1>4 DEF Next

(***************************************************************************)
(* Leader election, whatever crashes, restarts or is upgraded: at most one *)
(* process runs the controller.                                            *)
(***************************************************************************)
THEOREM SingleLeader == Spec => []AtMostOneActive
  <1>1. Init => LeaseInv
    BY ProcessAssumption DEF Init, LeaseInv, LeaseType, ActiveHolds, Active
  <1>2. LeaseInv => AtMostOneActive
    <2> SUFFICES ASSUME LeaseInv, election, NEW p \in Active, NEW q \in Active
                 PROVE  p = q
      BY DEF AtMostOneActive
    <2>1. lease[LeaderElectionID(p)] = {p} /\ lease[LeaderElectionID(q)] = {q}
      BY DEF LeaseInv, ActiveHolds
    <2> QED  BY <2>1 DEF LeaderElectionID
  <1> QED  BY <1>1, <1>2, LeaseStep, PTL DEF Spec
=============================================================================
