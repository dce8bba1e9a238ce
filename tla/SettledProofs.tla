---------------------------- MODULE SettledProofs ----------------------------
(***************************************************************************)
(* Theorems about what the stored status says, when one operator is        *)
(* running (as leader election, or one replica, sees to), for every value  *)
(* of the other constants: a status that tells of a whole pass at the      *)
(* present generation can be relied on for the owner references of         *)
(* everything the spec uses, and Ready is of the generation                *)
(* observedGeneration names.  With two operators neither holds: the pass   *)
(* of the one may write, or report, what it read before the other's.       *)
(***************************************************************************)
EXTENDS RestingProofs

\* At most one operator process.
OneOperator == \A p, q \in Operators : p = q

\* Reference u is what a pass over instance i leaves on o.  On a generated
\* secret only the current UID counts (isControlledBy).
RightRef(i, o, u) ==
  IF o \in Secrets
  THEN (u = i.uid) <=> (StatefulOwner(i) = i.uid)
  ELSE u = OwnerFor(i, o)

\* What a pass for this spec deals with.
UsedBy(spec) ==
  Secrets \cup Claims \cup AppliedFor(spec)
    \cup (IF IsExternal(spec) THEN {} ELSE {"db"})

\* A copy of the present instance at its present generation.
Fresh(c) == inst.uid # 0 /\ c.uid = inst.uid /\ c.gen = inst.gen

-----------------------------------------------------------------------------
(***************************************************************************)
(* The invariant.                                                          *)
(***************************************************************************)

\* UIDs are never reused, so a new instance's is on nothing yet.
KnownUids ==
  /\ inst.uid <= uids /\ src <= uids
  /\ \A p \in Operators : cache[p].uid <= uids /\ work[p].uid <= uids

\* A copy of the present instance is of a generation it has had, and one of its
\* present generation has its present spec.
Older(c) ==
  inst.uid # 0 /\ c.uid = inst.uid =>
    c.gen <= inst.gen /\ (c.gen = inst.gen => c.spec = inst.spec)

Copies == \A p \in Operators : Older(cache[p]) /\ Older(work[p])

\* So is the status, when it was computed for this instance.
StatusOlder ==
  inst.uid # 0 /\ src = inst.uid => inst.conds.Ready.gen <= inst.gen

\* A pass is never ahead of the cache; and once the instance is settled, the
\* cache and every pass are at its present generation.
NoneBehind(p) ==
  /\ pc[p] # "idle" /\ Fresh(work[p]) => Fresh(cache[p])
  /\ Settled => Fresh(cache[p]) /\ (pc[p] # "idle" => Fresh(work[p]))

\* What a pass has dealt with has the reference it gives.
OwnedSoFar(p) ==
  pc[p] # "idle" =>
    \A o \in exists : Behind(p, o) => RightRef(work[p], o, owner[o])

\* Everything the spec of a settled instance uses has the right reference.
AllRight ==
  Settled => \A o \in exists \cap UsedBy(inst.spec) : RightRef(inst, o, owner[o])

SettledInv ==
  /\ KnownUids /\ Copies /\ StatusOlder
  /\ \A p \in Operators : NoneBehind(p) /\ OwnedSoFar(p)
  /\ AllRight

\* AllRight is SettledOwnership, object by object.
LEMMA AllRightMeans == AllRight <=> SettledOwnership
<1>1. \A o \in Secrets :
        RightRef(inst, o, owner[o]) <=> ((owner[o] = inst.uid) <=> (StatefulOwner(inst) = inst.uid))
  BY DEF RightRef
<1>2. \A o \in Claims \cup {"db"} :
        RightRef(inst, o, owner[o]) <=> (owner[o] = StatefulOwner(inst))
  BY KindFacts DEF RightRef, OwnerFor
<1>3. \A o \in CacheParts \cup {"service", "deployment"} :
        RightRef(inst, o, owner[o]) <=> (owner[o] = inst.uid)
  BY KindFacts DEF RightRef, OwnerFor, AlwaysOwner
<1> QED
  BY <1>1, <1>2, <1>3 DEF AllRight, SettledOwnership, UsedBy, AppliedFor

\* A reference is right or wrong by the UID and the spec.
LEMMA RightRefSame ==
  ASSUME NEW i, NEW j, i.uid = j.uid, i.spec = j.spec, NEW o, NEW u
  PROVE  /\ RightRef(i, o, u) <=> RightRef(j, o, u)
         /\ OwnerFor(i, o) = OwnerFor(j, o)
BY DEF RightRef, OwnerFor, StatefulOwner, AlwaysOwner

\* What a pass writes is right.
LEMMA OwnerForIsRight ==
  ASSUME NEW i, NEW o
  PROVE  RightRef(i, o, OwnerFor(i, o))
BY KindFacts DEF RightRef, OwnerFor

\* And so is a generated secret that it leaves alone.
LEMMA MatchIsRight ==
  ASSUME NEW p \in Operators, NEW o \in Secrets, OwnershipMatches(p, o), work[p].uid # 0
  PROVE  RightRef(work[p], o, owner[o])
BY DEF RightRef, OwnershipMatches, StatefulOwner

\* A pass that has got through has dealt with all its spec uses.
LEMMA ThroughAll ==
  ASSUME NEW p \in Operators, Through(p)
  PROVE  \A o \in UsedBy(work[p].spec) : Behind(p, o)
BY DEF UsedBy, AppliedFor, Behind

-----------------------------------------------------------------------------
(***************************************************************************)
(* The steps of the one operator.                                          *)
(***************************************************************************)

\* After a step of a pass every object that exists is as it was, or has been
\* given the reference that is right for the pass's copy.
LEMMA PassOwnerStep ==
  ASSUME TypeOK, NEW p \in Operators, OperatorStep(p), NEW x \in exists'
  PROVE  \/ x \in exists /\ owner'[x] = owner[x]
         \/ pc[p] # "idle" /\ RightRef(work[p], x, owner'[x])
<1>a. owner \in [Objects -> Nat] /\ exists \subseteq Objects
  BY DEF TypeOK, ObjectType
<1>1. CASE UNCHANGED <<exists, owner>>
  BY <1>1
<1>2. ASSUME NEW o \in Objects, NEW changed \in BOOLEAN, pc[p] # "idle",
             Write(o, OwnerFor(work[p], o), changed)
      PROVE  \/ x \in exists /\ owner'[x] = owner[x]
             \/ pc[p] # "idle" /\ RightRef(work[p], x, owner'[x])
  BY <1>2, <1>a, OwnerForIsRight DEF Write
<1> QED
  BY <1>1, <1>2, PassWrites

\* A step within a pass reads the cache or keeps its copy.
LEMMA PassCopyStep ==
  ASSUME TypeOK, NEW p \in Operators, OperatorStep(p), pc'[p] # "idle"
  PROVE  /\ inst' = inst /\ src' = src /\ uids' = uids /\ cache' = cache
         /\ \/ /\ pc[p] = "idle"
               /\ work'[p].uid = cache[p].uid /\ work'[p].gen = cache[p].gen
               /\ work'[p].spec = cache[p].spec
            \/ /\ pc[p] # "idle"
               /\ work'[p].uid = work[p].uid /\ work'[p].gen = work[p].gen
               /\ work'[p].spec = work[p].spec
<1>a. /\ pc \in [Operators -> Steps] /\ work \in [Operators -> Instance]
      /\ cache[p] \in Instance
  BY DEF TypeOK, StepType, WorkType, InformerType
<1>1. CASE pc[p] = "idle"
  <2>1. /\ BeginPass(p) /\ work'[p] = SetReady(cache[p], "Reconciling")
        /\ inst' = inst /\ src' = src
    BY <1>1, <1>a
    DEF OperatorStep, BeginPass, GetSecret, CreateSecret, PatchSecret, ReconcileStorage,
        ReconcileExternalDatabase, CnpgInstalled, ApplyCluster, ReconcileCache, ApplyService,
        ApplyDeployment, PatchStatus, PatchStatusNotFound, Goto, apiVars, passVars, histVars
  <2>2. "Reconciling" \in ReadyReasons
    BY DEF ReadyReasons
  <2> QED
    BY <1>1, <2>1, <2>2, <1>a, SetterFacts, PassFrame
<1>2. CASE pc[p] # "idle"
  BY <1>2, PassKeepsCopy, PassFrame
<1> QED
  BY <1>1, <1>2

\* A step within a pass.
LEMMA MidPassSettled ==
  ASSUME TypeOK, SettledInv, NEW p \in Operators, \A q \in Operators : q = p,
         PassHolds(p), OperatorStep(p), pc'[p] # "idle"
  PROVE  SettledInv'
<1>a. /\ inst' = inst /\ src' = src /\ uids' = uids /\ cache' = cache
      /\ KnownUids /\ Copies /\ StatusOlder /\ NoneBehind(p) /\ OwnedSoFar(p)
      /\ exists \subseteq Objects
  BY PassCopyStep DEF SettledInv, TypeOK, ObjectType
<1>b. (Settled' <=> Settled) /\ \A c : Fresh(c)' <=> Fresh(c')
  BY <1>a DEF Settled, Fresh
<1>1. KnownUids' /\ Copies' /\ StatusOlder'
  <2>1. Older(work'[p])
    BY <1>a, PassCopyStep DEF Copies, Older
  <2> QED
    BY <1>a, <2>1, PassCopyStep DEF KnownUids, Copies, Older, StatusOlder
<1>2. NoneBehind(p)'
  BY <1>a, <1>b, PassCopyStep DEF NoneBehind, Fresh
<1>3. OwnedSoFar(p)'
  <2> SUFFICES ASSUME NEW o \in exists', Behind(p, o)'
               PROVE  RightRef(work'[p], o, owner'[o])
    BY DEF OwnedSoFar
  <2>1. pc[p] # "idle" /\ work[p].uid # 0
    BY PassBehind DEF PassHolds
  <2>2. RightRef(work'[p], o, owner'[o]) <=> RightRef(work[p], o, owner'[o])
    BY <2>1, PassCopyStep, RightRefSame
  <2>3. ASSUME NEW changed \in BOOLEAN, Write(o, OwnerFor(work[p], o), changed)
        PROVE  RightRef(work[p], o, owner'[o])
    <3>1. o \in Objects /\ owner \in [Objects -> Nat] /\ exists' \subseteq Objects
      BY PassType DEF TypeOK, ObjectType
    <3> QED
      BY <2>3, <3>1, OwnerForIsRight DEF Write
  <2>4. ASSUME o \in Secrets, UNCHANGED <<exists, owner>>,
               o \in exists => OwnershipMatches(p, o)
        PROVE  RightRef(work[p], o, owner'[o])
    BY <2>1, <2>4, MatchIsRight
  <2>5. CASE Behind(p, o)
    <3>1. CASE o \in exists /\ owner'[o] = owner[o]
      BY <1>a, <2>1, <2>2, <2>5, <3>1 DEF OwnedSoFar
    <3>2. CASE RightRef(work[p], o, owner'[o])
      BY <2>2, <3>2
    <3> QED
      BY <3>1, <3>2, PassOwnerStep
  <2> QED
    BY <2>2, <2>3, <2>4, <2>5, PassBehind
<1>4. AllRight'
  <2> SUFFICES ASSUME Settled, NEW o \in exists' \cap UsedBy(inst.spec)
               PROVE  RightRef(inst, o, owner'[o])
    BY <1>a, <1>b DEF AllRight
  <2>1. CASE o \in exists /\ owner'[o] = owner[o]
    BY <2>1 DEF SettledInv, AllRight
  <2>2. CASE pc[p] # "idle" /\ RightRef(work[p], o, owner'[o])
    <3>1. work[p].uid = inst.uid /\ work[p].spec = inst.spec
      BY <1>a, <2>2 DEF NoneBehind, Copies, Older, Fresh
    <3> QED
      BY <2>2, <3>1, RightRefSame
  <2> QED
    BY <2>1, <2>2, PassOwnerStep
<1> QED
  BY <1>1, <1>2, <1>3, <1>4 DEF SettledInv

\* The status patch: the conditions are those the instance had, for whomever
\* they were computed, or those the pass computed.
LEMMA PatchFacts ==
  ASSUME TypeOK, NEW p \in Operators, PatchStatus(p)
  PROVE  /\ inst'.uid = inst.uid /\ inst'.gen = inst.gen /\ inst'.spec = inst.spec
         /\ pc[p] = "status" /\ pc'[p] = "idle" /\ work'[p] = NoInstance
         /\ cache' = cache /\ uids' = uids /\ exists' = exists /\ owner' = owner
         /\ \/ inst'.conds = inst.conds /\ src' = src
            \/ inst'.conds = work[p].conds /\ src' = work[p].uid
<1>a. /\ inst \in Instance /\ pc \in [Operators -> Steps]
      /\ work \in [Operators -> Instance]
  BY DEF TypeOK, ApiType, StepType, WorkType
<1>1. PICK moved \in BOOLEAN :
        LET sendConds == work[p].conds # base[p].conds \/ moved
            sendGen   == work[p].gen # base[p].observedGeneration
            patched   == [inst EXCEPT
              !.conds = IF sendConds THEN work[p].conds ELSE @,
              !.observedGeneration = IF sendGen THEN work[p].gen ELSE @]
        IN  /\ inst' = patched
            /\ src' = IF \/ sendConds
                         \/ patched.conds = work[p].conds /\ work[p].uid = inst.uid
                      THEN work[p].uid ELSE src
  BY DEF PatchStatus
<1>2. /\ inst'.uid = inst.uid /\ inst'.gen = inst.gen /\ inst'.spec = inst.spec
      /\ inst'.conds = IF work[p].conds # base[p].conds \/ moved
                       THEN work[p].conds ELSE inst.conds
      /\ src' = IF \/ work[p].conds # base[p].conds \/ moved
                   \/ inst'.conds = work[p].conds /\ work[p].uid = inst.uid
                THEN work[p].uid ELSE src
  BY <1>1, <1>a DEF Instance
<1>3. \/ inst'.conds = inst.conds /\ src' = src
      \/ inst'.conds = work[p].conds /\ src' = work[p].uid
  BY <1>2
<1>4. /\ pc[p] = "status" /\ pc'[p] = "idle" /\ work'[p] = NoInstance
      /\ cache' = cache /\ uids' = uids /\ exists' = exists /\ owner' = owner
  BY <1>a DEF PatchStatus, EndPass, Goto, objVars
<1> QED
  BY <1>2, <1>3, <1>4

\* The patch settles the instance only with what a pass for its present
\* generation found, and that pass has dealt with everything.
LEMMA PatchSettled ==
  ASSUME TypeOK, SettledInv, NEW p \in Operators, \A q \in Operators : q = p,
         PassHolds(p), PatchStatus(p)
  PROVE  SettledInv'
<1>a. /\ KnownUids /\ Copies /\ StatusOlder /\ NoneBehind(p) /\ OwnedSoFar(p) /\ AllRight
      /\ NoInstance.uid = 0 /\ uids \in Nat
  BY NoInstanceFacts DEF SettledInv, TypeOK, ApiType
<1>b. \A c : Fresh(c)' <=> Fresh(c')
  BY PatchFacts DEF Fresh
<1>1. KnownUids'
  BY <1>a, PatchFacts DEF KnownUids
<1>2. Copies'
  BY <1>a, PatchFacts DEF Copies, Older
<1>3. StatusOlder'
  BY <1>a, PatchFacts DEF StatusOlder, Copies, Older, PassHolds
<1>4. ASSUME Settled' PROVE Settled \/ (Through(p) /\ Fresh(work[p]))
  BY <1>4, <1>a, PatchFacts DEF Settled, PassHolds, Through, Fresh
<1>5. NoneBehind(p)'
  BY <1>4, <1>a, PatchFacts DEF NoneBehind, Fresh
<1>6. OwnedSoFar(p)'
  BY PatchFacts DEF OwnedSoFar
<1>7. AllRight'
  <2> SUFFICES ASSUME Settled', NEW o \in exists \cap UsedBy(inst.spec)
               PROVE  RightRef(inst', o, owner[o])
    BY PatchFacts DEF AllRight
  <2>1. RightRef(inst', o, owner[o]) <=> RightRef(inst, o, owner[o])
    BY PatchFacts, RightRefSame
  <2>2. CASE Settled
    BY <1>a, <2>1, <2>2 DEF AllRight
  <2>3. CASE Through(p) /\ Fresh(work[p])
    <3>1. work[p].uid = inst.uid /\ work[p].spec = inst.spec
      BY <2>3, <1>a DEF Copies, Older, Fresh
    <3>2. pc[p] # "idle" /\ Behind(p, o)
      BY <2>3, <3>1, ThroughAll DEF Through
    <3>3. RightRef(work[p], o, owner[o])
      BY <3>2, <1>a DEF OwnedSoFar
    <3> QED
      BY <2>1, <3>1, <3>3, RightRefSame
  <2> QED
    BY <1>4, <2>2, <2>3
<1> QED
  BY <1>1, <1>2, <1>3, <1>5, <1>6, <1>7 DEF SettledInv

\* A step that leaves the instance, its copies and the passes alone, and may
\* only remove objects.
LEMMA AsideSettled ==
  ASSUME SettledInv, UNCHANGED <<inst, uids, src, cache, passVars>>,
         \A o \in exists' : o \in exists /\ owner'[o] = owner[o]
  PROVE  SettledInv'
<1> USE DEF passVars
<1>a. /\ KnownUids /\ Copies /\ StatusOlder /\ AllRight
      /\ \A p \in Operators : NoneBehind(p) /\ OwnedSoFar(p)
  BY DEF SettledInv
<1>b. (Settled' <=> Settled) /\ \A p, o : Behind(p, o)' <=> Behind(p, o)
  BY DEF Settled, Behind, PassedInList, Through
<1>1. KnownUids' /\ Copies' /\ StatusOlder'
  BY <1>a DEF KnownUids, Copies, Older, StatusOlder
<1>2. ASSUME NEW p \in Operators PROVE NoneBehind(p)'
  BY <1>a, <1>b DEF NoneBehind, Fresh
<1>3. ASSUME NEW p \in Operators PROVE OwnedSoFar(p)'
  BY <1>a, <1>b DEF OwnedSoFar
<1>4. AllRight'
  BY <1>a, <1>b DEF AllRight
<1> QED
  BY <1>1, <1>2, <1>3, <1>4 DEF SettledInv

\* A read or a status patch that finds no instance.
LEMMA EmptyPassSettled ==
  ASSUME TypeOK, SettledInv, NEW p \in Operators, \A q \in Operators : q = p,
         OperatorStep(p), pc'[p] = "idle", ~PatchStatus(p)
  PROVE  SettledInv'
<1> USE DEF apiVars, objVars, passVars, histVars
<1>1. CASE BeginPass(p) /\ UNCHANGED passVars
  BY <1>1, AsideSettled DEF BeginPass
<1>2. CASE PatchStatusNotFound(p)
  <2>1. /\ inst.uid = 0 /\ inst' = inst /\ uids' = uids /\ src' = src /\ cache' = cache
        /\ exists' = exists /\ owner' = owner
        /\ pc'[p] = "idle" /\ work'[p] = NoInstance
    BY <1>2 DEF PatchStatusNotFound, EndPass, TypeOK, WorkType
  <2> QED
    BY <2>1, NoInstanceFacts
    DEF SettledInv, KnownUids, Copies, Older, StatusOlder, NoneBehind, Fresh, OwnedSoFar,
        AllRight, Settled, TypeOK, ApiType
<1> QED
  BY <1>1, <1>2, PassEnds

\* A failing call or a restart ends what a pass had dealt with; an event and a
\* restart bring the cache up to date.
LEMMA OutsideSettled ==
  ASSUME TypeOK, SettledInv, NEW p \in Operators, \A q \in Operators : q = p,
         ApiError(p) \/ Restart(p) \/ Observe(p) \/ Resync(p)
  PROVE  SettledInv'
<1> USE DEF apiVars, objVars, passVars, histVars
<1>a. /\ KnownUids /\ Copies /\ StatusOlder /\ AllRight /\ NoneBehind(p) /\ OwnedSoFar(p)
      /\ pc \in [Operators -> Steps] /\ work \in [Operators -> Instance]
      /\ work[p] \in Instance /\ cache \in [Operators -> Instance]
      /\ inst \in Instance /\ uids \in Nat /\ NoInstance.uid = 0
  BY NoInstanceFacts DEF SettledInv, TypeOK, ApiType, StepType, WorkType, InformerType
<1>b. /\ inst' = inst /\ uids' = uids /\ src' = src /\ exists' = exists /\ owner' = owner
      /\ cache'[p] = cache[p] \/ cache'[p] = inst
  BY <1>a DEF ApiError, Restart, Observe, Resync
<1>c. (Settled' <=> Settled) /\ \A c : (Fresh(c)' <=> Fresh(c')) /\ (Older(c)' <=> Older(c'))
  BY <1>b DEF Settled, Fresh, Older
<1>1. CASE Resync(p)
  BY <1>1, AsideSettled DEF Resync
<1>2. CASE ~Resync(p)
  <2>1. \/ pc'[p] = "idle" /\ work'[p] = NoInstance
        \/ /\ pc'[p] = "status" /\ pc[p] # "idle"
           /\ work'[p].uid = work[p].uid /\ work'[p].gen = work[p].gen
           /\ work'[p].spec = work[p].spec
           /\ ~Through(p)'
        \/ pc' = pc /\ work' = work /\ idx' = idx
    <3>1. CASE ApiError(p) /\ pc[p] \notin {"idle", "status"}
      <4>1. StepReason(pc[p]) \in ReadyReasons
        BY <3>1, <1>a DEF StepReason, ReadyReasons, Steps
      <4>2. StepReason(pc[p]) \notin {"WorkloadReady", "WorkloadNotReady"}
        BY <3>1, <1>a DEF StepReason, Steps
      <4>3. work'[p] = SetReady(work[p], StepReason(pc[p])) /\ pc'[p] = "status"
        BY <3>1, <1>a DEF ApiError, Stop, Goto
      <4> QED
        BY <3>1, <4>1, <4>2, <4>3, <1>a, SetterFacts DEF Through
    <3>2. CASE (ApiError(p) /\ pc[p] = "status") \/ Restart(p)
      BY <3>2, <1>a DEF ApiError, Restart, EndPass, Goto
    <3>3. CASE Observe(p)
      BY <3>3 DEF Observe
    <3> QED
      BY <1>2, <3>1, <3>2, <3>3 DEF ApiError
  <2>2. KnownUids' /\ Copies' /\ StatusOlder'
    <3>1. cache'[p].uid <= uids /\ Older(cache'[p])
      BY <1>a, <1>b DEF KnownUids, Copies, Older, Instance
    <3>2. work'[p].uid <= uids /\ Older(work'[p])
      BY <1>a, <2>1 DEF KnownUids, Copies, Older
    <3>3. KnownUids' /\ StatusOlder'
      BY <1>a, <1>b, <3>1, <3>2 DEF KnownUids, StatusOlder
    <3> QED
      BY <1>c, <3>1, <3>2, <3>3 DEF Copies
  <2>3. NoneBehind(p)'
    BY <1>a, <1>b, <1>c, <2>1 DEF NoneBehind, Fresh, Settled
  <2>4. OwnedSoFar(p)'
    BY <1>a, <1>b, <2>1
    DEF OwnedSoFar, Behind, PassedInList, Through, SecretSteps
  <2>5. AllRight'
    BY <1>a, <1>b, <1>c DEF AllRight
  <2> QED
    BY <2>2, <2>3, <2>4, <2>5 DEF SettledInv
<1> QED
  BY <1>1, <1>2

\* A new instance or a new generation: nothing is fresh, and nothing settled.
LEMMA ChangeSettled ==
  ASSUME TypeOK, SettledInv, UNCHANGED <<cache, passVars, exists, owner>>,
         \/ inst'.uid = 0 /\ src' = 0 /\ uids' = uids
         \/ inst'.uid = uids + 1 /\ uids' = uids + 1 /\ src' = src
         \/ /\ inst'.uid = inst.uid /\ inst'.gen = inst.gen + 1 /\ inst'.conds = inst.conds
            /\ uids' = uids /\ src' = src
  PROVE  SettledInv'
<1> USE DEF passVars
<1>a. /\ KnownUids /\ Copies /\ StatusOlder
      /\ \A p \in Operators : OwnedSoFar(p)
      /\ inst \in Instance /\ uids \in Nat /\ inst.gen \in Nat /\ src \in Nat
      /\ inst.conds.Ready.gen \in Nat /\ inst.uid \in Nat
      /\ \A p \in Operators : /\ cache[p].gen \in Nat /\ work[p].gen \in Nat
                              /\ cache[p].uid \in Nat /\ work[p].uid \in Nat
  BY DEF SettledInv, TypeOK, ApiType, InformerType, WorkType, HistoryType, Instance, Conditions
<1>1. ~Settled'
  BY <1>a DEF Settled, KnownUids, StatusOlder
<1>2. \A p \in Operators : ~Fresh(work[p])'
  BY <1>a DEF Fresh, KnownUids, Copies, Older
<1>3. KnownUids' /\ StatusOlder'
  BY <1>a DEF KnownUids, StatusOlder
<1>4. Copies'
  BY <1>a DEF KnownUids, Copies, Older
<1>5. ASSUME NEW p \in Operators PROVE NoneBehind(p)' /\ OwnedSoFar(p)'
  <2>1. \A o : Behind(p, o)' <=> Behind(p, o)
    BY DEF Behind, PassedInList, Through
  <2> QED
    BY <1>1, <1>2, <1>a, <2>1 DEF NoneBehind, OwnedSoFar
<1> QED
  BY <1>1, <1>3, <1>4, <1>5 DEF SettledInv, AllRight

\* The user and the cluster.
LEMMA UserSettled ==
  ASSUME TypeOK, SettledInv, User \/ Cluster
  PROVE  SettledInv'
<1> USE DEF apiVars, objVars, envVars, histVars
<1>a. inst \in Instance /\ owner \in [Objects -> Nat] /\ exists \subseteq Objects
  BY DEF TypeOK, ApiType, ObjectType
<1>1. ASSUME NEW spec \in Specs, CreateInstance(spec) PROVE SettledInv'
  BY <1>1, ChangeSettled DEF CreateInstance
<1>2. ASSUME NEW spec \in Specs, EditSpec(spec) PROVE SettledInv'
  <2>1. inst'.uid = inst.uid /\ inst'.gen = inst.gen + 1 /\ inst'.conds = inst.conds
    BY <1>2, <1>a DEF EditSpec, Instance
  <2> QED
    BY <1>2, <2>1, ChangeSettled DEF EditSpec
<1>3. CASE DeleteInstance \/ FinishDeletion
  BY <1>3, ChangeSettled, NoInstanceFacts DEF DeleteInstance, FinishDeletion, DropInstance
<1>4. CASE DeleteInForeground
  <2>1. inst'.uid = inst.uid /\ inst'.gen = inst.gen + 1 /\ inst'.conds = inst.conds
    BY <1>4, <1>a DEF DeleteInForeground, Instance
  <2> QED
    BY <1>4, <2>1, ChangeSettled DEF DeleteInForeground
<1>5. ASSUME NEW o \in Objects, Remove(o) PROVE \A x \in exists' : x \in exists /\ owner'[x] = owner[x]
  BY <1>5, <1>a DEF Remove
<1>6. ASSUME NEW o \in Droppable, DropChild(o) PROVE SettledInv'
  BY <1>5, <1>6, AsideSettled, DroppableAssumption DEF DropChild
<1>7. ASSUME NEW o \in Objects, GarbageCollect(o) PROVE SettledInv'
  BY <1>5, <1>7, AsideSettled DEF GarbageCollect
<1>8. CASE InstallCNPG \/ ChangeExternalSecret \/ RollOut \/ PodReady \/ PodFail
  BY <1>8, AsideSettled
  DEF InstallCNPG, ChangeExternalSecret, RollOut, PodReady, PodFail, SetPod
<1> QED
  BY <1>1, <1>2, <1>3, <1>4, <1>6, <1>7, <1>8 DEF User, Cluster

\* The invariant holds at first, and every step of the only operator, of the user
\* and of the cluster keeps it.
LEMMA SettledInductive ==
  /\ Init => SettledInv
  /\ OneOperator /\ RestInv /\ SettledInv /\ [Next]_vars => SettledInv'
<1>1. ASSUME Init PROVE SettledInv
  <2>1. /\ inst.uid = 0 /\ uids = 0 /\ src = 0 /\ exists = {}
        /\ \A p \in Operators : cache[p].uid = 0 /\ work[p].uid = 0 /\ pc[p] = "idle"
    BY <1>1, NoInstanceFacts DEF Init
  <2>2. KnownUids /\ Copies /\ StatusOlder /\ AllRight
    BY <2>1 DEF KnownUids, Copies, Older, StatusOlder, AllRight, Settled
  <2>3. \A p \in Operators : NoneBehind(p) /\ OwnedSoFar(p)
    BY <2>1 DEF NoneBehind, OwnedSoFar, Settled
  <2> QED
    BY <2>2, <2>3 DEF SettledInv
<1>2. ASSUME OneOperator, RestInv, SettledInv, Next PROVE SettledInv'
  <2>a. TypeOK /\ Passes
    BY <1>2 DEF RestInv
  <2>1. ASSUME NEW p \in Operators, OperatorStep(p) PROVE SettledInv'
    <3>a. PassHolds(p) /\ \A q \in Operators : q = p
      BY <1>2, <2>a DEF Passes, OneOperator
    <3>1. CASE pc'[p] # "idle"
      BY <1>2, <2>a, <2>1, <3>a, <3>1, MidPassSettled
    <3>2. CASE pc'[p] = "idle"
      <4>1. CASE PatchStatus(p)
        BY <1>2, <2>a, <3>a, <4>1, PatchSettled
      <4>2. CASE ~PatchStatus(p)
        BY <1>2, <2>a, <2>1, <3>a, <3>2, <4>2, EmptyPassSettled
      <4> QED
        BY <4>1, <4>2
    <3> QED
      BY <3>1, <3>2
  <2>2. ASSUME NEW p \in Operators, ApiError(p) \/ Restart(p) \/ Observe(p) \/ Resync(p)
        PROVE  SettledInv'
    BY <1>2, <2>a, <2>2, OutsideSettled DEF OneOperator
  <2>3. CASE User \/ Cluster
    BY <1>2, <2>a, <2>3, UserSettled
  <2> QED
    BY <1>2, <2>1, <2>2, <2>3 DEF Next
<1>3. ASSUME SettledInv, UNCHANGED vars PROVE SettledInv'
  BY <1>3, AsideSettled DEF vars, apiVars, objVars, histVars
<1> QED
  BY <1>1, <1>2, <1>3

(***************************************************************************)
(* With one operator: once the status tells of a whole pass at the present *)
(* generation, applyOwned, applyStateful and reconcileSecretOwnership have *)
(* left everything the spec uses with the owner reference that generation's*)
(* deletionPolicy asks for, and no later step changes one: a pass then in  *)
(* flight is for that generation too.                                      *)
(***************************************************************************)
THEOREM SettledIsOwned ==
  ASSUME OneOperator
  PROVE  Spec => []SettledOwnership
<1>1. SettledInv => SettledOwnership
  BY AllRightMeans DEF SettledInv
<1> QED
  BY <1>1, RestInductive, SettledInductive, PTL DEF Spec

-----------------------------------------------------------------------------
(***************************************************************************)
(* Ready and observedGeneration.                                           *)
(***************************************************************************)

\* Ready is of the generation observedGeneration names.
Consistent(status) ==
  status.conds.Ready.reason # "" => status.conds.Ready.gen = status.observedGeneration

\* The first instance of a name is never taken for another.
FirstKnown ==
  /\ inst.uid <= uids
  /\ uids = 0 =>
       /\ inst = NoInstance
       /\ \A p \in Operators : cache[p] = NoInstance /\ pc[p] = "idle"

\* observedGeneration lies between what the cache holds of it and the generation
\* the cache holds,
CachedBetween(p) ==
  /\ Consistent(cache[p])
  /\ cache[p].observedGeneration <= inst.observedGeneration
  /\ inst.observedGeneration <= cache[p].gen
  /\ cache[p].gen <= inst.gen

\* and between what a pass has read of it and the generation of the pass.
ReadBetween(p) ==
  pc[p] # "idle" =>
    /\ Consistent(base[p])
    /\ base[p].observedGeneration <= inst.observedGeneration
    /\ inst.observedGeneration <= work[p].gen
    /\ work[p].gen <= cache[p].gen

ObservedInv ==
  /\ FirstKnown
  /\ inst.uid = 1 => Consistent(inst) /\ \A p \in Operators : CachedBetween(p) /\ ReadBetween(p)

\* The types the comparisons need.
LEMMA GenerationTypes ==
  ASSUME TypeOK
  PROVE  /\ inst.uid \in Nat /\ uids \in Nat
         /\ inst.gen \in Nat /\ inst.observedGeneration \in Nat
         /\ \A p \in Operators :
              /\ cache[p].gen \in Nat /\ cache[p].observedGeneration \in Nat
              /\ work[p].gen \in Nat /\ base[p].observedGeneration \in Nat
BY DEF TypeOK, ApiType, InformerType, WorkType, Instance

\* A step within a pass: the pass knows what the cache held when it began.
LEMMA MidPassObserved ==
  ASSUME TypeOK, ObservedInv, NEW p \in Operators, \A q \in Operators : q = p,
         OperatorStep(p), pc'[p] # "idle"
  PROVE  ObservedInv'
<1>a. inst' = inst /\ uids' = uids /\ cache' = cache
  BY PassCopyStep
<1>b. base \in [Operators -> [conds : Conditions, observedGeneration : Nat]]
  BY DEF TypeOK, WorkType
<1>1. \/ /\ pc[p] = "idle" /\ cache[p].uid # 0
         /\ work'[p].gen = cache[p].gen
         /\ base'[p].conds = cache[p].conds
         /\ base'[p].observedGeneration = cache[p].observedGeneration
      \/ pc[p] # "idle" /\ work'[p].gen = work[p].gen /\ base'[p] = base[p]
  <2>1. CASE pc[p] = "idle"
    <3>1. /\ BeginPass(p) /\ cache[p].uid # 0
          /\ base'[p] = [conds |-> cache[p].conds,
                         observedGeneration |-> cache[p].observedGeneration]
      BY <1>b, <2>1
      DEF OperatorStep, BeginPass, GetSecret, CreateSecret, PatchSecret, ReconcileStorage,
          ReconcileExternalDatabase, CnpgInstalled, ApplyCluster, ReconcileCache,
          ApplyService, ApplyDeployment, PatchStatus, PatchStatusNotFound, passVars
    <3> QED
      BY <2>1, <3>1, PassCopyStep
  <2>2. CASE pc[p] # "idle"
    BY <2>2, PassKeepsCopy
  <2> QED
    BY <2>1, <2>2
<1>2. FirstKnown'
  BY <1>a, <1>1, NoInstanceFacts DEF ObservedInv, FirstKnown
<1>3. ASSUME inst.uid = 1 PROVE Consistent(inst) /\ CachedBetween(p)' /\ ReadBetween(p)'
  <2>1. CachedBetween(p) /\ ReadBetween(p) /\ Consistent(inst)
    BY <1>3 DEF ObservedInv
  <2>2. CachedBetween(p)'
    BY <1>a, <2>1 DEF CachedBetween
  <2>3. CASE pc[p] = "idle"
    <3>1. cache[p].gen <= cache[p].gen
      BY GenerationTypes
    <3>2. ReadBetween(p)'
      BY <1>a, <1>1, <2>1, <2>3, <3>1 DEF CachedBetween, ReadBetween, Consistent
    <3> QED
      BY <2>1, <2>2, <3>2
  <2>4. CASE pc[p] # "idle"
    <3>1. ReadBetween(p)'
      BY <1>a, <1>1, <2>1, <2>4 DEF ReadBetween
    <3> QED
      BY <2>1, <2>2, <3>1
  <2> QED
    BY <2>3, <2>4
<1> QED
  BY <1>a, <1>2, <1>3 DEF ObservedInv

\* The status patch stores the generation of the pass: it sends it, or its base
\* had it, and then nothing newer is stored.
LEMMA PatchObserved ==
  ASSUME TypeOK, ObservedInv, NEW p \in Operators, \A q \in Operators : q = p,
         PassHolds(p), PatchStatus(p)
  PROVE  ObservedInv'
<1>1. PICK moved \in BOOLEAN :
        inst' = [inst EXCEPT
          !.conds = IF work[p].conds # base[p].conds \/ moved THEN work[p].conds ELSE @,
          !.observedGeneration =
            IF work[p].gen # base[p].observedGeneration THEN work[p].gen ELSE @]
  BY DEF PatchStatus
<1>2. /\ inst'.uid = inst.uid /\ inst'.gen = inst.gen
      /\ inst'.conds = IF work[p].conds # base[p].conds \/ moved
                       THEN work[p].conds ELSE inst.conds
      /\ inst'.observedGeneration = IF work[p].gen # base[p].observedGeneration
                                    THEN work[p].gen ELSE inst.observedGeneration
  BY <1>1 DEF TypeOK, ApiType, Instance
<1>3. /\ pc[p] = "status" /\ pc'[p] = "idle" /\ cache' = cache /\ uids' = uids
      /\ inst.uid # 0
  BY PatchFacts DEF PatchStatus
<1>4. FirstKnown'
  BY <1>2, <1>3 DEF ObservedInv, FirstKnown
<1>5. ASSUME inst.uid = 1
      PROVE  Consistent(inst') /\ CachedBetween(p)' /\ ReadBetween(p)'
  <2>a. /\ Consistent(inst) /\ CachedBetween(p) /\ ReadBetween(p)
        /\ work[p].conds.Ready.gen = work[p].gen /\ work[p].conds.Ready.reason # ""
    BY <1>3, <1>5 DEF ObservedInv, PassHolds
  <2>t. /\ inst.gen \in Nat /\ inst.observedGeneration \in Nat
        /\ cache[p].gen \in Nat /\ cache[p].observedGeneration \in Nat
        /\ work[p].gen \in Nat /\ base[p].observedGeneration \in Nat
    BY GenerationTypes
  <2>1. inst'.observedGeneration = work[p].gen
    <3>1. /\ base[p].observedGeneration <= inst.observedGeneration
          /\ inst.observedGeneration <= work[p].gen
      BY <1>3, <2>a DEF ReadBetween
    <3>2. CASE work[p].gen = base[p].observedGeneration
      <4>1. inst'.observedGeneration = inst.observedGeneration
        BY <1>2, <3>2
      <4>2. inst.observedGeneration = work[p].gen
        BY <2>t, <3>1, <3>2
      <4> QED
        BY <4>1, <4>2
    <3>3. CASE work[p].gen # base[p].observedGeneration
      BY <1>2, <3>3
    <3> QED
      BY <3>2, <3>3
  <2>2. Consistent(inst')
    <3>1. CASE inst'.conds = work[p].conds
      BY <2>a, <2>1, <3>1 DEF Consistent
    <3>2. CASE inst'.conds = inst.conds /\ work[p].conds = base[p].conds
      <4>1. work[p].gen = base[p].observedGeneration
        BY <1>3, <2>a, <3>2 DEF ReadBetween, Consistent
      <4> QED
        BY <1>2, <2>a, <3>2, <4>1 DEF Consistent
    <3> QED
      BY <1>2, <3>1, <3>2
  <2>3. CachedBetween(p)' /\ ReadBetween(p)'
    <3>1. /\ cache[p].observedGeneration <= work[p].gen
          /\ work[p].gen <= cache[p].gen
      <4>1. /\ cache[p].observedGeneration <= inst.observedGeneration
            /\ inst.observedGeneration <= work[p].gen
            /\ work[p].gen <= cache[p].gen
        BY <1>3, <2>a DEF CachedBetween, ReadBetween
      <4> QED
        BY <2>t, <4>1
    <3> QED
      BY <1>2, <1>3, <2>a, <2>1, <3>1 DEF CachedBetween, ReadBetween
  <2> QED
    BY <2>2, <2>3
<1> QED
  BY <1>2, <1>4, <1>5 DEF ObservedInv

\* Everything else: a pass ends or fails, the cache is brought up to date, the
\* instance gets a new generation, goes or comes.
LEMMA AsideObserved ==
  ASSUME TypeOK, ObservedInv,
         /\ inst'.gen >= inst.gen /\ inst'.gen \in Nat
         /\ inst'.uid = inst.uid /\ inst'.conds = inst.conds
         /\ inst'.observedGeneration = inst.observedGeneration
         /\ uids' = uids
         /\ uids = 0 => inst' = inst,
         \A p \in Operators :
           /\ cache'[p] = cache[p] \/ (cache'[p] = inst /\ inst' = inst)
           /\ \/ pc'[p] = "idle"
              \/ pc[p] # "idle" /\ work'[p].gen = work[p].gen /\ base'[p] = base[p]
  PROVE  ObservedInv'
<1>1. FirstKnown'
  BY DEF ObservedInv, FirstKnown
<1>2. ASSUME inst.uid = 1, NEW p \in Operators
      PROVE  CachedBetween(p)' /\ ReadBetween(p)'
  <2>t. /\ inst.gen \in Nat /\ inst.observedGeneration \in Nat
        /\ cache[p].gen \in Nat /\ cache[p].observedGeneration \in Nat
        /\ work[p].gen \in Nat /\ base[p].observedGeneration \in Nat
    BY GenerationTypes
  <2>a. Consistent(inst) /\ CachedBetween(p) /\ ReadBetween(p)
    BY <1>2 DEF ObservedInv
  <2>1. CachedBetween(p)' /\ (pc[p] # "idle" => work[p].gen <= cache'[p].gen)
    <3>1. CASE cache'[p] = cache[p]
      <4>1. cache[p].gen <= inst'.gen
        BY <2>a, <2>t DEF CachedBetween
      <4> QED
        BY <2>a, <3>1, <4>1 DEF CachedBetween, ReadBetween
    <3>2. CASE cache'[p] = inst /\ inst' = inst
      <4>1. /\ inst.observedGeneration <= inst.gen
            /\ inst.observedGeneration <= inst.observedGeneration /\ inst.gen <= inst.gen
            /\ pc[p] # "idle" => work[p].gen <= inst.gen
        BY <2>a, <2>t DEF CachedBetween, ReadBetween
      <4> QED
        BY <2>a, <3>2, <4>1 DEF CachedBetween
    <3> QED
      BY <3>1, <3>2
  <2>2. ReadBetween(p)'
    BY <2>a, <2>1 DEF ReadBetween
  <2> QED
    BY <2>1, <2>2
<1>3. inst.uid = 1 => Consistent(inst)'
  BY DEF ObservedInv, Consistent
<1> QED
  BY <1>1, <1>2, <1>3 DEF ObservedInv

\* A new instance has no status; if it is the first, no pass has read anything.
LEMMA CreateObserved ==
  ASSUME TypeOK, ObservedInv, NEW spec, CreateInstance(spec)
  PROVE  ObservedInv'
<1>1. /\ inst'.uid = uids + 1 /\ uids' = uids + 1 /\ uids \in Nat
      /\ inst'.gen = 1 /\ inst'.observedGeneration = 0
      /\ inst'.conds.Ready.reason = ""
      /\ cache' = cache /\ pc' = pc
  BY GenerationTypes DEF CreateInstance, NoConditions, passVars
<1>a. uids + 1 <= uids + 1 /\ uids + 1 # 0 /\ (uids + 1 = 1 => uids = 0)
  <2>1. uids \in Nat
    BY <1>1
  <2> QED
    BY <2>1
<1>b. 0 <= 0 /\ 0 <= 1
  OBVIOUS
<1>2. FirstKnown'
  BY <1>1, <1>a DEF FirstKnown
<1>3. ASSUME inst'.uid = 1, NEW p \in Operators PROVE CachedBetween(p)' /\ ReadBetween(p)'
  <2>1. cache[p] = NoInstance /\ pc[p] = "idle"
    BY <1>1, <1>a, <1>3 DEF ObservedInv, FirstKnown
  <2>2. /\ NoInstance.gen = 0 /\ NoInstance.observedGeneration = 0
        /\ NoInstance.conds.Ready.reason = ""
    BY DEF NoInstance, NoConditions
  <2> QED
    BY <1>1, <1>b, <2>1, <2>2 DEF CachedBetween, ReadBetween, Consistent
<1> QED
  BY <1>1, <1>2, <1>3 DEF ObservedInv, Consistent

\* A deleted instance was the first, or will not be.
LEMMA DropObserved ==
  ASSUME TypeOK, ObservedInv, DropInstance
  PROVE  ObservedInv'
<1>1. /\ inst' = NoInstance /\ uids' = uids /\ uids \in Nat
      /\ cache' = cache /\ pc' = pc /\ NoInstance.uid = 0
  BY NoInstanceFacts, GenerationTypes DEF DropInstance, passVars
<1> QED
  BY <1>1 DEF ObservedInv, FirstKnown

\* The invariant holds at first, and every step of the only operator, of the user
\* and of the cluster keeps it.
LEMMA ObservedInductive ==
  /\ Init => ObservedInv
  /\ OneOperator /\ RestInv /\ ObservedInv /\ [Next]_vars => ObservedInv'
<1> USE DEF apiVars, passVars
<1>1. ASSUME Init PROVE ObservedInv
  <2>1. /\ inst = NoInstance /\ uids = 0
        /\ \A p \in Operators : cache[p] = NoInstance /\ pc[p] = "idle"
    BY <1>1 DEF Init
  <2>a. NoInstance.uid = 0
    BY NoInstanceFacts
  <2>2. FirstKnown
    <3>1. 0 <= 0
      OBVIOUS
    <3> QED
      BY <2>1, <2>a, <3>1 DEF FirstKnown
  <2>3. inst.uid # 1
    BY <2>1, <2>a
  <2> QED
    BY <2>2, <2>3 DEF ObservedInv
<1>2. ASSUME OneOperator, RestInv, ObservedInv, Next PROVE ObservedInv'
  <2>a. TypeOK /\ Passes
    BY <1>2 DEF RestInv
  <2>b. /\ inst \in Instance /\ pc \in [Operators -> Steps]
        /\ work \in [Operators -> Instance]
        /\ cache \in [Operators -> Instance]
        /\ \A p \in Operators : work[p] \in Instance
    BY <2>a DEF TypeOK, ApiType, StepType, WorkType, InformerType
  <2>c. /\ inst.gen \in Nat /\ inst.gen >= inst.gen
        /\ inst.gen + 1 >= inst.gen /\ inst.gen + 1 \in Nat
    BY <2>a, GenerationTypes
  <2>d. inst.uid # 0 => uids # 0
    BY <1>2, NoInstanceFacts DEF ObservedInv, FirstKnown
  <2>1. ASSUME NEW p \in Operators, OperatorStep(p) PROVE ObservedInv'
    <3>a. PassHolds(p) /\ \A q \in Operators : q = p
      BY <1>2, <2>a DEF Passes, OneOperator
    <3>1. CASE pc'[p] # "idle"
      BY <1>2, <2>a, <2>1, <3>a, <3>1, MidPassObserved
    <3>2. CASE PatchStatus(p)
      BY <1>2, <2>a, <3>a, <3>2, PatchObserved
    <3>3. CASE pc'[p] = "idle" /\ ~PatchStatus(p)
      <4>1. inst' = inst /\ uids' = uids /\ cache' = cache
        BY <2>a, <2>1, <3>3, PassEnds DEF BeginPass, PatchStatusNotFound
      <4> QED
        BY <1>2, <2>a, <2>c, <3>a, <3>3, <4>1, AsideObserved
    <3> QED
      BY <3>1, <3>2, <3>3
  <2>2. ASSUME NEW p \in Operators, ApiError(p) \/ Restart(p) \/ Observe(p) \/ Resync(p)
        PROVE  ObservedInv'
    <3>1. inst' = inst /\ uids' = uids
      BY <2>2 DEF ApiError, Restart, Observe, Resync
    <3>2. cache'[p] = cache[p] \/ cache'[p] = inst
      BY <2>2, <2>b DEF ApiError, Restart, Observe, Resync
    <3>3. \/ pc'[p] = "idle"
          \/ pc[p] # "idle" /\ work'[p].gen = work[p].gen /\ base'[p] = base[p]
      <4>1. CASE ApiError(p) /\ pc[p] \notin {"idle", "status"}
        <5>1. StepReason(pc[p]) \in ReadyReasons
          BY <4>1, <2>b DEF StepReason, ReadyReasons, Steps
        <5>2. work'[p] = SetReady(work[p], StepReason(pc[p])) /\ base' = base
          BY <4>1, <2>b DEF ApiError, Stop
        <5> QED
          BY <4>1, <5>1, <5>2, <2>b, SetterFacts
      <4>2. CASE (ApiError(p) /\ pc[p] = "status") \/ Restart(p)
        BY <4>2, <2>b DEF ApiError, Restart, EndPass, Goto
      <4>3. CASE Observe(p) \/ Resync(p)
        BY <4>3 DEF Observe, Resync
      <4> QED
        BY <2>2, <4>1, <4>2, <4>3 DEF ApiError
    <3> QED
      BY <1>2, <2>a, <2>c, <3>1, <3>2, <3>3, AsideObserved DEF OneOperator
  <2>3. ASSUME NEW spec \in Specs, CreateInstance(spec) PROVE ObservedInv'
    BY <1>2, <2>a, <2>3, CreateObserved
  <2>4. CASE DeleteInstance \/ FinishDeletion
    BY <1>2, <2>a, <2>4, DropObserved DEF DeleteInstance, FinishDeletion
  <2>5. CASE DeleteInForeground \/ \E spec \in Specs : EditSpec(spec)
    <3>1. /\ inst'.uid = inst.uid /\ inst'.gen = inst.gen + 1
          /\ inst'.conds = inst.conds
          /\ inst'.observedGeneration = inst.observedGeneration
          /\ uids' = uids /\ uids # 0
          /\ UNCHANGED <<cache, passVars>>
      BY <2>5, <2>b, <2>d DEF DeleteInForeground, EditSpec, Instance
    <3>2. inst'.gen >= inst.gen /\ inst'.gen \in Nat
      BY <2>c, <3>1
    <3>3. \A p \in Operators :
            /\ cache'[p] = cache[p]
            /\ \/ pc'[p] = "idle"
               \/ pc[p] # "idle" /\ work'[p].gen = work[p].gen /\ base'[p] = base[p]
      BY <3>1
    <3> QED
      BY <1>2, <2>a, <3>1, <3>2, <3>3, AsideObserved
  <2>6. ASSUME UNCHANGED <<inst, uids, cache, passVars>> PROVE ObservedInv'
    BY <1>2, <2>a, <2>c, <2>6, AsideObserved
  <2>7. CASE \/ \E o \in Droppable : DropChild(o)
             \/ \E o \in Objects : GarbageCollect(o)
    BY <2>6, <2>7 DEF DropChild, GarbageCollect
  <2>8. CASE InstallCNPG \/ ChangeExternalSecret \/ RollOut \/ PodReady \/ PodFail
    BY <2>6, <2>8 DEF InstallCNPG, ChangeExternalSecret, RollOut, PodReady, PodFail, SetPod
  <2> QED
    BY <1>2, <2>1, <2>2, <2>3, <2>4, <2>5, <2>7, <2>8 DEF Next, User, Cluster
<1>3. ASSUME RestInv, ObservedInv, UNCHANGED vars PROVE ObservedInv'
  <2>1. /\ TypeOK /\ inst.gen \in Nat /\ inst.gen >= inst.gen
    BY <1>3, GenerationTypes DEF RestInv
  <2> QED
    BY <1>3, <2>1, AsideObserved DEF vars
<1> QED
  BY <1>1, <1>2, <1>3

(***************************************************************************)
(* With one operator, whatever the order of edits, failing calls, restarts *)
(* and late watch events: patchStatus leaves Ready at the generation       *)
(* observedGeneration names on the first instance of a name.  The two are  *)
(* sent or left out independently, by comparison with what the pass read;  *)
(* this holds because nothing newer than what a pass reads is ever stored  *)
(* before it reports.                                                      *)
(***************************************************************************)
THEOREM ReadyIsObserved ==
  ASSUME OneOperator
  PROVE  Spec => []ReadyAtObservedGeneration
<1>1. ObservedInv => ReadyAtObservedGeneration
  BY DEF ObservedInv, Consistent, ReadyAtObservedGeneration
<1> QED
  BY <1>1, RestInductive, ObservedInductive, PTL DEF Spec

\* The status of the first instance of a name only ever moves to a later
\* generation, and Ready is not taken away again.
StatusStep ==
  inst.uid = 1 /\ inst'.uid = 1 =>
    /\ inst'.observedGeneration >= inst.observedGeneration
    /\ inst.conds.Ready.reason # "" =>
         /\ inst'.conds.Ready.reason # ""
         /\ inst'.conds.Ready.gen >= inst.conds.Ready.gen

StatusGoesForward == [][StatusStep]_vars

\* Whoever else writes the instance leaves its status alone, or it is another
\* instance.
LEMMA OnlyPatchesReport ==
  ASSUME TypeOK, [Next]_vars, inst.uid # 0, inst'.uid # 0
  PROVE  \/ inst'.conds = inst.conds /\ inst'.observedGeneration = inst.observedGeneration
         \/ \E p \in Operators : OperatorStep(p) /\ PatchStatus(p)
<1> USE DEF apiVars
<1>a. inst \in Instance
  BY DEF TypeOK, ApiType
<1>1. ASSUME NEW p \in Operators, OperatorStep(p), ~PatchStatus(p) PROVE inst' = inst
  BY <1>1, PassCopyStep, PassEnds DEF BeginPass, PatchStatusNotFound
<1>2. ASSUME NEW p \in Operators, ApiError(p) \/ Restart(p) \/ Observe(p) \/ Resync(p)
      PROVE  inst' = inst
  BY <1>2 DEF ApiError, Restart, Observe, Resync
<1>3. ASSUME NEW spec \in Specs, CreateInstance(spec) \/ EditSpec(spec)
      PROVE  inst'.conds = inst.conds /\ inst'.observedGeneration = inst.observedGeneration
  BY <1>3, <1>a DEF CreateInstance, EditSpec, Instance
<1>4. CASE DeleteInstance \/ DeleteInForeground \/ FinishDeletion
  BY <1>4, <1>a, NoInstanceFacts
  DEF DeleteInstance, DeleteInForeground, FinishDeletion, DropInstance, Instance
<1>5. ASSUME NEW o, DropChild(o) \/ GarbageCollect(o) PROVE inst' = inst
  BY <1>5 DEF DropChild, GarbageCollect
<1>6. CASE InstallCNPG \/ ChangeExternalSecret \/ RollOut \/ PodReady \/ PodFail
  BY <1>6 DEF InstallCNPG, ChangeExternalSecret, RollOut, PodReady, PodFail, SetPod
<1>7. CASE UNCHANGED vars
  BY <1>7 DEF vars
<1> QED
  BY <1>1, <1>2, <1>3, <1>4, <1>5, <1>6, <1>7 DEF Next, User, Cluster

(***************************************************************************)
(* With one operator a status never goes back: no pass that read the       *)
(* instance early, and patches it late, replaces what is known of a later  *)
(* generation, for patchStatus is the only writer and a pass is never      *)
(* older than what the one before it stored.                               *)
(***************************************************************************)
THEOREM StatusNeverGoesBack ==
  ASSUME OneOperator
  PROVE  Spec => StatusGoesForward
<1>1. RestInv /\ ObservedInv /\ ObservedInv' /\ [Next]_vars => [StatusStep]_vars
  <2> SUFFICES ASSUME RestInv, ObservedInv, ObservedInv', [Next]_vars,
                      inst.uid = 1, inst'.uid = 1
               PROVE  /\ inst'.observedGeneration >= inst.observedGeneration
                      /\ inst.conds.Ready.reason # "" =>
                           /\ inst'.conds.Ready.reason # ""
                           /\ inst'.conds.Ready.gen >= inst.conds.Ready.gen
    BY DEF StatusStep
  <2>a. /\ TypeOK /\ Passes /\ Consistent(inst) /\ Consistent(inst')
        /\ \A p \in Operators : ReadBetween(p)
    BY DEF RestInv, ObservedInv, Consistent
  <2>b. /\ inst.observedGeneration >= inst.observedGeneration
        /\ inst.conds.Ready.gen >= inst.conds.Ready.gen
    <3>1. inst.observedGeneration \in Nat /\ inst.conds.Ready.gen \in Nat
      BY <2>a DEF TypeOK, ApiType, Instance, Conditions
    <3> QED
      BY <3>1
  <2>c. inst.uid # 0 /\ inst'.uid # 0
    OBVIOUS
  <2>1. CASE inst'.conds = inst.conds /\ inst'.observedGeneration = inst.observedGeneration
    <3>1. inst'.conds.Ready = inst.conds.Ready
      BY <2>1
    <3>2. inst'.conds.Ready.gen >= inst.conds.Ready.gen
      BY <2>b, <3>1
    <3>3. inst'.observedGeneration >= inst.observedGeneration
      BY <2>b, <2>1
    <3> QED
      BY <3>1, <3>2, <3>3
  <2>2. ASSUME NEW p \in Operators, PatchStatus(p)
        PROVE  /\ inst'.observedGeneration >= inst.observedGeneration
               /\ inst.conds.Ready.reason # "" => inst'.conds.Ready.reason # ""
    <3>1. /\ pc[p] # "idle" /\ work[p].conds.Ready.reason # ""
          /\ inst.observedGeneration <= work[p].gen /\ work[p].gen \in Nat
      BY <2>a, <2>2, GenerationTypes DEF PatchStatus, Passes, PassHolds, ReadBetween
    <3>2. inst'.conds = inst.conds \/ inst'.conds = work[p].conds
      BY <2>a, <2>2, PatchFacts
    <3>3. inst'.observedGeneration \in {inst.observedGeneration, work[p].gen}
      BY <2>a, <2>2 DEF PatchStatus, TypeOK, ApiType, Instance
    <3>4. work[p].gen >= inst.observedGeneration
      BY <2>a, <3>1, GenerationTypes
    <3> QED
      BY <2>b, <3>1, <3>2, <3>3, <3>4
  <2>3. CASE \E p \in Operators : PatchStatus(p)
    BY <2>2, <2>3, <2>a DEF Consistent
  <2> QED
    BY <2>1, <2>3, <2>a, <2>c, OnlyPatchesReport
<1> QED
  BY <1>1, RestInductive, ObservedInductive, PTL DEF Spec, StatusGoesForward
=============================================================================
