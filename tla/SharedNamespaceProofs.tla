------------------------ MODULE SharedNamespaceProofs ------------------------
(***************************************************************************)
(* Which objects of two instances can meet, for any names; and what        *)
(* follows for instances that share a namespace.                           *)
(***************************************************************************)
EXTENDS SharedNamespace, TLAPS

-----------------------------------------------------------------------------
(***************************************************************************)
(* Names.  Appending is injective in both arguments.                       *)
(***************************************************************************)
LEMMA AppendOne ==
  ASSUME NEW S, NEW r \in Seq(S), NEW t \in Seq(S), NEW x \in S, NEW y \in S,
         r \o <<x>> = t \o <<y>>
  PROVE  r = t /\ x = y
<1>1. Len(r \o <<x>>) = Len(r) + 1 /\ Len(t \o <<y>>) = Len(t) + 1
  OBVIOUS
<1>2. Len(r) = Len(t)
  BY <1>1
<1>3. (r \o <<x>>)[Len(r) + 1] = x /\ (t \o <<y>>)[Len(t) + 1] = y
  OBVIOUS
<1>4. \A i \in 1..Len(r) : (r \o <<x>>)[i] = r[i] /\ (t \o <<y>>)[i] = t[i]
  BY <1>2
<1>5. \A i \in 1..Len(r) : r[i] = t[i]
  BY <1>4
<1> QED BY <1>2, <1>3, <1>5

LEMMA AppendTwo ==
  ASSUME NEW S, NEW r \in Seq(S), NEW x \in S, NEW y \in S
  PROVE  r \o <<x, y>> = (r \o <<x>>) \o <<y>> /\ r \o <<x>> \in Seq(S)
<1>1. r \o <<x>> \in Seq(S) /\ r \o <<x, y>> \in Seq(S) /\ (r \o <<x>>) \o <<y>> \in Seq(S)
  OBVIOUS
<1>2. Len(r \o <<x, y>>) = Len((r \o <<x>>) \o <<y>>)
  BY <1>1
<1>3. \A i \in 1..Len(r \o <<x, y>>) : (r \o <<x, y>>)[i] = ((r \o <<x>>) \o <<y>>)[i]
  BY <1>1, <1>2
<1> DEFINE a == r \o <<x, y>>
           b == (r \o <<x>>) \o <<y>>
<1>4. a \in Seq(S) /\ b \in Seq(S) /\ Len(a) = Len(b) /\ \A i \in 1..Len(a) : a[i] = b[i]
  BY <1>1, <1>2, <1>3
<1> HIDE DEF a, b
<1>5. a = b
  BY <1>4
<1> QED BY <1>1, <1>5 DEF a, b

\* The suffixes that are one segment, as one fact.
LastSegment(c) == IF c \in ValkeyParts THEN "valkey" ELSE c

LEMMA SuffixForms ==
  /\ Suffix("secret-key") = <<"secret", "key">>
  /\ \A c \in VolumeNames \cup {"admin", "db"} \cup ValkeyParts : Suffix(c) = <<LastSegment(c)>>
  /\ \A c \in Workload : Suffix(c) = <<>>
BY DEF Suffix, LastSegment, ValkeyParts, Workload, VolumeNames

LEMMA SegmentFacts ==
  /\ "secret" \in Segments /\ "key" \in Segments /\ "valkey" \in Segments
  /\ "admin" \in Segments
  /\ \A c \in VolumeNames \cup {"admin", "db"} : c \in Segments
BY NamesAssumption DEF VolumeNames

(***************************************************************************)
(* The only way two different parts, of whichever instances, get the same  *)
(* kind and name: the Valkey Deployment or Service of one instance and the *)
(* Deployment or Service of an instance that is named after it.            *)
(***************************************************************************)
Meet(m1, c1, m2, c2) ==
  /\ \/ c1 = "valkey-deployment" /\ c2 = "deployment"
     \/ c1 = "valkey-service" /\ c2 = "service"
  /\ m2 = m1 \o <<"valkey">>

THEOREM KeysMeet ==
  ASSUME NEW m1 \in Seq(Segments), NEW m2 \in Seq(Segments),
         NEW c1 \in Parts, NEW c2 \in Parts,
         Key(m1, c1) = Key(m2, c2)
  PROVE  \/ m1 = m2 /\ c1 = c2
         \/ Meet(m1, c1, m2, c2)
         \/ Meet(m2, c2, m1, c1)
<1> DEFINE OneSegment == VolumeNames \cup {"admin", "db"} \cup ValkeyParts
<1>1. Kind(c1) = Kind(c2) /\ m1 \o Suffix(c1) = m2 \o Suffix(c2)
  BY DEF Key, derivedName
<1>2. Parts = OneSegment \cup {"secret-key"} \cup Workload
  BY DEF Parts, VolumeNames, ValkeyParts, Workload
<1>3. CASE c1 \in OneSegment /\ c2 \in OneSegment
  <2>1. LastSegment(c1) \in Segments /\ LastSegment(c2) \in Segments
    BY <1>3, SegmentFacts DEF LastSegment
  <2>2. m1 \o <<LastSegment(c1)>> = m2 \o <<LastSegment(c2)>>
    BY <1>1, <1>3, SuffixForms
  <2>3. m1 = m2 /\ LastSegment(c1) = LastSegment(c2)
    BY <2>1, <2>2, AppendOne
  <2>4. c1 = c2
    BY <1>1, <1>3, <2>3 DEF LastSegment, Kind, Secrets, VolumeNames, ValkeyParts
  <2> QED BY <2>3, <2>4
<1>4. CASE c1 = "secret-key" \/ c2 = "secret-key"
  <2>1. c1 \in Secrets /\ c2 \in Secrets
    BY <1>1, <1>4 DEF Kind, Secrets, Parts, VolumeNames
  <2> DEFINE n1 == m1 \o <<"secret">>
             n2 == m2 \o <<"secret">>
  <2>2. /\ m1 \o <<"secret", "key">> = n1 \o <<"key">> /\ n1 \in Seq(Segments)
        /\ m2 \o <<"secret", "key">> = n2 \o <<"key">> /\ n2 \in Seq(Segments)
    <3>1. "secret" \in Segments /\ "key" \in Segments
      BY SegmentFacts
    <3> QED BY <3>1, AppendTwo
  <2>3. /\ Suffix("secret-key") = <<"secret", "key">>
        /\ Suffix("admin") = <<"admin">>
    BY SuffixForms DEF LastSegment, ValkeyParts
  <2>4. CASE c1 = "secret-key" /\ c2 = "secret-key"
    <3>1. n1 \o <<"key">> = n2 \o <<"key">>
      BY <1>1, <2>2, <2>3, <2>4
    <3>2. n1 = n2
      BY <3>1, <2>2, SegmentFacts, AppendOne
    <3>3. m1 = m2
      BY <3>2, SegmentFacts, AppendOne
    <3> QED BY <3>3, <2>4
  <2>5. CASE c1 = "secret-key" /\ c2 = "admin"
    <3>1. n1 \o <<"key">> = m2 \o <<"admin">>
      BY <1>1, <2>2, <2>3, <2>5
    <3>2. "key" = "admin"
      BY <3>1, <2>2, SegmentFacts, AppendOne
    <3> QED BY <3>2
  <2>6. CASE c1 = "admin" /\ c2 = "secret-key"
    <3>1. n2 \o <<"key">> = m1 \o <<"admin">>
      BY <1>1, <2>2, <2>3, <2>6
    <3>2. "key" = "admin"
      BY <3>1, <2>2, SegmentFacts, AppendOne
    <3> QED BY <3>2
  <2> QED BY <2>1, <2>4, <2>5, <2>6, <1>4 DEF Secrets
<1>5. CASE c1 \in Workload /\ c2 \in Workload
  <2>1. m1 = m2
    BY <1>1, <1>5, SuffixForms
  <2>2. c1 = c2
    BY <1>1, <1>5 DEF Kind, Workload, Secrets, VolumeNames
  <2> QED BY <2>1, <2>2
<1>6. CASE c1 \in OneSegment /\ c2 \in Workload
  <2>1. \/ c1 = "valkey-deployment" /\ c2 = "deployment"
        \/ c1 = "valkey-service" /\ c2 = "service"
    BY <1>1, <1>6 DEF Kind, Workload, Secrets, VolumeNames, ValkeyParts
  <2>2. m1 \o <<"valkey">> = m2 \o <<>>
    BY <1>1, <2>1, SuffixForms DEF LastSegment, ValkeyParts, Workload
  <2>3. m2 \o <<>> = m2
    OBVIOUS
  <2> QED BY <2>1, <2>2, <2>3 DEF Meet
<1>7. CASE c1 \in Workload /\ c2 \in OneSegment
  <2>1. \/ c2 = "valkey-deployment" /\ c1 = "deployment"
        \/ c2 = "valkey-service" /\ c1 = "service"
    BY <1>1, <1>7 DEF Kind, Workload, Secrets, VolumeNames, ValkeyParts
  <2>2. m2 \o <<"valkey">> = m1 \o <<>>
    BY <1>1, <2>1, SuffixForms DEF LastSegment, ValkeyParts, Workload
  <2>3. m1 \o <<>> = m1
    OBVIOUS
  <2> QED BY <2>1, <2>2, <2>3 DEF Meet
<1> QED BY <1>2, <1>3, <1>4, <1>5, <1>6, <1>7

-----------------------------------------------------------------------------
LEMMA NameFacts ==
  /\ \A m \in Names : m \in Seq(Segments) /\ m # <<>>
  /\ \A m \in Names, c \in Parts : Key(m, c) \in Keys
  /\ \A m \in Names, c \in Parts : [inst |-> m, part |-> c] \in Object
  /\ Absent \notin Object
  /\ Len(Order) = 12
  /\ \A i \in 1..Len(Order) : Order[i] \in Parts
<1>1. \A m \in Names : m \in Seq(Segments) /\ m # <<>>
  BY NamesAssumption
<1>2. \A m \in Names, c \in Parts : Key(m, c) \in Keys
  BY DEF Keys
<1>3. \A m \in Names, c \in Parts : [inst |-> m, part |-> c] \in Object
  BY DEF Object
<1>4. Absent \notin Object
  BY <1>1 DEF Absent, Object
<1>5. Len(Order) = 12
  BY DEF Order
<1>6. \A i \in 1..Len(Order) : Order[i] \in Parts
  BY <1>5 DEF Order, Parts
<1> QED BY <1>1, <1>2, <1>3, <1>4, <1>5, <1>6

LEMMA TypeInductive ==
  ASSUME TypeOK, [Next]_vars
  PROVE  TypeOK'
<1>0. /\ live \subseteq created /\ created \subseteq Names /\ queue \subseteq Names
      /\ store \in [Keys -> Object \cup {Absent}]
      /\ cur \in Names \cup {<<>>} /\ pos \in 1..13
      /\ report \in [Names -> Reports]
  BY NameFacts DEF TypeOK
<1>1. CASE Skip
  BY <1>0, <1>1, NameFacts DEF Skip, TypeOK
<1>2. CASE Apply
  <2> DEFINE c == Order[pos]
             k == Key(cur, c)
             new == [inst |-> cur, part |-> c]
  <2>1. cur \in Names /\ pos \in 1..Len(Order) /\ c \in Parts /\ pos' = pos + 1
    BY <1>0, <1>2, NameFacts DEF Apply
  <2>2. k \in Keys /\ new \in Object
    BY <2>1, NameFacts
  <2>3. OwnersOf(new, store[k]) \subseteq Names
    <3>1. store[k] \in Object \/ store[k] = Absent
      BY <1>0, <2>2
    <3>2. \A o \in Object : o.inst \in Names
      BY DEF Object
    <3>3. Absent.inst = <<>>
      BY DEF Absent
    <3>4. new.inst = cur
      OBVIOUS
    <3> HIDE DEF k, new
    <3> QED BY <2>1, <3>1, <3>2, <3>3, <3>4 DEF OwnersOf
  <2> HIDE DEF c, k, new
  <2>4. store' = store \/ store' = [store EXCEPT ![k] = new]
    BY <1>2 DEF Apply, c, k, new
  <2>5. queue' = queue \/ queue' = queue \cup OwnersOf(new, store[k])
    BY <1>2 DEF Apply, c, k, new
  <2>6. store' \in [Keys -> Object \cup {Absent}] /\ queue' \subseteq Names
    BY <1>0, <2>2, <2>3, <2>4, <2>5
  <2>7. UNCHANGED <<live, created, cur, report>>
    BY <1>2 DEF Apply
  <2> QED BY <1>0, <2>1, <2>6, <2>7, NameFacts DEF TypeOK
<1>3. CASE Refuse
  <2>1. cur \in Names
    BY <1>0, <1>3 DEF Refuse
  <2>2. Finish("too-long") \/ Finish("conflict")
    BY <1>3 DEF Refuse
  <2>3. queue' = queue \cup {cur} /\ store' = store
    BY <1>3 DEF Refuse
  <2>4. report' \in [Names -> Reports]
    BY <1>0, <2>1, <2>2 DEF Finish, Reports
  <2>5. /\ cur' = <<>> /\ pos' = 1 /\ UNCHANGED <<live, created>>
    BY <2>2 DEF Finish
  <2> QED BY <1>0, <2>1, <2>3, <2>4, <2>5, NameFacts DEF TypeOK
<1>4. CASE PatchStatus
  <2>1. cur \in Names
    BY <1>0, <1>4 DEF PatchStatus
  <2>2. report' \in [Names -> Reports]
    BY <1>0, <1>4, <2>1 DEF PatchStatus, Finish, Reports
  <2>3. /\ cur' = <<>> /\ pos' = 1 /\ UNCHANGED <<live, created, store>>
        /\ queue' \in {queue, queue \cup {cur}}
    BY <1>4 DEF PatchStatus, Finish
  <2> QED BY <1>0, <2>1, <2>2, <2>3, NameFacts DEF TypeOK
<1>5. ASSUME NEW m \in Names, Begin(m)
      PROVE  TypeOK'
  BY <1>0, <1>5, NameFacts DEF Begin, TypeOK
<1>6. ASSUME NEW m \in Names, CreateInstance(m)
      PROVE  TypeOK'
  BY <1>0, <1>6, NameFacts DEF CreateInstance, TypeOK
<1>7. ASSUME NEW m \in Names, DeleteInstance(m)
      PROVE  TypeOK'
  BY <1>0, <1>7, NameFacts DEF DeleteInstance, TypeOK, Reports
<1>8. ASSUME NEW k \in Keys, GarbageCollect(k)
      PROVE  TypeOK'
  <2>1. store[k] \in Object
    BY <1>0, <1>8 DEF GarbageCollect
  <2>2. store[k].inst \in Names
    BY <2>1 DEF Object
  <2> QED BY <1>0, <1>8, <2>2, NameFacts DEF GarbageCollect, TypeOK
<1>9. CASE UNCHANGED vars
  BY <1>9 DEF vars, TypeOK
<1> QED BY <1>1, <1>2, <1>3, <1>4, <1>5, <1>6, <1>7, <1>8, <1>9 DEF Next, PassStep

LEMMA TypeInit == Init => TypeOK
<1> SUFFICES ASSUME Init PROVE TypeOK
  OBVIOUS
<1>1. store \in [Keys -> Object \cup {Absent}] /\ report \in [Names -> Reports]
  BY DEF Init, Reports
<1>2. pos \in 1..(Len(Order) + 1)
  <2>1. Len(Order) = 12 /\ pos = 1
    BY NameFacts DEF Init
  <2> QED BY <2>1
<1>3. Lasting \subseteq Names
  BY NamesAssumption
<1> QED BY <1>1, <1>2, <1>3 DEF Init, TypeOK

(***************************************************************************)
(* Type correctness, for any names and specs.                              *)
(***************************************************************************)
THEOREM NamespaceTypeCorrect == Spec => []TypeOK
BY TypeInit, TypeInductive, PTL DEF Spec

-----------------------------------------------------------------------------
(***************************************************************************)
(* What a step may do to the objects: a pass writes the object of the part *)
(* it is at, or leaves a Secret that is there; the garbage collector       *)
(* removes an owned object of an instance that is gone.                    *)
(***************************************************************************)
LEMMA StoreSteps ==
  ASSUME TypeOK, [Next]_vars
  PROVE  \/ store' = store
         \/ /\ Apply /\ cur \in Names /\ pos \in 1..Len(Order)
            /\ Order[pos] \in Parts
            /\ store' = [store EXCEPT ![Key(cur, Order[pos])] =
                           [inst |-> cur, part |-> Order[pos]]]
         \/ \E k \in Keys : /\ store[k].part \in Owned /\ store[k].inst \notin live
                            /\ live' = live
                            /\ store' = [store EXCEPT ![k] = Absent]
<1>1. CASE Apply
  <2>1. cur \in Names /\ pos \in 1..Len(Order)
    BY <1>1 DEF Apply, TypeOK
  <2> QED BY <1>1, <2>1, NameFacts DEF Apply
<1>2. ASSUME NEW k \in Keys, GarbageCollect(k)
      PROVE  \E kk \in Keys : /\ store[kk].part \in Owned /\ store[kk].inst \notin live
                              /\ live' = live
                              /\ store' = [store EXCEPT ![kk] = Absent]
  BY <1>2 DEF GarbageCollect
<1>3. CASE Skip \/ Refuse \/ PatchStatus \/ UNCHANGED vars
  BY <1>3 DEF Skip, Refuse, PatchStatus, vars
<1>4. ASSUME NEW m \in Names, Begin(m) \/ CreateInstance(m) \/ DeleteInstance(m)
      PROVE  store' = store
  BY <1>4 DEF Begin, CreateInstance, DeleteInstance
<1> QED BY <1>1, <1>2, <1>3, <1>4 DEF Next, PassStep

(***************************************************************************)
(* Documents, database and credentials are never shared, for any set of    *)
(* names: KeysMeet leaves them no way to meet.                             *)
(***************************************************************************)
THEOREM DataSeparate == Spec => []DataNeverShared
<1>1. Init => DataNeverShared
  BY NameFacts DEF Init, DataNeverShared, DataParts, Parts, Secrets, VolumeNames
<1>2. TypeOK /\ DataNeverShared /\ [Next]_vars => DataNeverShared'
  <2> SUFFICES ASSUME TypeOK, DataNeverShared, [Next]_vars,
                      NEW m \in Names, NEW d \in DataParts
               PROVE  store'[Key(m, d)] = Absent \/ store'[Key(m, d)] = [inst |-> m, part |-> d]
    BY DEF DataNeverShared, Has
  <2>0. d \in Parts /\ Key(m, d) \in Keys
    BY NameFacts DEF DataParts, Parts, Secrets, VolumeNames
  <2>1. store \in [Keys -> Object \cup {Absent}]
    BY DEF TypeOK
  <2>2. store[Key(m, d)] = Absent \/ store[Key(m, d)] = [inst |-> m, part |-> d]
    BY DEF DataNeverShared, Has
  <2>3. CASE store' = store
    BY <2>2, <2>3
  <2>4. CASE /\ cur \in Names /\ Order[pos] \in Parts
             /\ store' = [store EXCEPT ![Key(cur, Order[pos])] =
                            [inst |-> cur, part |-> Order[pos]]]
    <3>1. CASE Key(m, d) = Key(cur, Order[pos])
      <4>1. m = cur /\ d = Order[pos]
        <5>1. m \in Seq(Segments) /\ cur \in Seq(Segments)
          BY <2>4, NameFacts
        <5>2. \/ m = cur /\ d = Order[pos]
              \/ Meet(m, d, cur, Order[pos])
              \/ Meet(cur, Order[pos], m, d)
          BY <2>0, <2>4, <3>1, <5>1, KeysMeet
        <5>3. d \notin {"valkey-deployment", "valkey-service", "deployment", "service"}
          BY DEF DataParts, Secrets, VolumeNames
        <5> QED BY <5>2, <5>3 DEF Meet
      <4> QED BY <2>0, <2>1, <2>4, <4>1
    <3>2. CASE Key(m, d) # Key(cur, Order[pos])
      BY <2>0, <2>1, <2>2, <2>4, <3>2
    <3> QED BY <3>1, <3>2
  <2>5. CASE \E k \in Keys : store' = [store EXCEPT ![k] = Absent]
    BY <2>0, <2>1, <2>2, <2>5
  <2> QED BY <2>3, <2>4, <2>5, StoreSteps
<1> QED BY <1>1, <1>2, NamespaceTypeCorrect, PTL DEF Spec

-----------------------------------------------------------------------------
(***************************************************************************)
(* Instances whose names are apart from all others'.  The invariant: each  *)
(* key of such a one holds its own part or nothing, a pass over it has     *)
(* everything up to its position while it lives, and an instance not yet   *)
(* created has no pass or report.                                          *)
(***************************************************************************)
OwnKeys ==
  \A m \in Names, c \in Parts :
    Apart(m) => store[Key(m, c)] = Absent \/ Has(m, c)

PassHas ==
  cur \in live /\ Apart(cur) =>
    \A i \in 1..(pos - 1) : Applies(cur, Order[i]) => Has(cur, Order[i])

NotYetCreated == \A m \in Names \ created : report[m] = "" /\ cur # m

KeptInv == TypeOK /\ OwnKeys /\ PassHas /\ NotYetCreated /\ AppliedIsKept

LEMMA KeysDistinct ==
  ASSUME NEW m1 \in Names, NEW m2 \in Names, NEW c1 \in Parts,
         NEW c2 \in Parts, Key(m1, c1) = Key(m2, c2),
         m1 = m2 \/ Separate(m1, m2)
  PROVE  m1 = m2 /\ c1 = c2
<1>1. m1 \in Seq(Segments) /\ m2 \in Seq(Segments)
  BY NameFacts
<1>2. m2 # m1 \o <<"valkey">> /\ m1 # m2 \o <<"valkey">>
  <2>1. CASE m1 = m2
    <3>1. "valkey" \in Segments
      BY NamesAssumption
    <3>2. Len(m1 \o <<"valkey">>) = Len(m1) + 1 /\ Len(m1) \in Nat
      BY <1>1, <3>1
    <3> QED BY <2>1, <3>2
  <2>2. CASE Separate(m1, m2)
    BY <2>2 DEF Separate
  <2> QED BY <2>1, <2>2
<1> QED BY <1>1, <1>2, KeysMeet DEF Meet

(***************************************************************************)
(* A step never takes an object from a live instance, nor gives it one     *)
(* that is not its own.                                                    *)
(***************************************************************************)
LEMMA HasIsKept ==
  ASSUME TypeOK, OwnKeys, NotYetCreated, [Next]_vars,
         NEW m \in Names, NEW c \in Parts, Apart(m)
  PROVE  /\ store'[Key(m, c)] = Absent \/ (Has(m, c))'
         /\ m \in live /\ Has(m, c) => (Has(m, c))'
<1>0. Key(m, c) \in Keys /\ store \in [Keys -> Object \cup {Absent}]
  BY NameFacts DEF TypeOK
<1>1. store[Key(m, c)] = Absent \/ store[Key(m, c)] = [inst |-> m, part |-> c]
  BY DEF OwnKeys, Has
<1>2. CASE store' = store
  BY <1>1, <1>2 DEF Has
<1>3. CASE /\ cur \in Names /\ Order[pos] \in Parts
           /\ store' = [store EXCEPT ![Key(cur, Order[pos])] =
                          [inst |-> cur, part |-> Order[pos]]]
  <2>1. CASE Key(m, c) = Key(cur, Order[pos])
    <3>1. m = cur \/ Separate(m, cur)
      BY <1>3 DEF Apart, NotYetCreated
    <3>2. m = cur /\ c = Order[pos]
      BY <1>3, <2>1, <3>1, KeysDistinct
    <3> QED BY <1>0, <1>3, <3>2 DEF Has
  <2>2. CASE Key(m, c) # Key(cur, Order[pos])
    <3>1. store'[Key(m, c)] = store[Key(m, c)]
      BY <1>0, <1>3, <2>2
    <3> QED BY <1>1, <3>1 DEF Has
  <2> QED BY <2>1, <2>2
<1>4. CASE \E k \in Keys : /\ store[k].inst \notin live
                          /\ store' = [store EXCEPT ![k] = Absent]
  <2>1. PICK k \in Keys : /\ store[k].inst \notin live
                         /\ store' = [store EXCEPT ![k] = Absent]
    BY <1>4
  <2>2. CASE k = Key(m, c)
    <3>1. store'[Key(m, c)] = Absent
      BY <1>0, <2>1, <2>2
    <3>2. Has(m, c) => m \notin live
      BY <2>1, <2>2 DEF Has
    <3> QED BY <3>1, <3>2
  <2>3. CASE k # Key(m, c)
    <3>1. store'[Key(m, c)] = store[Key(m, c)]
      BY <1>0, <2>1, <2>3
    <3> QED BY <1>1, <3>1 DEF Has
  <2> QED BY <2>2, <2>3
<1> QED BY <1>2, <1>3, <1>4, StoreSteps

LEMMA PartsInOrder == \A c \in Parts : \E i \in 1..12 : Order[i] = c
<1>1. /\ Order[1] = "secret-key" /\ Order[2] = "admin" /\ Order[3] = "data"
      /\ Order[4] = "media" /\ Order[5] = "consume" /\ Order[6] = "export"
      /\ Order[7] = "db" /\ Order[8] = "valkey-deployment"
      /\ Order[9] = "valkey-service" /\ Order[10] = "valkey-pvc"
      /\ Order[11] = "service" /\ Order[12] = "deployment"
  BY DEF Order
<1> SUFFICES ASSUME NEW c \in Parts PROVE \E i \in 1..12 : Order[i] = c
  OBVIOUS
<1>2. 1 \in 1..12 /\ 2 \in 1..12 /\ 3 \in 1..12 /\ 4 \in 1..12 /\ 5 \in 1..12 /\ 6 \in 1..12
      /\ 7 \in 1..12 /\ 8 \in 1..12 /\ 9 \in 1..12 /\ 10 \in 1..12 /\ 11 \in 1..12
      /\ 12 \in 1..12
  OBVIOUS
<1> HIDE DEF Order
<1> QED BY <1>1, <1>2, Zenon DEF Parts

LEMMA KeptInductive ==
  ASSUME KeptInv, [Next]_vars
  PROVE  KeptInv'
<1> USE DEF KeptInv
<1>0. /\ TypeOK' /\ live \subseteq created /\ created \subseteq Names
      /\ cur \in Names \cup {<<>>} /\ pos \in 1..13 /\ report \in [Names -> Reports]
      /\ live' \subseteq created' /\ <<>> \notin Names
  BY TypeInductive, NameFacts DEF TypeOK
<1>a. created \subseteq created'
  BY DEF Next, PassStep, Skip, Apply, Refuse, PatchStatus, Finish, Begin,
         CreateInstance, DeleteInstance, GarbageCollect, vars
<1>b. \A m \in Names : (Apart(m))' => Apart(m)
  BY <1>a DEF Apart
<1>1. OwnKeys'
  BY <1>b, HasIsKept DEF OwnKeys
<1>2. \A m \in live, c \in Parts :
        Apart(m) /\ Has(m, c) => store'[Key(m, c)] = [inst |-> m, part |-> c]
  BY <1>0, HasIsKept DEF Has
<1>3. \A i \in 1..12 : Order[i] \in Parts
  BY NameFacts
<1>4. CASE Skip \/ Apply
  <2>1. /\ cur' = cur /\ live' = live /\ created' = created /\ report' = report
        /\ pos' = pos + 1 /\ pos \in 1..12 /\ cur \in Names
    BY <1>0, <1>4, NameFacts DEF Skip, Apply
  <2>2. Applies(cur, Order[pos]) /\ Apart(cur) =>
          store'[Key(cur, Order[pos])] = [inst |-> cur, part |-> Order[pos]]
    <3>1. CASE Skip
      BY <3>1 DEF Skip
    <3>2. CASE Apply
      <4> DEFINE k == Key(cur, Order[pos])
      <4>1. k \in Keys /\ store \in [Keys -> Object \cup {Absent}]
        BY <1>3, <2>1, NameFacts DEF TypeOK
      <4>2. CASE store[k] # Absent /\ Order[pos] \in Secrets /\ Apart(cur)
        <5>1. Has(cur, Order[pos]) /\ store' = store
          BY <3>2, <4>2, <1>3, <2>1 DEF Apply, OwnKeys
        <5> QED BY <5>1, <2>1 DEF Has
      <4>3. CASE ~(store[k] # Absent /\ Order[pos] \in Secrets)
        <5>1. store' = [store EXCEPT ![k] = [inst |-> cur, part |-> Order[pos]]]
          BY <3>2, <4>3 DEF Apply
        <5>2. store'[k] = [inst |-> cur, part |-> Order[pos]]
          BY <4>1, <5>1
        <5> QED BY <5>2, <2>1 DEF Has
      <4> QED BY <4>2, <4>3
    <3> QED BY <1>4, <3>1, <3>2
  <2>3. PassHas'
    <3> SUFFICES ASSUME cur \in live, Apart(cur), NEW i \in 1..pos, Applies(cur, Order[i])
                 PROVE  store'[Key(cur, Order[i])] = [inst |-> cur, part |-> Order[i]]
      BY <1>b, <2>1 DEF PassHas, Has
    <3>1. CASE i = pos
      BY <3>1, <2>2
    <3>2. CASE i # pos
      <4>1. i \in 1..(pos - 1) /\ i \in 1..12
        BY <3>2, <2>1
      <4>2. Has(cur, Order[i])
        BY <4>1 DEF PassHas
      <4> QED BY <4>1, <4>2, <1>2, <1>3
    <3> QED BY <3>1, <3>2
  <2>4. AppliedIsKept'
    BY <1>0, <1>2, <1>b, <2>1 DEF AppliedIsKept, Plan, Has
  <2>5. NotYetCreated'
    BY <2>1 DEF NotYetCreated
  <2> QED BY <1>0, <1>1, <2>3, <2>4, <2>5
<1>5. CASE Refuse \/ PatchStatus
  <2>1. PICK r \in Reports : Finish(r) /\ (r = "applied" => PatchStatus)
    BY <1>5 DEF Refuse, PatchStatus, Reports
  <2>2. /\ cur' = <<>> /\ live' = live /\ created' = created /\ cur \in Names
        /\ store' = store
        /\ report' = IF cur \in live THEN [report EXCEPT ![cur] = r] ELSE report
    BY <1>0, <1>5, <2>1 DEF Finish, Refuse, PatchStatus
  <2>3. PassHas'
    BY <1>0, <2>2 DEF PassHas
  <2>4. ASSUME NEW m \in live', report'[m] = "applied", Apart(m), NEW c \in Plan(m)
        PROVE  (Has(m, c))'
    <3>1. CASE m = cur
      <4>1. r = "applied"
        BY <1>0, <2>2, <2>4, <3>1
      <4>2. pos = 13
        BY <1>0, <2>1, <4>1, NameFacts DEF PatchStatus
      <4>3. PICK i \in 1..12 : Order[i] = c
        BY PartsInOrder DEF Plan
      <4>4. Has(m, c)
        BY <2>2, <2>4, <3>1, <4>2, <4>3 DEF PassHas, Plan
      <4> QED BY <2>2, <4>4 DEF Has
    <3>2. CASE m # cur
      <4>1. report[m] = "applied" /\ m \in live
        BY <1>0, <2>2, <2>4, <3>2
      <4> QED BY <2>2, <2>4, <4>1 DEF AppliedIsKept, Has
    <3> QED BY <3>1, <3>2
  <2>5. AppliedIsKept'
    BY <1>0, <1>b, <2>2, <2>4 DEF AppliedIsKept, Plan, Applies
  <2>6. NotYetCreated'
    BY <1>0, <2>2 DEF NotYetCreated
  <2> QED BY <1>0, <1>1, <2>3, <2>5, <2>6
<1>6. ASSUME NEW m \in Names, Begin(m)
      PROVE  KeptInv'
  <2>1. /\ live' = live /\ created' = created /\ store' = store /\ report' = report
        /\ pos' = 1 /\ (cur' = cur \/ (m \in live /\ cur' = m))
    BY <1>6 DEF Begin
  <2>2. PassHas'
    BY <2>1 DEF PassHas
  <2>3. AppliedIsKept'
    BY <1>0, <1>b, <2>1 DEF AppliedIsKept, Plan, Has
  <2>4. NotYetCreated'
    BY <1>0, <2>1 DEF NotYetCreated
  <2> QED BY <1>0, <1>1, <2>2, <2>3, <2>4
<1>7. ASSUME NEW m \in Names, CreateInstance(m)
      PROVE  KeptInv'
  <2>1. /\ live' = live \cup {m} /\ created' = created \cup {m} /\ store' = store
        /\ report' = report /\ pos' = pos /\ cur' = cur /\ m \notin created
    BY <1>7 DEF CreateInstance
  <2>2. PassHas'
    BY <1>0, <1>b, <2>1 DEF PassHas, NotYetCreated, Has
  <2>3. AppliedIsKept'
    BY <1>0, <1>b, <2>1 DEF AppliedIsKept, Plan, Has, NotYetCreated
  <2>4. NotYetCreated'
    BY <2>1 DEF NotYetCreated
  <2> QED BY <1>0, <1>1, <2>2, <2>3, <2>4
<1>8. ASSUME NEW m \in Names, DeleteInstance(m)
      PROVE  KeptInv'
  <2>1. /\ live' = live \ {m} /\ created' = created /\ store' = store
        /\ report' = [report EXCEPT ![m] = ""] /\ pos' = pos /\ cur' = cur /\ m \in live
    BY <1>8 DEF DeleteInstance
  <2>2. PassHas'
    BY <1>0, <1>b, <2>1 DEF PassHas, Has
  <2>3. AppliedIsKept'
    BY <1>0, <1>b, <2>1 DEF AppliedIsKept, Plan, Has
  <2>4. NotYetCreated'
    BY <1>0, <2>1 DEF NotYetCreated
  <2> QED BY <1>0, <1>1, <2>2, <2>3, <2>4
<1>9. ASSUME NEW k \in Keys, GarbageCollect(k)
      PROVE  KeptInv'
  <2>1. /\ live' = live /\ created' = created /\ report' = report /\ pos' = pos /\ cur' = cur
    BY <1>9 DEF GarbageCollect
  <2>2. PassHas'
    <3> SUFFICES ASSUME cur \in live, Apart(cur), NEW i \in 1..(pos - 1),
                        Applies(cur, Order[i])
                 PROVE  store'[Key(cur, Order[i])] = [inst |-> cur, part |-> Order[i]]
      BY <1>0, <1>b, <2>1 DEF PassHas, Has
    <3>1. i \in 1..12 /\ Has(cur, Order[i])
      BY <1>0 DEF PassHas
    <3> QED BY <3>1, <1>2, <1>3
  <2>3. AppliedIsKept'
    BY <1>0, <1>2, <1>b, <2>1 DEF AppliedIsKept, Plan, Has
  <2>4. NotYetCreated'
    BY <2>1 DEF NotYetCreated
  <2> QED BY <1>0, <1>1, <2>2, <2>3, <2>4
<1>10. CASE UNCHANGED vars
  <2>1. /\ live' = live /\ created' = created /\ store' = store /\ report' = report
        /\ pos' = pos /\ cur' = cur
    BY <1>10 DEF vars
  <2>2. PassHas' /\ NotYetCreated'
    BY <1>0, <1>b, <2>1 DEF PassHas, Has, NotYetCreated
  <2>3. AppliedIsKept'
    BY <1>0, <1>b, <2>1 DEF AppliedIsKept, Plan, Has
  <2> QED BY <1>0, <1>1, <2>2, <2>3
<1> QED BY <1>4, <1>5, <1>6, <1>7, <1>8, <1>9, <1>10 DEF Next, PassStep

(***************************************************************************)
(* Any number of instances, of any names, share a namespace: one that a    *)
(* pass has gone through for keeps all of its objects, whatever happens to *)
(* the others, unless it and another are N and N-valkey.                   *)
(***************************************************************************)
THEOREM SeparateInstancesKeep == Spec => []AppliedIsKept
<1>1. Init => KeptInv
  <2> SUFFICES ASSUME Init PROVE KeptInv
    OBVIOUS
  <2>1. TypeOK
    BY TypeInit
  <2>2. OwnKeys
    BY NameFacts DEF Init, OwnKeys
  <2>3. cur \notin live /\ \A m \in live : report[m] = ""
    BY NamesAssumption DEF Init
  <2>4. PassHas /\ NotYetCreated
    BY <2>3, NameFacts DEF Init, PassHas, NotYetCreated
  <2> QED BY <2>1, <2>2, <2>3, <2>4 DEF KeptInv, AppliedIsKept
<1>2. KeptInv /\ [Next]_vars => KeptInv'
  BY KeptInductive
<1>3. KeptInv => AppliedIsKept
  BY DEF KeptInv
<1> QED BY <1>1, <1>2, <1>3, PTL DEF Spec

-----------------------------------------------------------------------------
(***************************************************************************)
(* Losses.  A live instance keeps an object, or is queued by the step that *)
(* takes it: what another's pass can take is owned, by KeysMeet, and a     *)
(* change of an owned object is an event for the owner it had.             *)
(***************************************************************************)
LEMMA LossIsTold ==
  ASSUME TypeOK, [Next]_vars, NEW m \in live, NEW c \in Parts, Has(m, c)
  PROVE  (Has(m, c))' \/ m \in queue'
<1>0. /\ m \in Names /\ <<>> \notin Names
      /\ Key(m, c) \in Keys /\ store \in [Keys -> Object \cup {Absent}]
      /\ store[Key(m, c)] = [inst |-> m, part |-> c]
  BY NameFacts DEF TypeOK, Has
<1>1. CASE store' = store
  BY <1>1 DEF Has
<1>2. CASE /\ Apply /\ cur \in Names /\ Order[pos] \in Parts
           /\ store' = [store EXCEPT ![Key(cur, Order[pos])] =
                          [inst |-> cur, part |-> Order[pos]]]
  <2> DEFINE o == Order[pos]
             k == Key(cur, o)
  <2>0. /\ cur \in Names /\ o \in Parts /\ k \in Keys
        /\ store' = [store EXCEPT ![k] = [inst |-> cur, part |-> o]]
    BY <1>2, NameFacts
  <2>1. CASE Key(m, c) # k
    <3>1. store'[Key(m, c)] = store[Key(m, c)]
      BY <2>0, <2>1, <1>0
    <3> QED BY <3>1 DEF Has
  <2>2. CASE Key(m, c) = k /\ m = cur /\ c = o
    <3>1. store'[k] = [inst |-> cur, part |-> o]
      BY <2>0, <1>0
    <3> QED BY <2>2, <3>1 DEF Has
  <2>3. CASE Key(m, c) = k /\ ~(m = cur /\ c = o)
    <3>1. m \in Seq(Segments) /\ cur \in Seq(Segments)
      BY <1>0, <2>0, NameFacts
    <3>2. Meet(m, c, cur, o) \/ Meet(cur, o, m, c)
      BY <2>0, <2>3, <3>1, KeysMeet
    <3>3. o \in Owned /\ o \notin Secrets
      BY <3>2 DEF Meet, Owned, ValkeyParts, Workload, Secrets
    <3>4. m # cur
      BY <2>0, <2>3, <1>0, KeysDistinct
    <3>5. store[k] = [inst |-> m, part |-> c] /\ store[k] # [inst |-> cur, part |-> o]
      BY <1>0, <2>3, <3>4
    <3>6. queue' = queue \cup OwnersOf([inst |-> cur, part |-> o], store[k])
      BY <1>2, <3>3, <3>5 DEF Apply
    <3>7. m \in OwnersOf([inst |-> cur, part |-> o], store[k])
      BY <1>0, <3>5 DEF OwnersOf
    <3> QED BY <3>6, <3>7
  <2> QED BY <2>1, <2>2, <2>3
<1>3. CASE \E k \in Keys : /\ store[k].inst \notin live
                          /\ store' = [store EXCEPT ![k] = Absent]
  <2>1. PICK k \in Keys : /\ store[k].inst \notin live
                         /\ store' = [store EXCEPT ![k] = Absent]
    BY <1>3
  <2>2. k # Key(m, c)
    BY <1>0, <2>1
  <2>3. store'[Key(m, c)] = store[Key(m, c)]
    BY <1>0, <2>1, <2>2
  <2> QED BY <2>3 DEF Has
<1> QED BY <1>1, <1>2, <1>3, StoreSteps

\* What a pass has applied so far is still there, unless its instance has been
\* queued again.
PassRests ==
  cur \in live /\ cur \notin queue =>
    \A i \in 1..(pos - 1) : Applies(cur, Order[i]) => Has(cur, Order[i])

LEMMA RestingInductive ==
  ASSUME TypeOK, TypeOK', DataNeverShared, PassRests, RestingIsKept, [Next]_vars
  PROVE  PassRests' /\ RestingIsKept'
<1>0. /\ live \subseteq Names /\ cur \in Names \cup {<<>>} /\ pos \in 1..13
      /\ report \in [Names -> Reports] /\ live' \subseteq Names /\ <<>> \notin Names
      /\ \A i \in 1..12 : Order[i] \in Parts
  BY NameFacts DEF TypeOK
<1>1. \A m \in live, c \in Parts :
        Has(m, c) /\ m \notin queue' => store'[Key(m, c)] = [inst |-> m, part |-> c]
  BY LossIsTold DEF Has
<1>2. ASSUME /\ live' \subseteq live /\ cur' = cur /\ queue \subseteq queue'
             /\ \A m \in live' : report'[m] = report[m]
      PROVE  RestingIsKept'
  BY <1>1, <1>2 DEF RestingIsKept, AtRest, Plan, Has
<1>3. ASSUME live' \subseteq live, cur' = cur, pos' = pos, queue \subseteq queue'
      PROVE  PassRests'
  <2> SUFFICES ASSUME cur \in live, cur \notin queue', NEW i \in 1..(pos - 1),
                      Applies(cur, Order[i])
               PROVE  store'[Key(cur, Order[i])] = [inst |-> cur, part |-> Order[i]]
    BY <1>3 DEF PassRests, Has
  <2>1. i \in 1..12 /\ Has(cur, Order[i])
    BY <1>0, <1>3 DEF PassRests
  <2> QED BY <2>1, <1>0, <1>1
<1>4. CASE Skip \/ Apply
  <2>1. /\ cur' = cur /\ live' = live /\ report' = report
        /\ pos' = pos + 1 /\ pos \in 1..12 /\ cur \in Names
    BY <1>0, <1>4, NameFacts DEF Skip, Apply
  <2>2. queue \subseteq queue'
    BY <1>4 DEF Skip, Apply
  <2>3. Applies(cur, Order[pos]) =>
          store'[Key(cur, Order[pos])] = [inst |-> cur, part |-> Order[pos]]
    <3>1. CASE Skip
      BY <3>1 DEF Skip
    <3>2. CASE Apply
      <4> DEFINE k == Key(cur, Order[pos])
      <4>1. k \in Keys /\ store \in [Keys -> Object \cup {Absent}]
        BY <1>0, <2>1, NameFacts DEF TypeOK
      <4>2. CASE store[k] # Absent /\ Order[pos] \in Secrets
        <5>1. Has(cur, Order[pos]) /\ store' = store
          BY <3>2, <4>2, <1>0, <2>1 DEF Apply, DataNeverShared, DataParts
        <5> QED BY <5>1 DEF Has
      <4>3. CASE ~(store[k] # Absent /\ Order[pos] \in Secrets)
        <5>1. store' = [store EXCEPT ![k] = [inst |-> cur, part |-> Order[pos]]]
          BY <3>2, <4>3 DEF Apply
        <5> QED BY <4>1, <5>1
      <4> QED BY <4>2, <4>3
    <3> QED BY <1>4, <3>1, <3>2
  <2>4. PassRests'
    <3> SUFFICES ASSUME cur \in live, cur \notin queue', NEW i \in 1..pos,
                        Applies(cur, Order[i])
                 PROVE  store'[Key(cur, Order[i])] = [inst |-> cur, part |-> Order[i]]
      BY <2>1 DEF PassRests, Has
    <3>1. CASE i = pos
      BY <3>1, <2>3
    <3>2. CASE i # pos
      <4>1. i \in 1..(pos - 1) /\ i \in 1..12
        BY <3>2, <2>1
      <4>2. Has(cur, Order[i])
        BY <4>1, <2>2 DEF PassRests
      <4> QED BY <4>1, <4>2, <1>0, <1>1
    <3> QED BY <3>1, <3>2
  <2>5. RestingIsKept'
    BY <1>2, <2>1, <2>2
  <2> QED BY <2>4, <2>5
<1>5. CASE Refuse \/ PatchStatus
  <2>1. PICK r \in Reports : Finish(r)
    BY <1>5 DEF Refuse, PatchStatus, Reports
  <2>2. /\ cur' = <<>> /\ live' = live /\ cur \in Names /\ store' = store
        /\ queue \subseteq queue'
        /\ report' = IF cur \in live THEN [report EXCEPT ![cur] = r] ELSE report
    BY <1>0, <1>5, <2>1 DEF Finish, Refuse, PatchStatus
  <2>3. PassRests'
    BY <1>0, <2>2 DEF PassRests
  <2>4. ASSUME NEW m \in live', m \notin queue', report'[m] = "applied", NEW c \in Plan(m)
        PROVE  Has(m, c)
    <3>1. CASE m = cur
      <4>1. PatchStatus
        BY <1>5, <2>4, <3>1 DEF Refuse
      <4>2. pos = 13
        BY <1>0, <4>1, NameFacts DEF PatchStatus
      <4>3. PICK i \in 1..12 : Order[i] = c
        BY PartsInOrder DEF Plan
      <4> QED BY <2>2, <2>4, <3>1, <4>2, <4>3 DEF PassRests, Plan
    <3>2. CASE m # cur
      <4>1. report[m] = "applied" /\ m \in live /\ m \notin queue
        BY <1>0, <2>2, <2>4, <3>2
      <4> QED BY <2>4, <3>2, <4>1 DEF RestingIsKept, AtRest
    <3> QED BY <3>1, <3>2
  <2>5. RestingIsKept'
    BY <2>2, <2>4 DEF RestingIsKept, AtRest, Plan, Has, Applies
  <2> QED BY <2>3, <2>5
<1>6. ASSUME NEW x \in Names, Begin(x)
      PROVE  PassRests' /\ RestingIsKept'
  <2>1. /\ live' = live /\ store' = store /\ report' = report /\ pos' = 1
        /\ cur = <<>> /\ queue' = queue \ {x} /\ (x \in live => cur' = x)
    BY <1>6 DEF Begin
  <2>2. PassRests'
    BY <2>1 DEF PassRests
  <2>3. \A m \in live : m \notin queue' /\ cur' # m => m \notin queue /\ cur # m
    BY <1>0, <2>1
  <2>4. RestingIsKept'
    BY <2>1, <2>3 DEF RestingIsKept, AtRest, Plan, Has
  <2> QED BY <2>2, <2>4
<1>7. ASSUME NEW x \in Names, CreateInstance(x)
      PROVE  PassRests' /\ RestingIsKept'
  <2>1. /\ live' = live \cup {x} /\ store' = store /\ report' = report
        /\ pos' = pos /\ cur' = cur /\ queue' = queue \cup {x}
    BY <1>7 DEF CreateInstance
  <2>2. PassRests'
    BY <2>1 DEF PassRests, Has
  <2>3. RestingIsKept'
    BY <2>1 DEF RestingIsKept, AtRest, Plan, Has
  <2> QED BY <2>2, <2>3
<1>8. ASSUME NEW x \in Names, DeleteInstance(x)
      PROVE  PassRests' /\ RestingIsKept'
  <2>1. /\ live' = live \ {x} /\ pos' = pos /\ cur' = cur /\ queue' = queue \cup {x}
        /\ report' = [report EXCEPT ![x] = ""]
    BY <1>8 DEF DeleteInstance
  <2>2. \A m \in live' : report'[m] = report[m]
    BY <1>0, <2>1
  <2> QED BY <2>1, <2>2, <1>2, <1>3
<1>9. ASSUME NEW k \in Keys, GarbageCollect(k)
      PROVE  PassRests' /\ RestingIsKept'
  BY <1>9, <1>2, <1>3 DEF GarbageCollect
<1>10. CASE UNCHANGED vars
  BY <1>10, <1>2, <1>3 DEF vars
<1> QED BY <1>4, <1>5, <1>6, <1>7, <1>8, <1>9, <1>10 DEF Next, PassStep

(***************************************************************************)
(* Any number of instances, of any names, colliding ones included: one     *)
(* that is reported applied and has no pass to come or under way has all   *)
(* of its objects.                                                         *)
(***************************************************************************)
THEOREM LossesAreNotSilent == Spec => []RestingIsKept
<1>1. Init => PassRests /\ RestingIsKept
  BY DEF Init, PassRests, RestingIsKept, AtRest
<1>2. /\ TypeOK /\ TypeOK' /\ DataNeverShared /\ PassRests /\ RestingIsKept /\ [Next]_vars
      => PassRests' /\ RestingIsKept'
  BY RestingInductive
<1> QED BY <1>1, <1>2, NamespaceTypeCorrect, DataSeparate, PTL DEF Spec

-----------------------------------------------------------------------------
(***************************************************************************)
(* Lengths.  No part that precedes the position of a pass was refused.     *)
(***************************************************************************)
PassFits ==
  cur # <<>> => \A i \in 1..(pos - 1) : Applies(cur, Order[i]) => ~TooLong(cur, Order[i])

LEMMA LengthFacts ==
  ASSUME NEW m \in Names
  PROVE  /\ \A c \in Parts : Applies(m, c) /\ TooLong(m, c) => Width[m] > LongestName(m)
         /\ /\ ~TooLong(m, "service")
            /\ Applies(m, "valkey-service") => ~TooLong(m, "valkey-service")
            => Width[m] <= LongestName(m)
         /\ Applies(m, "service")
<1>1. Width[m] \in Nat
  BY NamesAssumption
<1>2. ASSUME NEW c \in Parts, Applies(m, c), TooLong(m, c)
      PROVE  Width[m] > LongestName(m)
  <2>1. SuffixWidth(c) \in 0..11
    BY DEF SuffixWidth, Parts, ValkeyParts, Workload
  <2>2. Kind(c) = "Service" => c = "service" \/ c = "valkey-service"
    BY DEF Kind, Parts, Secrets, VolumeNames
  <2>3. SuffixWidth("service") = 0 /\ SuffixWidth("valkey-service") = 7
    BY DEF SuffixWidth, ValkeyParts, Workload
  <2>4. c = "valkey-service" => IsManaged(SpecOf[m])
    BY <1>2 DEF Applies, ValkeyParts
  <2> QED BY <1>1, <1>2, <2>1, <2>2, <2>3, <2>4 DEF TooLong, LongestName, MaxLabel, MaxSubname
<1>3. ASSUME ~TooLong(m, "service"),
             Applies(m, "valkey-service") => ~TooLong(m, "valkey-service")
      PROVE  Width[m] <= LongestName(m)
  <2>1. IsManaged(SpecOf[m]) => Applies(m, "valkey-service")
    BY DEF Applies, Secrets, ValkeyParts
  <2>2. Kind("valkey-service") = "Service" /\ SuffixWidth("valkey-service") = 7
    BY DEF Kind, Secrets, VolumeNames, SuffixWidth, ValkeyParts, Workload
  <2> QED BY <1>1, <1>3, <2>1, <2>2 DEF TooLong, LongestName, MaxLabel, MaxSubname
<1>4. Applies(m, "service")
  BY DEF Applies, Secrets, ValkeyParts
<1> QED BY <1>2, <1>3, <1>4

(***************************************************************************)
(* For every name: a pass is refused for length only above 56 characters   *)
(* (63 without a managed cache), and goes through only up to there.        *)
(***************************************************************************)
THEOREM LengthLimit == Spec => []LengthBoundary
<1>1. Init => PassFits /\ LengthBoundary
  BY DEF Init, PassFits, LengthBoundary
<1>2. TypeOK /\ PassFits /\ LengthBoundary /\ [Next]_vars => (PassFits /\ LengthBoundary)'
  <2> SUFFICES ASSUME TypeOK, PassFits, LengthBoundary, [Next]_vars
               PROVE  (PassFits /\ LengthBoundary)'
    OBVIOUS
  <2>0. /\ cur \in Names \cup {<<>>} /\ pos \in 1..13 /\ report \in [Names -> Reports]
        /\ <<>> \notin Names /\ \A i \in 1..12 : Order[i] \in Parts
    BY NameFacts DEF TypeOK
  <2>1. CASE Skip \/ Apply
    <3>1. /\ cur' = cur /\ report' = report /\ pos' = pos + 1
          /\ Applies(cur, Order[pos]) => ~TooLong(cur, Order[pos])
      BY <2>1 DEF Skip, Apply
    <3>2. ASSUME cur # <<>>, NEW i \in 1..pos, Applies(cur, Order[i])
          PROVE  ~TooLong(cur, Order[i])
      <4>1. i = pos \/ i \in 1..(pos - 1)
        BY <2>0
      <4> QED BY <3>1, <3>2, <4>1 DEF PassFits
    <3>3. PassFits'
      <4>1. \A i \in 1..(pos' - 1) : i \in 1..pos
        BY <2>0, <3>1
      <4> QED BY <3>1, <3>2, <4>1 DEF PassFits, Applies, TooLong
    <3> QED BY <3>1, <3>3 DEF LengthBoundary, LongestName
  <2>2. CASE Refuse
    <3>1. cur \in Names /\ pos \in 1..12 /\ cur' = <<>>
      BY <2>0, <2>2, NameFacts DEF Refuse, Finish
    <3>2. \/ report' = report
          \/ report' = [report EXCEPT ![cur] = "conflict"]
          \/ report' = [report EXCEPT ![cur] = "too-long"] /\ Width[cur] > LongestName(cur)
      <4>1. TooLong(cur, Order[pos]) => Width[cur] > LongestName(cur)
        BY <2>0, <2>2, <3>1, LengthFacts DEF Refuse
      <4> QED BY <2>2, <4>1 DEF Refuse, Finish
    <3>3. LengthBoundary'
      BY <2>0, <3>1, <3>2 DEF LengthBoundary, LongestName
    <3> QED BY <3>1, <3>3 DEF PassFits
  <2>3. CASE PatchStatus
    <3>1. cur \in Names /\ pos = 13 /\ cur' = <<>>
          /\ report' \in {report, [report EXCEPT ![cur] = "applied"]}
      BY <2>0, <2>3, NameFacts DEF PatchStatus, Finish
    <3>2. Order[11] = "service" /\ Order[9] = "valkey-service"
      BY DEF Order
    <3>3. 11 \in 1..(pos - 1) /\ 9 \in 1..(pos - 1)
      BY <3>1
    <3>4. /\ ~TooLong(cur, "service")
          /\ Applies(cur, "valkey-service") => ~TooLong(cur, "valkey-service")
      BY <2>0, <3>1, <3>2, <3>3, LengthFacts DEF PassFits
    <3>5. Width[cur] <= LongestName(cur)
      BY <3>1, <3>4, LengthFacts
    <3>6. LengthBoundary'
      BY <2>0, <3>1, <3>5 DEF LengthBoundary, LongestName
    <3> QED BY <3>1, <3>6 DEF PassFits
  <2>4. ASSUME NEW m \in Names, Begin(m)
        PROVE  (PassFits /\ LengthBoundary)'
    <3>1. pos' = 1 /\ report' = report
      BY <2>4 DEF Begin
    <3> QED BY <3>1 DEF PassFits, LengthBoundary, LongestName
  <2>5. ASSUME NEW m \in Names, CreateInstance(m) \/ DeleteInstance(m)
        PROVE  (PassFits /\ LengthBoundary)'
    <3>1. cur' = cur /\ pos' = pos /\ report' \in {report, [report EXCEPT ![m] = ""]}
      BY <2>5 DEF CreateInstance, DeleteInstance
    <3>2. PassFits'
      BY <3>1 DEF PassFits, Applies, TooLong
    <3> QED BY <2>0, <3>1, <3>2 DEF LengthBoundary, LongestName
  <2>6. CASE UNCHANGED vars \/ \E k \in Keys : GarbageCollect(k)
    <3>1. cur' = cur /\ pos' = pos /\ report' = report
      BY <2>6 DEF vars, GarbageCollect
    <3>2. PassFits'
      BY <3>1 DEF PassFits, Applies, TooLong
    <3> QED BY <3>1, <3>2 DEF LengthBoundary, LongestName
  <2> QED BY <2>1, <2>2, <2>3, <2>4, <2>5, <2>6 DEF Next, PassStep
<1> QED BY <1>1, <1>2, NamespaceTypeCorrect, PTL DEF Spec
=============================================================================
