--------------------------- MODULE SharedNamespace ---------------------------
(***************************************************************************)
(* Several PaperlessInstances in one namespace, under one operator.        *)
(*                                                                         *)
(* Reconciler follows one instance through everything that may happen to   *)
(* it.  Here several share the API server, and the objects are told apart  *)
(* by what the API server tells them apart by: kind and name.  Every name  *)
(* is derived from the instance's (internal/resources/names.go), every     *)
(* write is forced under one field manager, and one worker runs the passes *)
(* one after the other (controller-runtime's default).                     *)
(*                                                                         *)
(* A name is the sequence of its segments between dashes, so derivedName,  *)
(* which joins with a dash, is concatenation; widths count characters.     *)
(***************************************************************************)
EXTENDS PaperlessSpec, Sequences

CONSTANTS
  Segments,   \* what stands between the dashes of a name
  Names,      \* the names of the instances
  Lasting,    \* those that exist when the operator starts and stay (bound)
  Width,      \* the number of characters of each name
  SpecOf      \* the spec of each

ASSUME NamesAssumption ==
  /\ {"secret", "key", "admin", "data", "media", "consume", "export", "db",
      "valkey"} \subseteq Segments
  /\ Names \subseteq Seq(Segments) \ {<<>>}
  /\ Lasting \subseteq Names
  /\ Width \in [Names -> Nat]
  /\ SpecOf \in [Names -> PaperlessInstanceSpec]

Parts ==
  {"secret-key", "admin", "data", "media", "consume", "export", "db",
   "valkey-deployment", "valkey-service", "valkey-pvc", "service", "deployment"}

\* The order of reconcileInstance's steps, and of the writes of each.
Order ==
  <<"secret-key", "admin", "data", "media", "consume", "export", "db",
    "valkey-deployment", "valkey-service", "valkey-pvc", "service", "deployment">>

Kind(c) ==
  CASE c \in Secrets                               -> "Secret"
    [] c \in VolumeNames \cup {"valkey-pvc"}       -> "PersistentVolumeClaim"
    [] c = "db"                                    -> "Cluster"
    [] c \in {"valkey-deployment", "deployment"}   -> "Deployment"
    [] c \in {"valkey-service", "service"}         -> "Service"

ValkeyParts == {"valkey-deployment", "valkey-service", "valkey-pvc"}
Workload    == {"service", "deployment"}

\* The parts with a controller owner reference: applyOwned.
Owned == ValkeyParts \cup Workload

\* mutation: the cache's claim is named after its volume
SuffixValkeyData(c) ==
  CASE c = "secret-key"   -> <<"secret", "key">>
    [] c = "valkey-pvc"   -> <<"valkey", "data">>
    [] c \in ValkeyParts  -> <<"valkey">>
    [] c \in Workload     -> <<>>
    [] OTHER              -> <<c>>

Suffix(c) ==
  CASE c = "secret-key"   -> <<"secret", "key">>
    [] c \in ValkeyParts  -> <<"valkey">>
    [] c \in Workload     -> <<>>
    [] OTHER              -> <<c>>

derivedName(m, c) == m \o Suffix(c)

Key(m, c) == [kind |-> Kind(c), name |-> derivedName(m, c)]

\* mutation: the dash is not counted
SuffixWidthNoDash(c) ==
  CASE c = "secret-key"                                     -> 10
    [] c \in ValkeyParts \cup {"export"}                    -> 6
    [] c \in Workload                                       -> 0
    [] c = "db"                                             -> 2
    [] c = "data"                                           -> 4
    [] c \in {"admin", "media"}                             -> 5
    [] c = "consume"                                        -> 7

SuffixWidth(c) ==
  CASE c = "secret-key"                   -> 11
    [] c \in ValkeyParts \cup {"export"}  -> 7
    [] c \in Workload                     -> 0
    [] c = "db"                           -> 3
    [] c = "data"                         -> 5
    [] c \in {"admin", "media"}           -> 6
    [] c = "consume"                      -> 8

Applies(m, c) ==
  /\ c \in Secrets => Generates(SpecOf[m], c)
  /\ c = "db" => ~IsExternal(SpecOf[m])
  /\ c \in ValkeyParts => IsManaged(SpecOf[m])

Plan(m) == {c \in Parts : Applies(m, c)}

Keys == {Key(m, c) : m \in Names, c \in Parts}

\* An object of the API server: the instance its labels, its selector and its
\* owner reference name, and as which part.
Absent == [inst |-> <<>>, part |-> ""]
Object == [inst : Names, part : Parts]

VARIABLES
  live,       \* instances that exist
  created,    \* instances that have existed (bound: each is created once)
  store,      \* the objects
  queue,      \* names in the work queue
  cur, pos,   \* the pass in flight: its instance, <<>> for none, and its position
  report      \* what the last pass over each instance reported

vars == <<live, created, store, queue, cur, pos, report>>

Reports == {"", "applied", "too-long", "conflict"}

\* The instances the informers list at the start are queued.
Init ==
  /\ live = Lasting /\ created = Lasting /\ queue = Lasting
  /\ store = [k \in Keys |-> Absent]
  /\ cur = <<>> /\ pos = 1
  /\ report = [m \in Names |-> ""]

-----------------------------------------------------------------------------
(***************************************************************************)
(* The API server's limits: a label value (commonLabels puts the bare name *)
(* in one) and a Service's name have at most 63 characters, other names    *)
(* 253.  validateName checks the last for Secrets and the Cluster before   *)
(* they are sent.                                                          *)
(***************************************************************************)
MaxLabel   == 63
MaxSubname == 253

TooLong(m, c) ==
  \/ Width[m] > MaxLabel
  \/ Kind(c) = "Service" /\ Width[m] + SuffixWidth(c) > MaxLabel
  \/ Width[m] + SuffixWidth(c) > MaxSubname

\* A Deployment's selector, which is its labels, cannot be changed.
Labels(o) == <<o.inst, IF o.part \in ValkeyParts THEN "cache" ELSE "server">>

SelectorChanges(m, c) ==
  LET o == store[Key(m, c)] IN
    /\ Kind(c) = "Deployment" /\ o # Absent
    /\ Labels(o) # Labels([inst |-> m, part |-> c])

-----------------------------------------------------------------------------
Begin(m) ==
  /\ cur = <<>> /\ m \in queue
  /\ queue' = queue \ {m}
  /\ IF m \in live THEN cur' = m ELSE UNCHANGED cur
  /\ pos' = 1
  /\ UNCHANGED <<live, created, store, report>>

\* The pass ends; an error requeues the name.
Finish(result) ==
  /\ cur' = <<>> /\ pos' = 1
  /\ report' = IF cur \in live THEN [report EXCEPT ![cur] = result] ELSE report
  /\ UNCHANGED <<live, created>>

Skip ==
  /\ cur # <<>> /\ pos <= Len(Order)
  /\ ~Applies(cur, Order[pos])
  /\ pos' = pos + 1
  /\ UNCHANGED <<live, created, store, queue, cur, report>>

\* mutation: an object that did not exist had an owner
OwnersOfBoth(new, old) == {new.inst, old.inst}

\* mutation: Services are not watched
OwnersOfNoService(new, old) ==
  IF Kind(new.part) = "Service" THEN {} ELSE {new.inst, old.inst} \ {<<>>}

\* The instances an event for an owned object queues.
OwnersOf(new, old) == {new.inst, old.inst} \ {<<>>}

\* ensureGeneratedSecret leaves a Secret that exists; everything else is
\* applied by force.  A change of an owned object is an event for the owner
\* it had and the one it has.
Apply ==
  /\ cur # <<>> /\ pos <= Len(Order)
  /\ LET c == Order[pos]
         k == Key(cur, c)
         new == [inst |-> cur, part |-> c]
     IN  /\ Applies(cur, c) /\ ~TooLong(cur, c) /\ ~SelectorChanges(cur, c)
         /\ IF c \in Secrets /\ store[k] # Absent
            THEN UNCHANGED <<store, queue>>
            ELSE /\ store' = [store EXCEPT ![k] = new]
                 /\ queue' = IF c \in Owned /\ store[k] # new
                             THEN queue \cup OwnersOf(new, store[k])
                             ELSE queue
  /\ pos' = pos + 1
  /\ UNCHANGED <<live, created, cur, report>>

\* mutation: the error is swallowed
RefuseSilently ==
  /\ cur # <<>> /\ pos <= Len(Order)
  /\ Applies(cur, Order[pos]) /\ TooLong(cur, Order[pos])
  /\ Finish("applied")
  /\ UNCHANGED <<queue, store>>

\* mutation: the pass is tried again at once, without the queue
RefuseInPlace ==
  /\ cur # <<>> /\ pos <= Len(Order)
  /\ Applies(cur, Order[pos]) /\ TooLong(cur, Order[pos])
  /\ pos' = 1
  /\ report' = IF cur \in live THEN [report EXCEPT ![cur] = "too-long"] ELSE report
  /\ UNCHANGED <<live, created, store, queue, cur>>

Refuse ==
  /\ cur # <<>> /\ pos <= Len(Order)
  /\ Applies(cur, Order[pos])
  /\ \/ TooLong(cur, Order[pos]) /\ Finish("too-long")
     \/ ~TooLong(cur, Order[pos]) /\ SelectorChanges(cur, Order[pos]) /\ Finish("conflict")
  /\ queue' = queue \cup {cur}
  /\ UNCHANGED store

\* A status that changed is an event for the instance.  The status of an
\* instance that is gone cannot be patched: an error.
PatchStatus ==
  /\ cur # <<>> /\ pos > Len(Order)
  /\ Finish("applied")
  /\ queue' = IF cur \notin live \/ report[cur] # "applied" THEN queue \cup {cur} ELSE queue
  /\ UNCHANGED store

CreateInstance(m) ==
  /\ m \notin created
  /\ created' = created \cup {m} /\ live' = live \cup {m}
  /\ queue' = queue \cup {m}
  /\ UNCHANGED <<store, cur, pos, report>>

DeleteInstance(m) ==
  /\ m \in live \ Lasting
  /\ live' = live \ {m}
  /\ queue' = queue \cup {m}
  /\ report' = [report EXCEPT ![m] = ""]
  /\ UNCHANGED <<created, store, cur, pos>>

GarbageCollect(k) ==
  /\ store[k] # Absent /\ store[k].part \in Owned /\ store[k].inst \notin live
  /\ store' = [store EXCEPT ![k] = Absent]
  /\ queue' = queue \cup {store[k].inst}
  /\ UNCHANGED <<live, created, cur, pos, report>>

PassStep == Skip \/ Apply \/ Refuse \/ PatchStatus

Next ==
  \/ PassStep
  \/ \E m \in Names : Begin(m) \/ CreateInstance(m) \/ DeleteInstance(m)
  \/ \E k \in Keys : GarbageCollect(k)

Spec == Init /\ [][Next]_vars

(***************************************************************************)
(* Fairness: the worker finishes its pass, the queue hands every name out  *)
(* in its turn (SF: other names' passes come between), and the garbage     *)
(* collector does its work.                                                *)
(***************************************************************************)
FairSpec ==
  /\ Spec
  /\ WF_vars(PassStep)
  /\ \A m \in Names : SF_vars(Begin(m))
  /\ \A k \in Keys : WF_vars(GarbageCollect(k))

-----------------------------------------------------------------------------
(***************************************************************************)
(* Every variable has its type.                                            *)
(***************************************************************************)
TypeOK ==
  /\ live \subseteq created /\ created \subseteq Names /\ queue \subseteq Names
  /\ store \in [Keys -> Object \cup {Absent}]
  /\ cur \in Names \cup {<<>>} /\ pos \in 1..(Len(Order) + 1)
  /\ report \in [Names -> Reports]

\* The name of one is not the name of the other's Valkey objects.
Separate(m1, m2) == m1 # m2 \o <<"valkey">> /\ m2 # m1 \o <<"valkey">>

\* No instance that was ever created is named like m's Valkey objects, nor m like
\* that one's.
Apart(m) == \A m2 \in created \ {m} : Separate(m, m2)

\* m has all that its plan says, under its own labels and owner reference.
Has(m, c) == store[Key(m, c)] = [inst |-> m, part |-> c]

(***************************************************************************)
(* An instance whose last pass went through has all of its objects as that *)
(* pass wrote them, whatever the passes over other instances, their        *)
(* deletion and the garbage collector did since.  The one exception is an  *)
(* instance named like another's Valkey objects: its Service and theirs    *)
(* are one object, which the passes take from each other by force.         *)
(***************************************************************************)
AppliedIsKept ==
  \A m \in live :
    report[m] = "applied" /\ Apart(m) => \A c \in Plan(m) : Has(m, c)

(***************************************************************************)
(* With no such exception: an instance that is reported applied and that   *)
(* the worker has no cause to look at again has all of its objects.  One   *)
(* that loses an object to another is queued by the event of its loss, so  *)
(* that a collision of names is never silent: the passes go on.            *)
(***************************************************************************)
AtRest(m) == m \notin queue /\ cur # m

RestingIsKept ==
  \A m \in live :
    AtRest(m) /\ report[m] = "applied" => \A c \in Plan(m) : Has(m, c)

(***************************************************************************)
(* The documents, the database and the credentials of one instance are     *)
(* never another's, whatever the instances are called: no claim, Secret or *)
(* Cluster name can be derived from two names, or twice from one.          *)
(***************************************************************************)
DataParts == Secrets \cup VolumeNames \cup {"db", "valkey-pvc"}

DataNeverShared ==
  \A m \in Names, c \in DataParts : store[Key(m, c)] = Absent \/ Has(m, c)

(***************************************************************************)
(* Where the limit on a name bites: a pass is refused for length exactly   *)
(* when the name, or with a managed cache the Valkey Service's, passes 63  *)
(* characters, whichever objects came before it.                           *)
(***************************************************************************)
LongestName(m) == IF IsManaged(SpecOf[m]) THEN 56 ELSE 63

LengthBoundary ==
  \A m \in Names :
    /\ report[m] = "too-long" => Width[m] > LongestName(m)
    /\ report[m] = "applied" => Width[m] <= LongestName(m)

(***************************************************************************)
(* Passes over the others, which may be refused for ever or fight over one *)
(* object for ever, do not keep an instance from being applied; and of a   *)
(* deleted instance only what Retain keeps is left.                        *)
(***************************************************************************)
AllSettle ==
  <>[]/\ \A m \in live :
            Width[m] <= LongestName(m) /\ Apart(m) => report[m] = "applied"
      /\ \A k \in Keys : store[k].part \in Owned => store[k].inst \in live
=============================================================================
