--------------------------- MODULE DeletionPolicy ---------------------------
(***************************************************************************)
(* What spec.deletionPolicy promises a user about the documents, the       *)
(* database and the generated credentials kept under one instance name,    *)
(* with no operator in sight: README and the comment on type               *)
(* DeletionPolicy in api/v1alpha1.                                         *)
(*                                                                         *)
(* Instances of the name come and go.  Data is provided, handed from one   *)
(* instance to the next, grown, and discarded only as the property of an   *)
(* instance that asked for Delete and is gone or going.  Reconciler        *)
(* implements this (ImplementsDeletionPolicy there).                       *)
(***************************************************************************)
EXTENDS Naturals

CONSTANTS
  Data,         \* the objects the policy governs
  Claims,       \* the volumes among them, which have a size
  Secrets,      \* the generated secrets among them, which have a value
  Keys,         \* the values a secret may have
  Droppable     \* what a user may delete by hand

VARIABLES
  live,     \* UID of the instance, 0 when there is none
  leaving,  \* the instance is being deleted
  asked,    \* UIDs of instances that have asked for Delete
  held,     \* the data that exists
  owner,    \* whose property it is, 0 for nobody's
  key,      \* the value of a secret
  size      \* the size of a volume

nameVars == <<live, leaving, asked>>
dataVars == <<held, owner, key, size>>
vars == <<nameVars, dataVars>>

Init ==
  /\ live = 0 /\ leaving = FALSE /\ asked = {} /\ held = {}
  /\ owner = [d \in Data |-> 0]
  /\ key = [s \in Secrets |-> {}] /\ size = [v \in Claims |-> 0]

\* A new instance is nobody who has asked before, and owns nothing yet.
Create ==
  /\ live = 0 /\ live' # 0 /\ live' \notin asked
  /\ \A d \in Data : owner[d] # live'
  /\ asked' = asked \/ asked' = asked \cup {live'}
  /\ UNCHANGED <<leaving, dataVars>>

Ask ==
  /\ live # 0 /\ asked' = asked \cup {live}
  /\ UNCHANGED <<live, leaving, dataVars>>

Leave ==
  /\ live # 0 /\ leaving' = TRUE
  /\ UNCHANGED <<live, asked, dataVars>>

Go ==
  /\ live # 0 /\ live' = 0 /\ leaving' = FALSE
  /\ UNCHANGED <<asked, dataVars>>

\* Data other than d stays as it is.
OnlyConcerns(d) ==
  /\ owner' \in [Data -> Nat] /\ \A e \in Data \ {d} : owner'[e] = owner[e]
  /\ key' \in [Secrets -> SUBSET Keys]
  /\ \A s \in Secrets \ {d} : key'[s] = key[s]
  /\ size' \in [Claims -> Nat] /\ \A v \in Claims \ {d} : size'[v] = size[v]
  /\ UNCHANGED nameVars

\* d is provided, or taken over as it is found; either way it is nobody's, or the
\* property of an instance that asked for Delete.
Provide(d) ==
  /\ held' = held \cup {d}
  /\ OnlyConcerns(d)
  /\ owner'[d] \in asked \cup {0}
  /\ d \in held \cap Secrets => key'[d] = key[d]
  /\ d \in held \cap Claims => size'[d] >= size[d]

Lose(d) ==
  /\ d \in held /\ held' = held \ {d}
  /\ OnlyConcerns(d)
  /\ owner'[d] = 0

Discard(d) ==
  /\ owner[d] \in asked /\ (owner[d] # live \/ leaving)
  /\ Lose(d)

Next ==
  \/ Create \/ Ask \/ Leave \/ Go
  \/ \E d \in Data : Provide(d) \/ Discard(d)
  \/ \E d \in Droppable : Lose(d)

Spec == Init /\ [][Next]_vars
=============================================================================
