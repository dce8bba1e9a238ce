--------------------------- MODULE MCStatusClock ---------------------------
(***************************************************************************)
(* Instances of StatusClock for TLC.                                       *)
(***************************************************************************)
EXTENDS StatusClock

\* One failing step before DatabaseReady is reported, and one that leaves its
\* reason on Ready with another message.
EarlyAndDatabase == {"storage", "database"}
=============================================================================
