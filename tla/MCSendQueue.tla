--------------------------- MODULE MCSendQueue ---------------------------
(* Small instances of SendQueue for TLC. *)
EXTENDS SendQueue

\* A behaviour meets the QUITs, or the KILLs and the dead consumers with one
\* delivery less, as does a departure nothing recorded: the groups together
\* are out of TLC's reach.
Began(ts) == \E t \in ts : pc[t] # "idle"
OneGroup ==
  /\ ~(Began(Quits) /\ Began(Kills \cup Deads))
  /\ Began(Kills \cup Deads) \/ silent # {} => offered < MaxSent
=============================================================================
