------------------------------ MODULE MCTurns ------------------------------
(* The turns of models for TLC: what one may still do (WindowGuard) and how the
   dispatch loop comes to run it (Dispatch). A behaviour takes one of the two, and the
   other stays as it began. *)
EXTENDS WindowGuard, Dispatch, TLC

Symmetry == Permutations(Windows)

VARIABLE moves  \* the module that moves

TurnsInit ==
  /\ GuardInit /\ Init
  /\ \/ moves = "guard" /\ member = {}
     \/ moves = "dispatch" /\ kinds = {"dm"}

TurnsNext ==
  /\ \/ moves = "guard" /\ GuardNext /\ UNCHANGED vars
     \/ moves = "dispatch" /\ Next /\ UNCHANGED guardVars
  /\ UNCHANGED moves

TurnsSpec == TurnsInit /\ [][TurnsNext]_<<guardVars, vars, moves>>
=============================================================================
