-------------------------------- MODULE Pace --------------------------------
(* Flood control and the poke scheduler, one of them at a time, with what both
   promise about the pace of a conversation. *)
EXTENDS Naturals

CONSTANTS
  Clients, Penalty, MaxLead, FloodWindow, Limits, Horizon, MaxCommands,  \* of Flood
  Channels, PokeBackoffCap                                               \* of Poke

ASSUME PaceAssumption ==
  /\ Penalty \in Nat /\ MaxLead \in Nat
  /\ FloodWindow \in Nat \ {0} /\ Limits \subseteq Nat
  /\ PokeBackoffCap \in Nat \ {0}

VARIABLES
  part,  \* which of the two runs, chosen at the start
  s      \* its state

Flood == INSTANCE Flood
Poke == INSTANCE Poke

PaceInit ==
  \/ part = "flood" /\ Flood!Init
  \/ part = "poke" /\ Poke!Init

PaceNext ==
  /\ \/ part = "flood" /\ Flood!Next
     \/ part = "poke" /\ Poke!Next
  /\ UNCHANGED part

PaceSpec == PaceInit /\ [][PaceNext]_<<part, s>>
---------------------------------------------------------------------------
(* Commands are held back to their rate, in order and with one warning, a +f
   channel relays within its limit and refuses only when it did (flood.go), and a
   quiet channel is poked often enough and not too often (poke.go). *)
KeepsPace ==
  /\ part = "flood" => /\ Flood!Paced /\ Flood!KeepsOrder /\ Flood!WarnedOnce
                       /\ Flood!TwiceTheLimit /\ Flood!FullOfRecent
  /\ part = "poke" => Poke!PokedByTheCap /\ Poke!Widens
=============================================================================
