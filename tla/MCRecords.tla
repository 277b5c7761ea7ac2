----------------------------- MODULE MCRecords -----------------------------
(* The server's records for TLC: of channels and instances (Channels), and of what a
   client is shown of them (Replay). A behaviour takes one of the two, and the other
   stays as it began. *)
EXTENDS MCChannels, MCReplay

VARIABLE moves  \* the module that moves

RecordsInit ==
  /\ Init /\ ReplayInit
  /\ \/ moves = "channels" /\ anon = {}
     \/ moves = "replay"

RecordsNext ==
  /\ \/ moves = "channels" /\ Next /\ UNCHANGED replayVars
     \/ moves = "replay" /\ ReplayNext /\ UNCHANGED vars
  /\ UNCHANGED moves

RecordsSpec == RecordsInit /\ [][RecordsNext]_<<vars, replayVars, moves>>

Bounds == OneChannelOfFailures /\ Few
=============================================================================
