---------------------------- MODULE MCChannels ----------------------------
(* Small instances of Channels for TLC. Nothing orders the models, the channels or the names. *)
EXTENDS Channels, TLC

Symmetry == Permutations(Models) \cup Permutations(Channels) \cup Permutations(Nicks)

\* A behaviour uses several channels while every write succeeds, or one channel
\* with failing writes and with restarts.
Used(c) == gen[c] > 0 \/ ended[c] > 0 \/ live[c] # NoChannel \/ rows[c] # NoChannel
OneChannelOfFailures ==
  MaxFails - fails > 0 \/ restarts < MaxRestarts => \A c, d \in Channels : Used(c) /\ Used(d) => c = d
=============================================================================
