-------------------------------- MODULE Poke --------------------------------
(* The poke scheduler (src/internal/session/poke.go): every cycle pokes the
   channels that were quiet since the last one and whose back-off is due, while
   the loop relays messages, channels end and begin, and the schedule is changed
   under the scheduler's sleep. *)
EXTENDS Naturals, FiniteSets, FiniteSetsExt

CONSTANTS Channels, PokeBackoffCap

VARIABLE s  \* the whole state, a record:
  \* live, active: the channels there are, activeChannels
  \* backoff: pokeBackoffState, the zero value for a channel without an entry
  \* enabled: what the schedule would say now
  \* pc, planned, names, due: the scheduler, what it read of the schedule before
  \*   it slept, the channels it listed and those it still has to poke
  \* wake: pokeWake holds its one signal
  \* silent: history, cycles that passed each channel over since it last spoke, was
  \*   poked or began
  \* gap: history, what silent was at the poke before that
  \* lively: history, the channels the last cycle found active

Zero == [multiplier |-> 0, quietTicks |-> 0]
Least(a, b) == IF a < b THEN a ELSE b

Init ==
  \E live \in SUBSET Channels :
    s = [live |-> live, active |-> {}, backoff |-> [c \in Channels |-> Zero],
         enabled |-> TRUE, pc |-> "plan", planned |-> FALSE, names |-> {}, due |-> {},
         wake |-> FALSE, lively |-> {}, silent |-> [c \in Channels |-> 0],
         gap |-> [c \in Channels |-> 0]]
---------------------------------------------------------------------------
(* pokeBackoff.due *)
Multiplier(b) == IF b.multiplier = 0 THEN 1 ELSE b.multiplier
IsDue(b) == b.quietTicks + 1 >= Multiplier(b)
DueUncapped(b) ==
  IF IsDue(b) THEN [multiplier |-> Multiplier(b) * 2, quietTicks |-> 0]
  ELSE [multiplier |-> Multiplier(b), quietTicks |-> b.quietTicks + 1]
Due(b) ==
  IF IsDue(b) THEN [multiplier |-> Least(Multiplier(b) * 2, PokeBackoffCap), quietTicks |-> 0]
  ELSE [multiplier |-> Multiplier(b), quietTicks |-> b.quietTicks + 1]

(* runPokeLoop: consult the schedule, sleep, be woken or go on. *)
Plan == s.pc = "plan" /\ s' = [s EXCEPT !.pc = "sleep", !.planned = s.enabled]

Woken == s.pc = "sleep" /\ s.wake /\ s' = [s EXCEPT !.pc = "plan", !.wake = FALSE]

Elapses ==
  /\ s.pc = "sleep"
  /\ s' = [s EXCEPT !.pc = IF s.planned THEN "list" ELSE "plan"]

(* pokeQuietWindows: list the channels, which a failing store ends; take the
   active ones; then advance the others, channel by channel, and drop the
   back-off of those not listed. *)
List ==
  /\ s.pc = "list"
  /\ \/ s' = [s EXCEPT !.pc = "drain", !.names = s.live]
     \/ s' = [s EXCEPT !.pc = "plan"]

Quiet == s.names \ s.active
Backoff(c) == IF c \in Quiet THEN Due(s.backoff[c]) ELSE Zero

Drain ==
  /\ s.pc = "drain"
  /\ LET due == {c \in Quiet : IsDue(s.backoff[c])} IN
     s' = [s EXCEPT !.pc = "poke", !.due = due, !.active = {}, !.lively = s.active,
             !.backoff = [c \in Channels |-> Backoff(c)],
             !.silent = [c \in Channels |-> IF c \in due \cup s.active THEN 0
                                            ELSE IF c \in Quiet THEN @[c] + 1 ELSE @[c]],
             !.gap = [c \in Channels |-> IF c \in due THEN s.silent[c]
                                         ELSE IF c \in s.active THEN 0 ELSE @[c]]]

(* pokeWindows emits one event after another. *)
PokeOne ==
  /\ s.pc = "poke" /\ s.due # {}
  /\ \E c \in s.due : s' = [s EXCEPT !.due = @ \ {c}]
Poked == s.pc = "poke" /\ s.due = {} /\ s' = [s EXCEPT !.pc = "plan", !.names = {}]

(* The others: noteChatActivity on a message, a channel that ends or begins, a
   change of the schedule with its WakePoke. *)
Say(c) == c \in s.live \ s.active /\ s' = [s EXCEPT !.active = @ \cup {c}]
End(c) == c \in s.live /\ s' = [s EXCEPT !.live = @ \ {c}]
Begin(c) ==
  /\ c \notin s.live
  /\ s' = [s EXCEPT !.live = @ \cup {c}, !.silent[c] = 0, !.gap[c] = 0]
Configure == s' = [s EXCEPT !.enabled = ~@, !.wake = TRUE]

Next ==
  \/ Plan \/ Woken \/ Elapses \/ List \/ Drain \/ PokeOne \/ Poked \/ Configure
  \/ \E c \in Channels : Say(c) \/ End(c) \/ Begin(c)
---------------------------------------------------------------------------
(* Properties *)

(* "A channel that never replies is poked at most an eighth as often": and at
   least that often. No back-off that any history of talk, of channels that end
   and of skipped cycles leaves behind keeps a quiet channel from the next poke
   for longer than the cap. *)
PokedByTheCap == \A c \in Channels : s.silent[c] < PokeBackoffCap

(* The cadence only widens while a channel stays quiet: it is not poked sooner
   after a poke than that one came after its own. And "a channel that just proved
   itself lively is poked again as soon as it next falls quiet". *)
Widens ==
  s.pc = "drain" =>
    \A c \in Quiet :
      /\ IsDue(s.backoff[c]) => s.silent[c] >= s.gap[c]
      /\ c \in s.lively => IsDue(s.backoff[c])
=============================================================================
