------------------------------- MODULE Flood -------------------------------
(* Flood control (src/internal/session/flood.go): the message timer of each
   connection, which holds its commands back, and the +f count of a channel,
   which refuses them. Time is counted in ticks of the monotonic clock.

   Each command is a message to one channel. A client's commands may be under
   way at the same time, as the user interface's are; each waits out its own
   delay on a goroutine of its own. *)
EXTENDS Naturals, Sequences

CONSTANTS
  Clients,
  Penalty, MaxLead,   \* floodPolicy
  FloodWindow,        \* channelFloodWindow
  Limits,             \* the +f parameters, 0 for a channel without the mode
  Horizon,            \* bound: ticks
  MaxCommands         \* bound: commands of one client

VARIABLE s  \* the whole state, a record:
  \* now, since, throttled: the clock, and penaltyTimer of each client
  \* sent: commands each client has sent
  \* held: commands waiting, [c, n, at] with the tick their wait ends at
  \* limit, counts: the channel's +f and its floodWindow, NotCounted without one
  \* ran: history, [c, n, at] of each client's commands that reached the loop
  \* passed: history, [at, limit] of what the gate let through while +f was set
  \* warned: history, warnings each client had since its timer last drained

NotCounted == [openedAt |-> 0, messages |-> 0, open |-> FALSE]

Init ==
  \E l \in Limits :
    s = [now |-> 0, since |-> [c \in Clients |-> 0],
         throttled |-> [c \in Clients |-> FALSE], sent |-> [c \in Clients |-> 0],
         held |-> {}, limit |-> l, counts |-> NotCounted,
         ran |-> [c \in Clients |-> <<>>], passed |-> <<>>,
         warned |-> [c \in Clients |-> 0]]
---------------------------------------------------------------------------
(* charge: the timer after a command, the delay, and whether an episode opens. *)

DrainedUnderLead(since) == since <= s.now + MaxLead
Drained(since) == since < s.now

Charged(since) == (IF Drained(since) THEN s.now ELSE since) + Penalty

Lead(since) == IF Drained(since) THEN 0 ELSE since - s.now
Delay(since) == IF Lead(since) > MaxLead THEN Lead(since) - MaxLead ELSE 0

(* throttleCommand, up to its wait. *)
Send(c) ==
  LET since == s.since[c]
      inside == s.throttled[c] /\ ~Drained(since)
      opened == Delay(since) > 0 /\ ~inside
  IN  /\ s.sent[c] < MaxCommands
      /\ s' = [s EXCEPT
           !.sent[c] = @ + 1,
           !.since[c] = Charged(since),
           !.throttled[c] = Delay(since) > 0 \/ inside,
           !.warned[c] = IF opened THEN @ + 1 ELSE @,
           !.held = @ \cup {[c |-> c, n |-> s.sent[c] + 1, at |-> s.now + Delay(since)]}]

(* countMessage: the window a message is counted in. *)
ReopenedNever(w) == ~w.open
Reopened(w) == ~w.open \/ s.now - w.openedAt >= FloodWindow

WindowAt(w) == IF Reopened(w) THEN [openedAt |-> s.now, messages |-> 0, open |-> TRUE] ELSE w

OneMore(w) == [w EXCEPT !.messages = @ + 1]

Full == s.limit > 0 /\ WindowAt(s.counts).messages >= s.limit

(* A wait is over and the command comes to the loop, which runs the send gates;
   checkChannelFlood is the last of them. *)
Run(h) ==
  /\ h.at = s.now
  /\ s' = [s EXCEPT
       !.held = @ \ {h},
       !.ran[h.c] = Append(@, h),
       !.counts = IF s.limit = 0 THEN @
                  ELSE IF Full THEN WindowAt(@)
                  ELSE OneMore(WindowAt(@)),
       !.passed = IF s.limit = 0 \/ Full THEN @ ELSE Append(@, [at |-> s.now, limit |-> s.limit])]

(* The wait ends early: the caller's context, the reaped subscription. *)
GiveUp(h) == h.at > s.now /\ s' = [s EXCEPT !.held = @ \ {h}]

SetLimit(l) == l # s.limit /\ s' = [s EXCEPT !.limit = l]

(* The channel ends and its count with it (channelFlood.forget); a channel of the
   same name may begin. *)
Forget == s.counts # NotCounted /\ s' = [s EXCEPT !.counts = NotCounted, !.passed = <<>>, !.limit = 0]

(* A timer that is due fires before the clock moves on. *)
Tick ==
  /\ s.now < Horizon
  /\ \A h \in s.held : h.at > s.now
  /\ s' = [s EXCEPT !.now = @ + 1,
                    !.warned = [c \in Clients |-> IF s.since[c] <= s.now THEN 0 ELSE @[c]]]

Next ==
  \/ \E c \in Clients : Send(c)
  \/ \E h \in s.held : Run(h) \/ GiveUp(h)
  \/ \E l \in Limits : SetLimit(l)
  \/ Forget \/ Tick
---------------------------------------------------------------------------
(* Properties *)

(* Within any stretch of time a client's commands reach the loop at the rate of
   one per penalty, beyond the burst its lead allows, however they are timed. *)
Paced ==
  \A c \in Clients : LET r == s.ran[c] IN
    \A i, j \in 1..Len(r) : i < j => r[j].at - r[i].at + MaxLead >= Penalty * (j - i)

(* Each held command waits on a timer of its own, and yet none overtakes an
   earlier one of its client from one tick to the next. *)
KeepsOrder ==
  \A c \in Clients : LET r == s.ran[c] IN
    \A i, j \in 1..Len(r) : i < j /\ r[i].at < r[j].at => r[i].n < r[j].n

(* "alternating between bursts and short pauses raises one warning and not one
   per burst": one warning until the timer has drained all the way. *)
WarnedOnce == \A c \in Clients : s.warned[c] <= 1

(* "A channel can therefore relay twice its limit across a boundary", and never
   more than that within a window's length, even if the limit is changed. *)
TwiceTheLimit ==
  \A i, j \in 1..Len(s.passed) :
    i <= j /\ s.passed[j].at - s.passed[i].at < FloodWindow =>
      \E k \in i..j : j - i + 1 <= 2 * s.passed[k].limit

(* A full window is full of messages that are less than a window's length old: no
   limit refuses a channel that has been quiet for so long. *)
FullOfRecent ==
  Full => \E i \in 1..Len(s.passed) :
            /\ Len(s.passed) - i + 1 >= s.limit
            /\ s.now - s.passed[i].at < FloodWindow
=============================================================================
