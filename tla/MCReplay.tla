----------------------------- MODULE MCReplay -----------------------------
(* Replay for TLC, and what must hold of it. *)
EXTENDS Replay

\* A behaviour has two events, or three when the first ones moved m; next to a
\* dispatch, to anonymous channels and to failures one fewer each.
One(b) == IF b THEN 1 ELSE 0
Begun == n + One(loop.pc \in {"lock", "commit"} /\ loop.kind \notin {"dm", "owndm"})
Few ==
  /\ n + faults + One(disp.pc # "none") + One(anon # {}) <= 5
  /\ Begun + One(disp.pc # "none") >= 5 => \E c \in Chans : epoch[c] > 0

Undisturbed == link = "on" /\ loop.pc # "queue"
InHand == IF blocked THEN KeptAll(outbox) ELSE outbox
HistoryLoaded(c) == (load.pc # "none" /\ c \notin load.todo) \/ (load.pc = "replies" /\ load.win = c)

(* However the snapshot of an attaching client and the live fan-outs interleave,
   what it has filed of a channel it is in and what is still queued for it are, together,
   the rows the store keeps for its membership: each once, in order, none missing
   and none of an earlier membership. *)
HistoryExact ==
  Undisturbed => \A c \in inM : HistoryLoaded(c) =>
    Known(FileChannels(hist, InHand)[c]) = scrollback[c]

(* The same for a direct conversation, whose snapshot is read late, at its first
   message, and may fail to be read: it is the log, each message once. *)
DirectExact ==
  link = "on" /\ dmMu = "free" =>
    IF Seeded THEN hist[Direct] \o DirectIds(outbox) = dms
    ELSE Before(dms, Cutoff) \o unseeded \o DirectIds(outbox) = dms

\* How often m's membership of c changes in the rest of the queue.
MovesFrom(items, c, from) == Cardinality({j \in from..Len(items) : Moves(items[j], c)})

(* A turn announced from another goroutine is announced in the membership it was
   planned for: the client never reads it after a KICK or in a later stay. *)
StartInItsStay ==
  Undisturbed /\ ~untold => \A i \in DOMAIN outbox : outbox[i].kind = "started" =>
    \A c \in outbox[i].wins \cap Chans : epoch[c] - MovesFrom(outbox, c, i) = disp.auth[c]

(* The server's loop and a dispatch never wait for each other's replay locks. *)
NoLockCycle ==
  ~ /\ loop.need # <<>> /\ locks[Head(loop.need)] = "disp"
    /\ disp.need # <<>> /\ locks[Head(disp.need)] = "loop"
=============================================================================
