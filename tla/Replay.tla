------------------------------- MODULE Replay -------------------------------
(* What one model client knows of its windows: the rows the server projects for
   it into the store, the snapshot it reads of them while it attaches, the
   deliveries queued meanwhile and after, and the history its loop keeps. The
   server's loop plans a fan-out, locks its recipients, commits and queues; the
   client reads on a goroutine of its own, and another model's turn announces
   itself to the client from a third.

   An event is its number, which is also its row's id: rows of one window are
   numbered in the order they are committed. "m" is the client, "p" another model
   that shares channels with it; the direct messages are those of m and the user.
   The channel from the queue to the client is SendQueue's. *)
EXTENDS Naturals, Sequences, FiniteSets, SequencesExt

CONSTANTS
  Chans,
  Stored,      \* the channels m is a stored member of
  Masks,       \* the sets of channels that may be anonymous (+a)
  MaxEvents,   \* bound: events
  MaxFaults     \* bound: store calls that fail

\* Channels and direct conversations are named apart.
ASSUME ReplayAssumption ==
  /\ IsFiniteSet(Chans) /\ "direct" \notin Chans
  /\ Stored \subseteq Chans /\ Masks \subseteq SUBSET Chans

VARIABLES
  anon,      \* the anonymous channels
  n,         \* events so far
  faults,     \* bound: failures so far
  inM, inP,  \* the channels of m and of p
  scrollback,      \* m's rows of channel_scrollback, by channel
  dms,       \* the logged direct messages
  link,      \* m's connection: "off", "on" or "gone"
  blocked,   \* serverClient.replayBlocked
  outbox,    \* serverClient.outbox and events
  ranges,    \* serverClient.replayRanges
  epoch,     \* serverClient.windowEpochs
  liveFrom,      \* serverClient.dmLiveFrom for the user's window, 0 for none
  loop,      \* the command the server's loop is in
  disp,      \* BeginModelDispatch and Done of p's client
  locks,     \* replayMu of m and of p
  dmMu,      \* dmHistoryMu
  load,      \* loadHistory: what is left to read, and the read in hand
  hist,      \* history.buf of each window
  unseeded,  \* history.unseeded of the direct window
  untold     \* history: a KICK planned before m subscribed took effect after

events == <<n, faults>>
members == <<inM, inP>>
store == <<scrollback, dms>>
queue == <<link, blocked, outbox, ranges, epoch, liveFrom>>
client == <<load, hist, unseeded>>
mutexes == <<locks, dmMu>>
replayVars == <<anon, events, members, store, queue, loop, disp, mutexes, client, untold>>

Direct == "direct"
Windows == Chans \cup {Direct}
NoBuf == <<0>>      \* a window without a buffer
NoRange == <<1, 0>>
NoPlan == [pc |-> "idle", kind |-> "none", win |-> "none", routes |-> <<>>, need |-> <<>>]
Seeded == hist[Direct] # NoBuf

\* The items of a sequence at some positions, in their order, and those that pass a test.
Rank(at, i) == Cardinality({j \in at : j <= i})
At(seq, at) == [k \in 1..Cardinality(at) |-> seq[CHOOSE i \in at : Rank(at, i) = k]]
Those(seq, Test(_)) == At(seq, {i \in DOMAIN seq : Test(seq[i])})
---------------------------------------------------------------------------
(* The plan of a fan-out: the routes to m, and whose replay locks they take. *)

\* A route carries its windows, those of them it is projected into, and the
\* memberships it is sent under with their epochs.
Route(kind, wins, ids, under) ==
  [kind |-> kind, wins |-> wins, ids |-> ids, auth |-> [w \in under |-> epoch[w]]]

Seen(c) == link = "on" /\ c \in inM
Named(wins) == wins \ anon

\* QUIT and NICK show one delivery for all the named channels m shares with p.
Shared(kind) ==
  LET wins == Named(inM \cap inP)
  IN IF link = "on" /\ wins # {} THEN <<Route(kind, wins, wins, wins)>> ELSE <<>>

\* An anonymous channel sees the one who quits part, without a name.
AnonymousParts ==
  LET hidden == inM \cap inP \cap anon
  IN IF link = "on" THEN [i \in 1..Cardinality(hidden) |->
                            LET c == SetToSeq(hidden)[i] IN Route("leave", {c}, {c}, {c})]
                    ELSE <<>>

Routes(kind, c) ==
  CASE kind = "say" -> IF Seen(c) THEN <<Route(kind, {c}, {c}, {c})>> ELSE <<>>
    [] kind \in {"topic", "join"} -> IF Seen(c) THEN <<Route(kind, {c}, {c}, {})>> ELSE <<>>
    [] kind \in {"own", "selfjoin"} ->
         IF link = "on" THEN <<Route(kind, {c}, {c}, {})>> ELSE <<>>
    [] kind \in {"part", "kick"} -> IF Seen(c) THEN <<Route(kind, {c}, {}, {})>> ELSE <<>>
    [] kind = "nick" -> Shared(kind)
    [] kind = "quit" -> Shared(kind) \o AnonymousParts
    [] kind = "latequit" -> Shared(kind)
    [] kind = "lateparts" -> AnonymousParts
    [] kind \in {"dm", "owndm"} ->
         IF link = "on" THEN <<Route(kind, {Direct}, {}, {})>> ELSE <<>>

\* p is a recipient or the closing client; m also where it is the actor.
OneIf(is, x) == IF is THEN <<x>> ELSE <<>>
Locked(kind, c, routes) ==
  OneIf(routes # <<>> \/ kind \in {"part", "kick", "selfjoin"}, "m")
    \o OneIf(kind \notin {"dm", "owndm"}
               /\ (kind \notin {"own", "topic", "part", "kick", "selfjoin"} \/ c \in inP), "p")

\* Replay locks are taken in the order of the identities.
AsListed(clients) == clients
LockOrder(clients) ==
  LET has(x) == \E i \in DOMAIN clients : clients[i] = x
  IN OneIf(has("m"), "m") \o OneIf(has("p"), "p")

Planned(kind, c, routes) ==
  LET need == LockOrder(Locked(kind, c, routes))
  IN [pc |-> IF need = <<>> THEN "commit" ELSE "lock", kind |-> kind, win |-> c, routes |-> routes, need |-> need]

Authorised(route) ==
  /\ link = "on" \/ route.auth = << >>
  /\ DOMAIN route.auth = {} \/ \E w \in DOMAIN route.auth : w \in inM /\ epoch[w] = route.auth[w]
---------------------------------------------------------------------------
(* The server's loop: one command at a time. *)
MayCommand == loop.pc = "idle" /\ n < MaxEvents /\ link # "gone"

Begin(kind, c) ==
  /\ MayCommand
  /\ loop' = Planned(kind, c, Routes(kind, c))
  /\ UNCHANGED <<anon, events, members, store, queue, disp, mutexes, client, untold>>

\* m's own commands come from its turns, which wait for the replay.
Turning == link = "on" /\ ~blocked /\ load.pc = "done"

Say(c) == c \in inP /\ Begin("say", c)
Own(c) == Turning /\ c \in inM /\ Begin("own", c)
Topic(c) == c \in inP /\ Begin("topic", c)
JoinEvent(c) == c \notin inP /\ Begin("join", c)
NickEvent == inP # {} /\ Begin("nick", "none")
QuitEvent == inP # {} /\ Begin("quit", "none")
PartEvent(c) == Turning /\ c \in inM /\ Begin("part", c)
KickEvent(c) == c \in inM \cap inP /\ Begin("kick", c)
SelfJoin(c) == Turning /\ c \notin inM /\ Begin("selfjoin", c)

\* A direct message is logged and fanned out under dmHistoryMu.
Message(kind) ==
  /\ MayCommand /\ link = "on" /\ dmMu = "free"
  /\ kind = "owndm" => Turning
  /\ \/ /\ n' = n + 1 /\ dms' = Append(dms, n') /\ dmMu' = "loop"
        /\ loop' = Planned(kind, Direct, Routes(kind, Direct))
        /\ UNCHANGED faults
     \/ /\ faults < MaxFaults /\ faults' = faults + 1
        /\ UNCHANGED <<n, dms, dmMu, loop>>
  /\ UNCHANGED <<anon, members, scrollback, queue, disp, locks, client, untold>>

Unguarded(x) == x \in DOMAIN locks
Free(x) == locks[x] = "free"

Lock ==
  /\ loop.pc = "lock" /\ Free(Head(loop.need))
  /\ locks' = [locks EXCEPT ![Head(loop.need)] = "loop"]
  /\ loop' = [loop EXCEPT !.need = Tail(@), !.pc = IF Len(loop.need) = 1 THEN "commit" ELSE @]
  /\ UNCHANGED <<anon, events, members, store, queue, disp, dmMu, client, untold>>

Unlocked(who) == [x \in DOMAIN locks |-> IF locks[x] = who THEN "free" ELSE locks[x]]
LoopDone == loop' = NoPlan /\ locks' = Unlocked("loop") /\ dmMu' = IF dmMu = "loop" THEN "free" ELSE dmMu

Projected(routes, w) == \E i \in DOMAIN routes : w \in routes[i].ids
WithRows(before, routes) == [c \in Chans |-> IF Projected(routes, c) THEN Append(before[c], n') ELSE before[c]]

\* One transaction writes the event, the membership and the rows; a departure or
\* a new membership of m's takes the rows of the old one with it.
Committed(routes) ==
  LET c == loop.win
      moved == loop.kind \in {"part", "kick", "selfjoin"}
  IN /\ scrollback' = WithRows(IF moved THEN [scrollback EXCEPT ![c] = <<>>] ELSE scrollback, routes)
     /\ epoch' = IF moved THEN [epoch EXCEPT ![c] = @ + 1] ELSE epoch
     /\ inM' = IF loop.kind = "selfjoin" THEN inM \cup {c}
               ELSE IF moved THEN inM \ {c} ELSE inM
     /\ inP' = CASE loop.kind = "join" -> inP \cup {c}
                 [] loop.kind = "quit" -> {}
                 [] OTHER -> inP

Commit ==
  /\ loop.pc = "commit" /\ loop.kind \notin {"latequit", "lateparts"}
  /\ LET routes == Those(loop.routes, Authorised)
     IN /\ n' = IF loop.kind \in {"dm", "owndm"} THEN n ELSE n + 1
        /\ Committed(routes)
        /\ loop' = [loop EXCEPT !.pc = "queue", !.routes = routes]
        /\ untold' = (untold \/ (loop.kind = "kick" /\ routes = <<>> /\ link = "on"))
  /\ UNCHANGED <<anon, faults, dms, link, blocked, outbox, ranges, liveFrom, disp, mutexes, client>>

\* A failed transaction refuses the command and changes nothing, ...
CommitFails ==
  /\ loop.pc = "commit" /\ loop.kind \notin {"quit", "dm", "owndm", "latequit", "lateparts"}
  /\ faults < MaxFaults /\ faults' = faults + 1
  /\ LoopDone
  /\ UNCHANGED <<anon, n, members, store, queue, disp, client, untold>>

\* ... but a QUIT that is forced goes on: its members' records change one by one,
\* and the deliveries are planned and projected after that.
QuitFails ==
  /\ loop.pc = "commit" /\ loop.kind = "quit"
  /\ faults < MaxFaults /\ faults' = faults + 1 /\ n' = n + 1
  /\ loop' = Planned("latequit", "none", Routes("latequit", "none"))
  /\ locks' = Unlocked("loop")
  /\ UNCHANGED <<anon, members, store, queue, disp, dmMu, client, untold>>

AppendScrollback(routes) ==
  /\ scrollback' = [c \in Chans |-> IF Projected(routes, c) THEN Append(scrollback[c], n) ELSE scrollback[c]]
  /\ loop' = [loop EXCEPT !.pc = "queue", !.routes = routes]

LateAppend ==
  /\ loop.pc = "commit" /\ loop.kind \in {"latequit", "lateparts"}
  /\ AppendScrollback(Those(loop.routes, Authorised))
  /\ UNCHANGED <<anon, events, members, dms, queue, disp, mutexes, client, untold>>

\* Rows that cannot be projected end the client: what it would read next could
\* not be replayed.
Unreplayable ==
  /\ loop.pc = "commit" /\ loop.kind \in {"latequit", "lateparts"}
  /\ faults < MaxFaults /\ faults' = faults + 1
  /\ \E i \in DOMAIN loop.routes : Authorised(loop.routes[i])
  /\ link' = "gone"
  /\ LoopDone
  /\ UNCHANGED <<anon, n, members, store, blocked, outbox, ranges, epoch, liveFrom, disp, client, untold>>

Item(route, id) == [kind |-> route.kind, wins |-> route.wins, ids |-> route.ids, id |-> id]
Items(routes, id) == [i \in DOMAIN routes |-> Item(routes[i], id)]

\* The first direct message queued live bounds what a snapshot may hold.
NoteLive(routes) ==
  liveFrom' = IF liveFrom = 0 /\ \E i \in DOMAIN routes : routes[i].wins = {Direct} THEN n ELSE liveFrom

Queue ==
  /\ loop.pc = "queue"
  /\ outbox' = outbox \o Items(loop.routes, n)
  /\ NoteLive(loop.routes)
  /\ IF loop.kind = "latequit"
     THEN /\ loop' = Planned("lateparts", "none", Routes("lateparts", "none"))
          /\ locks' = Unlocked("loop") /\ UNCHANGED <<dmMu, inP>>
     ELSE LoopDone /\ inP' = IF loop.kind = "lateparts" THEN {} ELSE inP
  /\ UNCHANGED <<anon, events, inM, store, link, blocked, ranges, epoch, disp, client, untold>>
---------------------------------------------------------------------------
(* A turn of p's, announced from its own goroutine to those who share its window. *)
DispatchOf(wins, under, clients) ==
  [pc |-> "lock", wins |-> wins, auth |-> under, need |-> LockOrder(clients)]

\* The epoch is read before the membership, and both are looked at again under
\* the lock before the announcement is planned.
BeginDispatch(c) ==
  /\ disp.pc = "none" /\ c \in inP
  /\ disp' = [pc |-> "admit", wins |-> {c}, auth |-> [w \in {c} |-> epoch[w]], need |-> <<>>]
  /\ UNCHANGED <<anon, events, members, store, queue, loop, mutexes, client, untold>>

AdmitDispatch ==
  /\ disp.pc = "admit" /\ Free("m")
  /\ LET c == CHOOSE w \in disp.wins : TRUE
     IN disp' = IF Seen(c) /\ epoch[c] = disp.auth[c]
                THEN DispatchOf(disp.wins, disp.auth, <<"m", "p">>)
                ELSE [disp EXCEPT !.pc = "done"]
  /\ UNCHANGED <<anon, events, members, store, queue, loop, mutexes, client, untold>>

BeginDirectDispatch ==
  /\ disp.pc = "none" /\ link = "on"
  /\ disp' = DispatchOf({Direct}, <<>>, <<"p", "m">>)
  /\ UNCHANGED <<anon, events, members, store, queue, loop, mutexes, client, untold>>

LockDispatch ==
  /\ disp.pc \in {"lock", "relock"} /\ disp.need # <<>> /\ Free(Head(disp.need))
  /\ locks' = [locks EXCEPT ![Head(disp.need)] = "disp"]
  /\ disp' = [disp EXCEPT !.need = Tail(@)]
  /\ UNCHANGED <<anon, events, members, store, queue, loop, dmMu, client, untold>>

Announce(kind) == outbox' = Append(outbox, [kind |-> kind, wins |-> disp.wins, ids |-> {}, id |-> 0])

DueWhenPlanned == link = "on" /\ (disp.wins = {Direct} \/ disp.wins \subseteq inP)
\* p's guard, m's connection and one of the memberships must still stand.
StillDue ==
  /\ link = "on"
  /\ disp.wins = {Direct} \/ disp.wins \subseteq inP
  /\ DOMAIN disp.auth = {} \/ \E w \in DOMAIN disp.auth : w \in inM /\ epoch[w] = disp.auth[w]

Start ==
  /\ disp.pc = "lock" /\ disp.need = <<>>
  /\ locks' = Unlocked("disp")
  /\ IF StillDue
     THEN Announce("started") /\ disp' = [disp EXCEPT !.pc = "turn"]
     ELSE UNCHANGED outbox /\ disp' = [disp EXCEPT !.pc = "done"]
  /\ UNCHANGED <<anon, events, members, store, link, blocked, ranges, epoch, liveFrom, loop, dmMu, client, untold>>

TurnEnds ==
  /\ disp.pc = "turn"
  /\ disp' = [disp EXCEPT !.pc = "relock", !.need = LockOrder(<<"m">>)]
  /\ UNCHANGED <<anon, events, members, store, queue, loop, mutexes, client, untold>>

Done ==
  /\ disp.pc = "relock" /\ disp.need = <<>>
  /\ locks' = Unlocked("disp")
  /\ IF link = "on" THEN Announce("done") ELSE UNCHANGED outbox
  /\ disp' = [disp EXCEPT !.pc = "done"]
  /\ UNCHANGED <<anon, events, members, store, link, blocked, ranges, epoch, liveFrom, loop, dmMu, client, untold>>
---------------------------------------------------------------------------
(* m attaches: it subscribes, reads each channel's rows, and activates. *)
Subscribe ==
  /\ link = "off"
  /\ link' = "on" /\ blocked' = TRUE
  /\ UNCHANGED <<anon, events, members, store, outbox, ranges, epoch, liveFrom, loop, disp, mutexes, client, untold>>

ListChannels ==
  /\ link = "on" /\ load.pc = "none"
  /\ load' = [load EXCEPT !.pc = "next", !.todo = inM]
  /\ UNCHANGED <<anon, events, members, store, queue, loop, disp, mutexes, hist, unseeded, untold>>

AttachFails ==
  /\ link' = "gone" /\ load' = [load EXCEPT !.pc = "failed"]
  /\ UNCHANGED <<blocked, outbox, ranges, epoch, liveFrom, hist, unseeded>>

\* The first queued row of a window is where its snapshot ends.
FirstQueued(c) ==
  LET waiting == {i \in DOMAIN outbox : c \in outbox[i].ids}
  IN IF blocked /\ waiting # {} THEN outbox[Min(waiting)].id ELSE n + 1
Before(seq, id) == Those(seq, LAMBDA x : x < id)

ScrollbackBegin(c) ==
  /\ load.pc = "next" /\ c \in load.todo /\ link = "on"
  /\ IF c \notin inM
     THEN AttachFails /\ UNCHANGED locks
     ELSE /\ Free("m") /\ locks' = [locks EXCEPT !["m"] = "load"]
          /\ load' = [load EXCEPT !.pc = "read", !.win = c, !.before = FirstQueued(c), !.epoch = epoch[c]]
          /\ UNCHANGED <<queue, hist, unseeded>>
  /\ UNCHANGED <<anon, events, members, store, loop, disp, dmMu, untold>>

\* The rows are the client's only if the membership still is the one the read
\* began with; then they are its history, and their range is remembered.
ScrollbackRead ==
  /\ load.pc = "read"
  /\ LET c == load.win
         stored == Before(scrollback[c], load.before)
     IN IF link = "on" /\ c \in inM /\ epoch[c] = load.epoch
        THEN /\ hist' = [hist EXCEPT ![c] = stored]
             /\ ranges' = IF blocked /\ stored # <<>>
                          THEN [ranges EXCEPT ![c] = <<stored[1], Last(stored)>>] ELSE ranges
             /\ load' = [load EXCEPT !.pc = "replies"]
             /\ UNCHANGED <<link, blocked, outbox, epoch, liveFrom, unseeded>>
        ELSE AttachFails
  /\ locks' = Unlocked("load")
  /\ UNCHANGED <<anon, events, members, store, loop, disp, dmMu, untold>>

\* The replies of the window are read under a guard of its membership.
Replies ==
  /\ load.pc = "replies" /\ link = "on"
  /\ IF load.win \in inM /\ epoch[load.win] = load.epoch
     THEN /\ load' = [load EXCEPT !.pc = "next", !.todo = @ \ {load.win}]
          /\ UNCHANGED <<queue, hist, unseeded>>
     ELSE AttachFails
  /\ UNCHANGED <<anon, events, members, store, loop, disp, mutexes, untold>>

Replayed(item, w) == item.id >= ranges[w][1] /\ item.id <= ranges[w][2]

\* What stays of a delivery queued during the replay: a QUIT or NICK for the
\* windows that were not replayed, anything else unless all of it was.
AfterReplay(item) ==
  IF item.kind \in {"nick", "quit", "latequit"}
  THEN [item EXCEPT !.wins = {w \in @ : ~(w \in item.ids /\ Replayed(item, w))}]
  ELSE item
Keeps(item) ==
  \/ item.kind \in {"part", "kick"} \/ item.ids = {}
  \/ \E w \in item.ids : ~Replayed(item, w)
KeptAll(items) ==
  LET kept == Those(items, Keeps) IN [i \in DOMAIN kept |-> AfterReplay(kept[i])]

ActivateClient ==
  /\ load.pc = "next" /\ load.todo = {} /\ link = "on"
  /\ load' = [load EXCEPT !.pc = "done"]
  /\ outbox' = KeptAll(outbox) /\ blocked' = FALSE
  /\ ranges' = [c \in Chans |-> NoRange]
  /\ UNCHANGED <<anon, events, members, store, link, epoch, liveFrom, loop, disp, mutexes, hist, unseeded, untold>>
---------------------------------------------------------------------------
(* m's loop files what it reads, a burst at a time. *)
Ids(items) == [i \in DOMAIN items |-> items[i].id]

\* An event that starts or ends m's membership of a window takes its buffer away.
Moves(item, w) == w \in item.wins /\ item.kind \in {"part", "kick", "selfjoin"}
Files(item, w) == w \in item.wins /\ item.kind \notin {"part", "kick", "started", "done"}

\* What is filed of them is what follows the last such event, or is m's JOIN itself.
FiledIn(items, w) ==
  Ids(At(items, {i \in DOMAIN items : Files(items[i], w) /\ \A j \in DOMAIN items : Moves(items[j], w) => j <= i}))
Known(buf) == IF buf = NoBuf THEN <<>> ELSE buf
FileChannels(h, items) ==
  [w \in Windows |->
     LET old == IF \E i \in DOMAIN items : Moves(items[i], w) THEN NoBuf ELSE h[w]
         new == FiledIn(items, w)
     IN IF new = <<>> THEN old ELSE Known(old) \o new]

IsDirect(item) == item.kind \in {"dm", "owndm"}
DirectIds(items) == Ids(Those(items, IsDirect))

\* The snapshot of a direct conversation ends before the first message queued
\* live; messages that arrived while it could not be read follow it.
NoCutoff == n + 1
Cutoff == IF liveFrom = 0 THEN n + 1 ELSE liveFrom
Snapshot == Before(dms, Cutoff) \o unseeded

\* A burst that holds a message to answer opens the window before it files; a
\* failed read leaves the burst's messages unseeded. Any other burst opens the
\* window at its first message of it.
Burst(k, reads) ==
  /\ link = "on" /\ load.pc = "done" /\ ~blocked /\ k \in 1..Len(outbox)
  /\ LET items == SubSeq(outbox, 1, k)
         direct == DirectIds(items)
         opens == direct # <<>> /\ ~Seeded
     IN /\ k > 1 => \E i \in 1..k : items[i].kind = "dm"
        /\ ~reads => opens /\ faults < MaxFaults
        /\ opens /\ reads => dmMu = "free"
        /\ faults' = IF reads THEN faults ELSE faults + 1
        /\ hist' = [FileChannels(hist, items) EXCEPT ![Direct] =
                      IF Seeded THEN hist[Direct] \o direct
                      ELSE IF opens /\ reads THEN Snapshot \o direct ELSE NoBuf]
        /\ unseeded' = IF ~reads THEN unseeded \o direct ELSE IF opens THEN <<>> ELSE unseeded
        /\ liveFrom' = IF opens /\ reads THEN 0 ELSE liveFrom
        /\ outbox' = SubSeq(outbox, k + 1, Len(outbox))
  /\ UNCHANGED <<anon, n, members, store, link, blocked, ranges, epoch, loop, disp, mutexes, load, untold>>
---------------------------------------------------------------------------
ReplayInit ==
  /\ anon \in Masks
  /\ n = 2 /\ faults = 0
  /\ inM = Stored /\ inP = Stored
  /\ scrollback = [c \in Chans |-> IF c \in Stored THEN <<1>> ELSE <<>>] /\ dms = <<2>>
  /\ link = "off" /\ blocked = FALSE /\ outbox = <<>> /\ liveFrom = 0
  /\ ranges = [c \in Chans |-> NoRange] /\ epoch = [c \in Chans |-> 0]
  /\ loop = NoPlan
  /\ disp = [pc |-> "none", wins |-> {}, auth |-> <<>>, need |-> <<>>]
  /\ locks = [x \in {"m", "p"} |-> "free"] /\ dmMu = "free"
  /\ load = [pc |-> "none", todo |-> {}, win |-> "none", before |-> 0, epoch |-> 0]
  /\ hist = [w \in Windows |-> NoBuf] /\ unseeded = <<>> /\ untold = FALSE

SessionCommands ==
  \/ \E c \in Chans : Say(c) \/ Own(c) \/ Topic(c) \/ JoinEvent(c) \/ PartEvent(c) \/ KickEvent(c) \/ SelfJoin(c)
  \/ NickEvent \/ QuitEvent
  \/ \E kind \in {"dm", "owndm"} : Message(kind)
Fanout == Lock \/ Commit \/ CommitFails \/ QuitFails \/ LateAppend \/ Unreplayable \/ Queue
Dispatches ==
  \/ \E c \in Chans : BeginDispatch(c)
  \/ BeginDirectDispatch \/ AdmitDispatch \/ LockDispatch \/ Start \/ TurnEnds \/ Done
Client ==
  \/ Subscribe \/ ListChannels \/ Replies \/ ActivateClient \/ ScrollbackRead
  \/ \E c \in Chans : ScrollbackBegin(c)
  \/ \E k \in 1..Len(outbox), reads \in BOOLEAN : Burst(k, reads)

ReplayNext == SessionCommands \/ Fanout \/ Dispatches \/ Client
ReplaySpec == ReplayInit /\ [][ReplayNext]_replayVars
=============================================================================
