---------------------------- MODULE WindowLines ----------------------------
(* What the chat screen's windows hold (src/internal/ui/screens/chat_scrollback.go,
   chat_dm.go, chat_paced.go, chat_events.go, chat_replies.go): lines are filed in
   scrollbacks or held until their window is known, and counted at a reading pace;
   the results of commands go to the window they were typed in. *)
EXTENDS Naturals, Sequences, FiniteSets, FiniteSetsExt, SequencesExt

CONSTANTS
  NoWindow,            \* no window is shown
  MaxLines, MaxOpens,  \* bounds: lines sent, and openings of each window
  MaxVisits            \* bound: focuses of each window

VARIABLE s  \* the whole state, a record:
  \* open, active; life: which opening of its name a window is; visits: Window.Visits
  \* next: the next line; wire: the deliveries, of [id, w, by]
  \* shown: Scrollback of each window; held, resolving: pendingDM of the peer, and
  \*   the lookups running for it
  \* queue, ticks: pacedQueue, and the deliverNextPacedMsgs under way
  \* counts: unread counts under way, each with its window's visits and, as history, its
  \*   life; badge: the sidebar's, as the count it came from
  \* replies: results under way; astray: history, one was shown where it does not belong
  \* gone: history, lines that went with a window or were reported dropped

Chan == "c"
Peer == "p"
Wins == {Chan, Peer}
NoCount == [w |-> NoWindow, visits |-> 0, life |-> 0]

Init ==
  s = [open |-> {Chan}, active |-> NoWindow, life |-> [w \in Wins |-> 1],
       visits |-> [w \in Wins |-> 0], next |-> 1, wire |-> <<>>,
       shown |-> [w \in Wins |-> <<>>], held |-> <<>>, resolving |-> 0,
       queue |-> [w \in Wins |-> <<>>], ticks |-> [w \in Wins |-> 0],
       counts |-> {}, badge |-> [w \in Wins |-> NoCount], gone |-> {},
       replies |-> {}, astray |-> FALSE]
---------------------------------------------------------------------------
(* unreadCountCmd, with the visits of the window if there is one *)
Ask(t, w) ==
  [t EXCEPT !.counts = @ \cup {[w |-> w, life |-> t.life[w],
                               visits |-> IF w \in t.open THEN t.visits[w] ELSE 0]}]

(* renderMessage *)
Render(t, w) == IF t.active = w THEN t ELSE Ask(t, w)

(* openDMWindow, materialiseDMWindow *)
Opened(t, w) == [t EXCEPT !.open = @ \cup {w}]

FiledAlways(t, l) ==  \* a mutant: lines are not held for their window
  IF l.w \in t.open \/ l.w = Chan \/ l.by = "peer"
  THEN [Opened(t, l.w) EXCEPT !.shown[l.w] = Append(@, l.id)]
  ELSE [t EXCEPT !.resolving = @ + 1]

(* bufferEvent, appendMessage: a direct line without a window waits for a lookup of
   the peer, unless the peer wrote it and so names itself. *)
Filed(t, l) ==
  LET log == [Opened(t, l.w) EXCEPT !.shown[l.w] = Append(@, l.id)] IN
  IF l.w \in t.open \/ l.w = Chan \/ l.by = "peer" THEN log
  ELSE [t EXCEPT !.held = Append(@, l.id),
                 !.resolving = IF t.held = <<>> THEN @ + 1 ELSE @]

(* handleMessageEvent: the user's own line is counted at once, another's is paced. *)
Paced(t, l) ==
  IF l.by = "own" THEN Render(t, l.w)
  ELSE [t EXCEPT !.queue[l.w] = Append(@, l.id),
                 !.ticks[l.w] = IF t.queue[l.w] = <<>> THEN @ + 1 ELSE @]

(* handleProtocolEvent *)
TakeLine ==
  /\ s.wire # <<>>
  /\ s' = LET l == Head(s.wire) IN Paced(Filed([s EXCEPT !.wire = Tail(@)], l), l)

DeliverOne(t, w) ==  \* a mutant: no message is scheduled for the next
  IF t.queue[w] = <<>> THEN t ELSE Render([t EXCEPT !.queue[w] = Tail(@)], w)

(* deliverNextPaced *)
DeliverNext(t, w) ==
  IF t.queue[w] = <<>> THEN t
  ELSE LET u == [t EXCEPT !.queue[w] = Tail(@)] IN
       Render([u EXCEPT !.ticks[w] = IF u.queue[w] = <<>> THEN @ ELSE @ + 1], w)

TakeTick(w) ==
  /\ s.ticks[w] > 0
  /\ s' = DeliverNext([s EXCEPT !.ticks[w] = @ - 1], w)

ResolvedBehind(t, found) ==  \* a mutant: held lines go behind those that came later
  LET u == [t EXCEPT !.held = <<>>, !.resolving = @ - 1] IN
  IF found THEN Ask([Opened(u, Peer) EXCEPT !.shown[Peer] = @ \o t.held], Peer)
  ELSE [u EXCEPT !.gone = @ \cup Range(t.held)]

(* resolveDMWindow, handleDMWindowResolved: the peer is found, or deleted meanwhile. *)
Resolved(t, found) ==
  LET u == [t EXCEPT !.held = <<>>, !.resolving = @ - 1] IN
  IF found THEN Ask([Opened(u, Peer) EXCEPT !.shown[Peer] = t.held \o @], Peer)
  ELSE [u EXCEPT !.gone = @ \cup Range(t.held)]

Resolve == s.resolving > 0 /\ \E found \in BOOLEAN : s' = Resolved(s, found)
---------------------------------------------------------------------------
(* Windows. *)

(* focus *)
FocusOn(t, w) ==
  [t EXCEPT !.active = w, !.visits[w] = @ + 1, !.badge[w] = NoCount]

Focus(w) ==
  /\ w \in s.open /\ s.visits[w] < MaxVisits
  /\ s' = FocusOn(s, w)

(* closeWindow *)
Closed(t, w) ==
  LET u == [t EXCEPT !.open = @ \ {w}, !.life[w] = @ + 1, !.visits[w] = 0,
                     !.shown[w] = <<>>, !.queue[w] = <<>>, !.badge[w] = NoCount,
                     !.gone = @ \cup Range(t.shown[w])] IN
  CASE t.active # w -> u
    [] t.active = w /\ u.open = {} -> [u EXCEPT !.active = NoWindow]
    [] OTHER -> FocusOn(u, CHOOSE f \in u.open : TRUE)

Close(w) ==
  /\ w \in s.open /\ s.life[w] < MaxOpens
  /\ s.active = w => \A f \in s.open \ {w} : s.visits[f] < MaxVisits
  /\ s' = Closed(s, w)

(* The channel is joined again, or /query opens the direct window. *)
Open(w) == w \notin s.open /\ s' = [Opened(s, w) EXCEPT !.badge[w] = NoCount]
---------------------------------------------------------------------------
CurrentIfOpen(c) == c.w \in s.open  \* a mutant: visits are not compared

(* deliverUnreadCount *)
Current(c) == c.w \in s.open /\ s.visits[c.w] = c.visits

TakeCount ==
  \E c \in s.counts :
    s' = [s EXCEPT !.counts = @ \ {c}, !.badge[c.w] = IF Current(c) THEN c ELSE @]

(* The server delivers a line. *)
Send ==
  /\ s.next =< MaxLines
  /\ \E w \in Wins, by \in {"own", "peer"} :
       s' = [s EXCEPT !.next = @ + 1,
                      !.wire = Append(@, [id |-> s.next, w |-> w, by |-> by])]
---------------------------------------------------------------------------
(* Results of commands. *)

ExactByName(t, r) == r.w \in t.open  \* a mutant: a window of that name will do

(* exactWindow: the very window the command was typed in *)
Exact(t, r) == r.w \in t.open /\ t.life[r.w] = r.life

(* replyTarget, fallbackTarget: the window of the command, else the one in view; for a
   channel whose new window is in view the status window, "status". *)
ReplyTarget(t, r) ==
  IF Exact(t, r) THEN r.w
  ELSE IF t.active = NoWindow \/ (r.w = Chan /\ t.active = Chan) THEN "status"
  ELSE t.active

Command ==
  /\ s.active # NoWindow /\ s.replies = {}
  /\ s' = [s EXCEPT !.replies = {[w |-> s.active, life |-> s.life[s.active]]}]

(* A reply is shown; what /clear empties is the exact window alone. *)
TakeReply ==
  \E r \in s.replies : \E clear \in BOOLEAN :
    LET w == ReplyTarget(s, r)
        t == [s EXCEPT !.replies = {}] IN
    s' = IF ~clear
         THEN [t EXCEPT !.astray = @ \/ (w = Chan /\ r.w = Chan /\ s.life[w] # r.life)
                                     \/ (w # "status" /\ w \notin s.open)]
         ELSE IF Exact(s, r)
         THEN [t EXCEPT !.gone = @ \cup Range(s.shown[r.w]), !.shown[r.w] = <<>>]
         ELSE t

Next ==
  \/ TakeLine \/ Resolve \/ TakeCount \/ Send \/ Command \/ TakeReply
  \/ \E w \in Wins : TakeTick(w) \/ Focus(w) \/ Close(w) \/ Open(w)
---------------------------------------------------------------------------
(* Every line delivered is in its window once and in its order, or waits for the
   window in its order, or went with a window or with a report; and lines wait only
   while exactly one lookup is to tell where. *)
Taken == (1..(s.next - 1)) \ {l.id : l \in Range(s.wire)}
Ascending(q) == \A i \in 1..(Len(q) - 1) : q[i] < q[i + 1]

LinesKept ==
  /\ UNION {Range(q) : q \in {s.shown[Chan], s.shown[Peer], s.held}} = Taken \ s.gone
  /\ Ascending(s.shown[Chan]) /\ Ascending(s.held)
  /\ s.held = <<>> => Ascending(s.shown[Peer])
  /\ s.resolving = (IF s.held = <<>> THEN 0 ELSE 1)

(* Lines to be counted are counted: a queue is never left without a message that
   will take its head, whatever was closed and opened again under it. *)
PacedMoves == \A w \in Wins : s.queue[w] # <<>> => s.ticks[w] > 0

(* A badge was counted since the user last visited the window: no count asked for
   before a visit puts it back. Only a window opened again can get the count of the
   one before it of its name, whose visits it may have. *)
BadgeAfterVisit ==
  \A w \in Wins :
    s.badge[w].w = w /\ s.badge[w].life = s.life[w] => s.badge[w].visits = s.visits[w]

(* A reply is shown in a window that is open, and not in a later window of the
   channel it was asked in. *)
RepliesHome == ~s.astray
=============================================================================
