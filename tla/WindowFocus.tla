---------------------------- MODULE WindowFocus ----------------------------
(* Which window the chat screen shows (src/internal/ui/screens/chat_focus.go,
   chat_dm.go, chat.go): commands run concurrently and their messages arrive in any
   order, protocol events arrive in theirs, and at the start the saved windows and
   the autojoin are restored beside what the user does. What is to be kept of it is
   written by a chain of writes (src/internal/userclient/userclient.go). *)
EXTENDS Naturals, Sequences, FiniteSets, FiniteSetsExt

CONSTANTS
  NoWindow,   \* no window: the welcome screen, or nothing saved
  Chans,      \* the channels; "p" is the window of the one peer
  Autojoin,   \* subsets of Chans: the autojoin lists to start with
  MaxTime     \* bound: moments after the start at which the user or the server acts

VARIABLE s  \* the whole state, a record:
  \* now; open: ChatScreen.channels but for the status window; active; focusAt, 0 when zero
  \* user: Window.UserTime; revision: Window.Revision, with the window's identity
  \* done: joinReplyDone; pend: pendingJoinFocus, 0 for none
  \* member: the time of each membership at the server, 0 for none; joining: the moment a
  \*   JOIN that the server has not handled was typed
  \* wire: the subscription's deliveries; mail: the messages of finished commands
  \* cmds: the commands whose goroutines have not yet run
  \* autojoin: what is left to join, pending: autojoinPending; restore: "unread" until
  \*   restoreDMWindows has read the store; dmDone, landing: dmRestoreDone, restoredLanding
  \* rev, latest, writes: uiStateRevision, uiStateLatest and the chain of writes
  \* lastDB, dmDB: last_window and dm_windows in the store
  \* choice: history, the window of the newest act when it chose one and it was neither
  \*   closed since nor overtaken; acted: history, when the user or the server last did
  \*   anything, 0 for never; first: history, what the start found

Peer == "p"
Wins == Chans \cup {Peer}
Keys == {"last", Peer}
Later(a, b) == IF a < b THEN b ELSE a
Msg(kind, w, at, rev) == [kind |-> kind, w |-> w, at |-> at, rev |-> rev, dms |-> {}]

Init ==
  \E list \in Autojoin, dms \in SUBSET {Peer} :
    \E saved \in Wins \cup {NoWindow} :
      s = [now |-> 1, open |-> {}, active |-> NoWindow, focusAt |-> 0,
           user |-> [w \in Wins |-> 0], revision |-> [w \in Wins |-> 0], done |-> {},
           pend |-> [c \in Chans |-> 0], member |-> [c \in Chans |-> 0],
           joining |-> [c \in Chans |-> 0], wire |-> <<>>, mail |-> {}, cmds |-> {},
           autojoin |-> list, pending |-> TRUE, sent |-> FALSE, restore |-> "unread", dmDone |-> FALSE,
           landing |-> NoWindow, rev |-> 0, latest |-> [k \in Keys |-> 0], writes |-> <<>>,
           lastDB |-> saved, dmDB |-> dms, choice |-> NoWindow, acted |-> 0,
           first |-> [saved |-> saved, dms |-> dms]]
---------------------------------------------------------------------------
(* The writes of the screen's state: each waits for the one before it and is
   skipped when a newer one of its key has been asked for. *)

Schedule(t, key, value) ==
  [t EXCEPT !.rev = @ + 1, !.latest[key] = t.rev + 1,
            !.writes = Append(@, [key |-> key, value |-> value, rev |-> t.rev + 1])]

Current(w) == s.latest[w.key] = w.rev

WriteState ==
  /\ s.writes # <<>>
  /\ LET w == Head(s.writes) IN
     s' = [s EXCEPT
       !.writes = Tail(@),
       !.lastDB = IF Current(w) /\ w.key = "last" THEN w.value ELSE @,
       !.dmDB = IF ~Current(w) \/ w.key # Peer THEN @
                ELSE IF w.value = Peer THEN @ \cup {Peer} ELSE @ \ {Peer}]
---------------------------------------------------------------------------
(* The screen's moves, on a state t. *)

FocusWins(t, at) == t.focusAt = 0 \/ at > t.focusAt

ShowUnsaved(t, w) == [t EXCEPT !.active = w, !.revision[w] = @ + 1]  \* a mutant

(* focus, persistLastWindow *)
Show(t, w) ==
  Schedule([t EXCEPT !.active = w, !.revision[w] = @ + 1], "last", w)

(* handleChannelFocus *)
Focus(t, w, at) ==
  IF w \in t.open /\ FocusWins(t, at)
  THEN [Show(t, w) EXCEPT !.user[w] = at, !.focusAt = Later(@, at)]
  ELSE t

(* handleChannelJoinFocus *)
JoinFocusAtOnce(t, c, at) == Focus(t, c, at)  \* a mutant: the JOIN's events are not waited for

JoinFocus(t, c, at) ==
  IF c \in t.open \cap t.done THEN Focus(t, c, at)
  ELSE [t EXCEPT !.pend[c] = Later(@, at)]

(* firstRealChannel: channels by name, then direct windows *)
FirstReal(open) == IF open \cap Chans # {} THEN CHOOSE c \in open \cap Chans : TRUE ELSE Peer

(* closeWindow *)
CloseWindow(t, w, at) ==
  LET u == [t EXCEPT !.open = @ \ {w}, !.user[w] = 0, !.revision[w] = @ + 1,
                     !.pend = [c \in Chans |-> IF c = w THEN 0 ELSE @[c]], !.done = @ \ {w},
                     !.choice = IF @ = w THEN NoWindow ELSE @]
      f == FirstReal(u.open)
      stamp == Later(u.user[f], at) IN
  IF t.active # w THEN u
  ELSE IF u.open = {}
  THEN Schedule([u EXCEPT !.active = NoWindow, !.focusAt = Later(@, at)], "last", NoWindow)
  ELSE [Show(u, f) EXCEPT !.user[f] = stamp, !.focusAt = Later(@, stamp)]

(* materialiseDMWindow; openDMWindow records what it adds *)
OpenDM(t) ==
  IF Peer \in t.open THEN t
  ELSE Schedule([t EXCEPT !.open = @ \cup {Peer}, !.revision[Peer] = @ + 1], Peer, Peer)

(* bootstrapFromSession: the windows of all memberships, and with restore a window
   to land in. *)
Joined(t) == {c \in Chans : t.member[c] > 0}
Newest(t) == CHOOSE c \in Joined(t) : \A d \in Joined(t) : t.member[d] =< t.member[c]

LandingOfJoins(t) ==  \* a mutant: the window left open is not asked
  IF Joined(t) = {} THEN {} ELSE {Msg("joinfocus", Newest(t), t.member[Newest(t)], 0)}

Landing(t) ==
  IF t.dmDone /\ t.landing \in Joined(t) THEN {Msg("joinfocus", t.landing, 1, 0)}
  ELSE IF Joined(t) = {} \/ (t.dmDone /\ t.landing = Peer /\ Peer \in t.open) THEN {}
  ELSE {Msg("joinfocus", Newest(t), t.member[Newest(t)], 0)}

Bootstrap(t, restore) ==
  LET new == Joined(t) \ t.open
      u == [t EXCEPT !.open = @ \cup new,
                     !.user = [w \in Wins |-> IF w \in new THEN t.member[w] ELSE @[w]]] IN
  IF restore THEN [u EXCEPT !.mail = @ \cup Landing(u)] ELSE u
---------------------------------------------------------------------------
(* Messages of commands, in any order. *)

RestoredAll(t, m) ==  \* a mutant: windows closed since the read are opened again
  LET v == [t EXCEPT !.dmDone = TRUE, !.landing = m.w, !.open = @ \cup m.dms] IN
  IF m.w \in m.dms THEN [v EXCEPT !.mail = @ \cup {Msg("landing", Peer, 1, 0)}]
  ELSE IF v.pending THEN v ELSE Bootstrap(v, TRUE)

(* handleDMWindowsRestored *)
Restored(t, m) ==
  LET u == [t EXCEPT !.dmDone = TRUE, !.landing = m.w]
      unchanged == {d \in m.dms : u.latest[d] = 0}
      v == [u EXCEPT !.open = @ \cup unchanged]
      lands == m.w \in m.dms /\ m.w \in v.open IN
  IF lands THEN [v EXCEPT !.mail = @ \cup {Msg("landing", Peer, 1, 0)}]
  ELSE IF v.pending THEN v ELSE Bootstrap(v, TRUE)

(* switchChannel: whether there is such a window is seen now, the time is not taken yet. *)
Selected(t, w, act) ==
  [t EXCEPT !.cmds = @ \cup {[kind |-> IF w \in t.open THEN "focus" ELSE "join",
                              w |-> w, rev |-> 0, act |-> act]}]

Handled(t, m) ==
  CASE m.kind = "selected" -> Selected(t, m.w, m.at)
    [] m.kind = "focus" -> Focus(t, m.w, m.at)
    [] m.kind = "landing" -> Focus(t, m.w, m.at)          \* handleDMLandingRestored
    [] m.kind = "joinfocus" -> JoinFocus(t, m.w, m.at)
    [] m.kind = "query" -> Focus(OpenDM(t), Peer, m.at)   \* handleDMOpenedMsg
    [] m.kind = "close" ->                                \* handleDMClosedMsg
         IF Peer \in t.open /\ t.revision[Peer] = m.rev
         THEN Schedule(CloseWindow(t, Peer, m.at), Peer, NoWindow) ELSE t
    [] m.kind = "autojoined" -> Bootstrap([t EXCEPT !.pending = FALSE], t.dmDone)
    [] m.kind = "restored" -> Restored(t, m)

TakeMail == \E m \in s.mail : s' = Handled([s EXCEPT !.mail = @ \ {m}], m)
---------------------------------------------------------------------------
(* Protocol events, in their order. *)

(* handleJoinEvent of the user's own JOIN *)
OwnJoin(t, e) ==
  [t EXCEPT !.open = @ \cup {e.w}, !.done = @ \ {e.w},
            !.user[e.w] = IF @ = 0 THEN e.at ELSE @]

NamesEndForgets(t, e) ==  \* a mutant: the focus that waits for the names is not given
  IF e.w \notin t.open THEN t ELSE [t EXCEPT !.done = @ \cup {e.w}, !.pend[e.w] = 0]

(* handleNamesEnd *)
NamesEnd(t, e) ==
  IF e.w \notin t.open THEN t
  ELSE LET u == [t EXCEPT !.done = @ \cup {e.w}, !.pend[e.w] = 0] IN
       IF t.pend[e.w] = 0 THEN u ELSE Focus(u, e.w, t.pend[e.w])

Applied(t, e) ==
  CASE e.kind = "join" -> OwnJoin(t, e)
    [] e.kind = "names" -> NamesEnd(t, e)
    [] e.kind = "gone" -> CloseWindow(t, e.w, e.at)  \* handlePartEvent, handleKickedEvent

TakeEvent ==
  /\ s.wire # <<>>
  /\ s' = Applied([s EXCEPT !.wire = Tail(@)], Head(s.wire))
---------------------------------------------------------------------------
(* The user and the server. *)

Tick(t) == [t EXCEPT !.now = @ + 1]
InTime == s.now < MaxTime
Chosen(t, w) == [t EXCEPT !.choice = w, !.acted = t.now]
Entered(t, c) ==
  [Tick(t) EXCEPT !.member[c] = t.now + 1, !.choice = IF @ = c THEN c ELSE NoWindow,
                  !.wire = @ \o <<Msg("join", c, t.now + 1, 0), Msg("names", c, t.now + 1, 0)>>]

(* /join: its time is that of the command, its focus follows the server's answer. *)
TypeJoin(c) ==
  /\ InTime /\ s.member[c] = 0 /\ s.joining[c] = 0
  /\ s' = Chosen([Tick(s) EXCEPT !.joining[c] = s.now + 1], c)

ServerJoin(c) ==
  /\ s.joining[c] > 0 /\ (s.member[c] = 0 => InTime)
  /\ LET t == IF s.member[c] = 0 THEN Entered(s, c) ELSE s IN
     s' = [t EXCEPT !.joining[c] = 0, !.mail = @ \cup {Msg("joinfocus", c, s.joining[c], 0)}]

(* A window picked in the sidebar: ChannelSelectedMsg is on its way. Bound: no window is
   picked again before its last pick was run. *)
Pick(w) ==
  /\ InTime /\ w \in s.open
  /\ \A m \in s.mail : ~(m.kind = "selected" /\ m.w = w)
  /\ \A x \in s.cmds : x.w # w
  /\ s' = Chosen([Tick(s) EXCEPT !.mail = @ \cup {Msg("selected", w, s.now + 1, 0)}], w)

Query ==
  /\ InTime
  /\ s' = Chosen([Tick(s) EXCEPT !.mail = @ \cup {Msg("query", Peer, s.now + 1, 0)}], Peer)

(* /close in the direct window, with the revision of the window it was typed in. *)
TypeClose ==
  /\ InTime /\ s.active = Peer
  /\ s' = Chosen([Tick(s) EXCEPT !.cmds = @ \cup
                    {[kind |-> "close", w |-> Peer, rev |-> s.revision[Peer], act |-> s.now + 1]}],
                 NoWindow)

(* Whether the newest act is a pick or a /close that has yet to take its time. *)
NewestWaits(t) ==
  \/ \E x \in t.cmds : x.act = t.acted
  \/ \E m \in t.mail : m.kind = "selected" /\ m.at = t.acted

(* A pick and a /close take their time in the command's goroutine, so one may overtake
   a newer choice. *)
Stamp(x) ==
  LET t == [Tick(s) EXCEPT !.cmds = @ \ {x}] IN
  s' = [t EXCEPT !.mail = @ \cup {Msg(x.kind, x.w, t.now, x.rev)},
                 !.choice = IF x.act = s.acted \/ NewestWaits(t) THEN @ ELSE NoWindow]

(* switchChannel of a window closed since the pick: a channel is joined first, and a
   nick refused. *)
JoinFirst(x) ==
  LET t == [s EXCEPT !.cmds = @ \ {x}]
      u == [t EXCEPT !.cmds = @ \cup {[x EXCEPT !.kind = "focus"]}] IN
  s' = IF x.w \notin Chans THEN t ELSE IF s.member[x.w] > 0 THEN u ELSE Entered(u, x.w)

RunCommand == \E x \in s.cmds : IF x.kind = "join" THEN JoinFirst(x) ELSE Stamp(x)

(* The user parts, or is kicked. *)
Leave(c) ==
  /\ InTime /\ s.member[c] > 0
  /\ s' = Chosen([Tick(s) EXCEPT !.member[c] = 0,
                                 !.wire = Append(@, Msg("gone", c, s.now + 1, 0))], NoWindow)

(* restoreDMWindows, and JoinAutojoinChannels channel by channel *)
ReadSaved ==
  /\ s.restore = "unread"
  /\ s' = [s EXCEPT !.restore = "read",
                    !.mail = @ \cup {[Msg("restored", s.lastDB, 1, 0) EXCEPT !.dms = s.dmDB]}]

JoinNext(c) ==
  /\ c \in s.autojoin
  /\ \/ /\ s.member[c] = 0 /\ InTime
        /\ s' = [Entered(s, c) EXCEPT !.autojoin = @ \ {c}]
     \/ s.member[c] > 0 /\ s' = [s EXCEPT !.autojoin = @ \ {c}]

Autojoined ==
  /\ s.autojoin = {} /\ ~s.sent
  /\ s' = [s EXCEPT !.sent = TRUE, !.mail = @ \cup {Msg("autojoined", NoWindow, 1, 0)}]

Next ==
  \/ WriteState \/ TakeMail \/ TakeEvent \/ Query \/ TypeClose \/ RunCommand \/ ReadSaved \/ Autojoined
  \/ \E c \in Chans : TypeJoin(c) \/ ServerJoin(c) \/ Leave(c) \/ JoinNext(c)
  \/ \E w \in Wins : Pick(w)
---------------------------------------------------------------------------
Quiet ==
  /\ s.wire = <<>> /\ s.mail = {} /\ s.cmds = {} /\ s.autojoin = {} /\ s.sent /\ s.restore = "read"
  /\ \A c \in Chans : s.joining[c] = 0

(* Messages and events that overtake each other do not undo a choice: once all have
   arrived, the window chosen last is the one shown, unless it was closed. Two things
   may take its place: a channel entered after the choice, and a pick or a /close made
   before it whose command took its time after it. *)
LastChoiceShown == Quiet /\ s.choice \in s.open => s.active = s.choice

(* A start nobody interfered with lands in the window that was left open, or the
   channel joined last when there is none. *)
LandsWhereLeft ==
  Quiet /\ s.acted = 0 =>
    s.active = (IF s.first.saved \in Joined(s) \cup s.first.dms THEN s.first.saved
                ELSE IF Joined(s) # {} THEN Newest(s) ELSE NoWindow)

(* What the store keeps for the next start is what the user left: the window shown,
   and the direct windows that are open. *)
SavedAsLeft ==
  /\ s.writes = <<>> /\ s.latest["last"] > 0 => s.lastDB = s.active
  /\ Quiet /\ s.writes = <<>> => s.dmDB = s.open \cap {Peer}

(* A window is shown only while it is open, and once all is quiet one is open for
   exactly the channels the user is in. *)
ShownIsOpen ==
  /\ s.active # NoWindow => s.active \in s.open
  /\ Quiet => s.open \cap Chans = Joined(s)
=============================================================================
