----------------------------- MODULE MemberView -----------------------------
(* Who is in a channel, at the server and on the user's screen: each event of a member
   is projected for the user, whose name alone an anonymous channel shows, and the
   screen's list follows the events (src/internal/session/fanout.go, mode_apply.go,
   actions.go; src/internal/domain/member.go; src/internal/ui/screens/chat_events.go). *)
EXTENDS Naturals, Sequences, FiniteSets, SequencesExt, TLC

CONSTANTS
  Models,   \* the other clients
  Chans,
  Nicks,    \* nicks, more than clients
  MaxActs   \* bound: commands

VARIABLE s  \* the whole state, a record:
  \* conn: connected models; nick: of each client; in: each channel's members, with the
  \*   letters of their modes; anon: the +a channels; topic: "" or "t"
  \* wire: deliveries to the user; view, says: the list and the topic of each window of
  \*   the screen, a list of [id, nick, modes], or Shut
  \* stay: history, what the channel was while the user has been in it: "named",
  \*   "masked", "mixed", or "out"
  \* owed: history, for each channel what happened to its members before the user's eyes and has
  \*   no line yet; leaked: history, an anonymous channel's event named somebody
  \* acts: bound

User == "u"
Everyone == Models \cup {User}
Anon == "anonymous"
Row(id, nick, modes) == [id |-> id, nick |-> nick, modes |-> modes]
Shut == {Row("shut", "shut", {})}  \* no window
Rows(t, c) == {Row(i, t.nick[i], t.in[c][i]) : i \in DOMAIN t.in[c]}
Masked == {Row(Anon, Anon, {})}  \* AnonymousMembers
Here(t, c) == User \in DOMAIN t.in[c]

Init ==
  \E in \in [Chans -> SUBSET Everyone], anon \in SUBSET Chans :
    LET nick == CHOOSE f \in [Everyone -> Nicks] : \A i, j \in Everyone : f[i] = f[j] => i = j IN
    /\ \A c \in Chans : User \in in[c]
    /\ LET all == [c \in Chans |-> [i \in in[c] |-> IF i = User THEN {"o"} ELSE {}]] IN
       s = [conn |-> Models, nick |-> nick, in |-> all, anon |-> anon,
            topic |-> [c \in Chans |-> ""], wire |-> <<>>,
            view |-> [c \in Chans |-> IF c \in anon THEN Masked
                                      ELSE {Row(i, nick[i], all[c][i]) : i \in in[c]}],
            says |-> [c \in Chans |-> ""],
            stay |-> [c \in Chans |-> IF c \in anon THEN "masked" ELSE "named"],
            owed |-> [c \in Chans |-> 0], leaked |-> FALSE, acts |-> 0]
---------------------------------------------------------------------------
(* What the user is sent. id and nick are the source's; subject: who was kicked or has
   a mode; value: a nick, a topic, or whether a mode is added; list: names, targets. *)
Event(kind, c, id, nick) ==
  [kind |-> kind, w |-> c, id |-> id, nick |-> nick, subject |-> "", value |-> "", list |-> {}]

(* maskChannelEvent *)
MaskedEventOfSource(t, e) ==  \* a mutant: only the source is hidden
  IF e.id # User THEN [e EXCEPT !.id = Anon, !.nick = Anon] ELSE e
MaskedEvent(t, e) ==
  LET hidden == IF e.id # User THEN [e EXCEPT !.id = Anon, !.nick = Anon] ELSE e IN
  IF e.subject \notin {"", t.nick[User]} THEN [hidden EXCEPT !.subject = Anon] ELSE hidden

Names(t, e) ==
  \/ e.id \notin {User, Anon}
  \/ e.subject \notin {"", Anon, t.nick[User]}

Send(t, e) ==
  [t EXCEPT !.wire = Append(@, e), !.leaked = @ \/ (e.w \in t.anon /\ Names(t, e))]

(* projectEventForRecipient, channelEventRoutes *)
Tell(t, e) ==
  IF ~Here(t, e.w) THEN t
  ELSE Send(t, IF e.w \in t.anon THEN MaskedEvent(t, e) ELSE e)

Shared(t, i) == {c \in Chans : Here(t, c) /\ i \in DOMAIN t.in[c]}
NamedToAll(t, i) == Shared(t, i)  \* a mutant: anonymous channels are among the targets
NamedTo(t, i) == Shared(t, i) \ t.anon  \* namedChannels
---------------------------------------------------------------------------
(* The screen, which takes the deliveries in their order. *)

(* RemoveID, RemoveNick *)
Without(view, id) == {r \in view : r.id # id}
WithoutNick(view, nick) == {r \in view : r.nick # nick}

Opened(view) == IF view = Shut THEN {} ELSE view
Lined(t, e, chans) == [c \in Chans |-> IF c \in chans THEN t.owed[c] - 1 ELSE t.owed[c]]

(* AddIdentity *)
Added(view, id, nick) ==
  IF \E r \in view : r.id = id THEN view ELSE view \cup {Row(id, nick, {})}

(* RenameID, RenameNick *)
Renamed(view, id, old, new) ==
  LET is(r) == IF \E q \in view : q.id = id THEN r.id = id ELSE r.nick = old IN
  {IF is(r) THEN [r EXCEPT !.nick = new] ELSE r : r \in view}

(* ApplyModeNick *)
ModeSet(view, nick, add) ==
  {IF r.nick = nick THEN [r EXCEPT !.modes = IF add THEN {"o"} ELSE {}] ELSE r : r \in view}

(* handleJoinEvent; the window of the user's own JOIN is new *)
JoinSeen(t, e) ==
  LET u == [t EXCEPT !.owed = Lined(t, e, {e.w})] IN
  IF e.id = User THEN [u EXCEPT !.view[e.w] = Added(Opened(@), User, e.nick)]
  ELSE IF t.view[e.w] = Shut \/ e.id = Anon THEN u
  ELSE [u EXCEPT !.view[e.w] = Added(@, e.id, e.nick)]

Closed(t, c) == [t EXCEPT !.view[c] = Shut, !.says[c] = ""]

(* handlePartEvent *)
PartSeen(t, e) ==
  LET u == [t EXCEPT !.owed = Lined(t, e, {e.w}),
                     !.view[e.w] = IF @ = Shut \/ e.id = Anon THEN @ ELSE Without(@, e.id)] IN
  IF e.id = User THEN Closed(u, e.w) ELSE u

KickSeenById(t, e) ==  \* a mutant: the kicked member stays on the list
  LET u == [t EXCEPT !.owed = Lined(t, e, {e.w})] IN
  IF e.subject = t.nick[User] THEN Closed(u, e.w) ELSE u

(* handleKickedEvent; SubjectIsSelf is told by the server, value "self" *)
KickSeen(t, e) ==
  LET u == [t EXCEPT !.owed = Lined(t, e, {e.w}),
                     !.view[e.w] = IF @ = Shut \/ e.subject = Anon THEN @ ELSE WithoutNick(@, e.subject)] IN
  IF e.value = "self" THEN Closed(u, e.w) ELSE u

QuitSeenById(t, e) == t  \* a mutant: only PART takes a member off the list

(* handleQuitEvent *)
QuitSeen(t, e) ==
  [t EXCEPT !.owed = Lined(t, e, e.list),
            !.view = [c \in Chans |-> IF c \in e.list /\ @[c] # Shut
                                      THEN Without(@[c], e.id) ELSE @[c]]]

NickSeenHere(t, e) ==  \* a mutant: the first target alone is renamed
  LET c == CHOOSE d \in e.list : TRUE IN
  IF e.list = {} THEN t ELSE [t EXCEPT !.view[c] = IF @ = Shut THEN Shut ELSE Renamed(@, e.id, e.nick, e.value)]

(* handleNickChangeEvent *)
NickSeen(t, e) ==
  [t EXCEPT !.view = [c \in Chans |-> IF c \in e.list /\ @[c] # Shut
                                      THEN Renamed(@[c], e.id, e.nick, e.value) ELSE @[c]]]

(* handleChannelModeChangeEvent *)
ModeSeen(t, e) ==
  IF t.view[e.w] = Shut \/ e.subject \in {"", Anon} THEN t
  ELSE [t EXCEPT !.view[e.w] = ModeSet(@, e.subject, e.value = "add")]

(* handleTopicChangeEvent, handleTopicInfoEvent *)
TopicSeen(t, e) == IF t.view[e.w] = Shut THEN t ELSE [t EXCEPT !.says[e.w] = e.value]

(* handleNamesReply *)
NamesSeen(t, e) == IF t.view[e.w] = Shut THEN t ELSE [t EXCEPT !.view[e.w] = e.list]

Seen(t, e) ==
  CASE e.kind = "join" -> JoinSeen(t, e)
    [] e.kind = "part" -> PartSeen(t, e)
    [] e.kind = "kick" -> KickSeen(t, e)
    [] e.kind = "quit" -> QuitSeen(t, e)
    [] e.kind = "nick" -> NickSeen(t, e)
    [] e.kind = "mode" -> ModeSeen(t, e)
    [] e.kind = "topic" -> TopicSeen(t, e)
    [] e.kind = "names" -> NamesSeen(t, e)

Read == s.wire # <<>> /\ s' = Seen([s EXCEPT !.wire = Tail(@)], Head(s.wire))
---------------------------------------------------------------------------
(* Commands. *)

Act == [s EXCEPT !.acts = @ + 1]
Owe(t, chans) == [t EXCEPT !.owed = [c \in Chans |-> IF c \in chans THEN @[c] + 1 ELSE @[c]]]
Source(kind, c, i) == Event(kind, c, i, s.nick[i])

(* A channel ends with its last member, and its modes and topic with it. *)
Gone(t, i, c) ==
  LET left == [j \in DOMAIN t.in[c] \ {i} |-> t.in[c][j]]
      u == [t EXCEPT !.in[c] = left, !.stay[c] = IF i = User THEN "out" ELSE @] IN
  IF DOMAIN left = {} THEN [u EXCEPT !.anon = @ \ {c}, !.topic[c] = ""] ELSE u

(* joinAs: the JOIN, and for the one who joins the topic and the names *)
Join(i, c) ==
  /\ i \notin DOMAIN s.in[c] /\ i \in s.conn \cup {User}
  /\ LET new == IF s.in[c] = <<>> THEN {"o"} ELSE {}
         t == [Act EXCEPT !.in[c] = @ @@ (i :> new),
                          !.stay[c] = IF i # User THEN @
                                      ELSE IF c \in s.anon THEN "masked" ELSE "named"]
         told == Tell(IF Here(t, c) THEN Owe(t, {c}) ELSE t, Source("join", c, i))
         topic == [Event("topic", c, User, s.nick[User]) EXCEPT !.value = t.topic[c]]
         names == [Event("names", c, User, s.nick[User]) EXCEPT
                     !.list = IF c \in s.anon THEN Masked ELSE Rows(t, c)] IN
     s' = IF i # User THEN told
          ELSE Send(IF t.topic[c] = "" THEN told ELSE Send(told, topic), names)

(* PART, and KICK by an operator: the event goes to all who were in the channel *)
Part(i, c) ==
  /\ i \in DOMAIN s.in[c]
  /\ LET t == IF Here(s, c) THEN Owe(Act, {c}) ELSE Act IN
     s' = Gone(Tell(t, Source("part", c, i)), i, c)

(* kickAs *)
Kick(by, i, c) ==
  /\ {by, i} \subseteq DOMAIN s.in[c] /\ (by = User \/ s.in[c][by] # {})
  /\ LET t == IF Here(s, c) THEN Owe(Act, {c}) ELSE Act
         e == [Source("kick", c, by) EXCEPT !.subject = s.nick[i],
                                            !.value = IF i = User THEN "self" ELSE ""] IN
     s' = Gone(Tell(t, e), i, c)

(* setMemberModeAs: also of a nick that is not in the channel, which changes nothing
   and is announced like the others *)
ModeApplied(t, by, i, c, add) ==
  LET u == IF i \in DOMAIN t.in[c] THEN [t EXCEPT !.in[c][i] = IF add THEN {"o"} ELSE {}] ELSE t IN
  Tell(u, [Source("mode", c, by) EXCEPT !.subject = s.nick[i], !.value = IF add THEN "add" ELSE "remove"])

(* setChannelAttributeAs of +a and -a: projected under the modes as they were *)
AnonApplied(t, by, c, add) ==
  LET told == Tell(t, [Source("mode", c, by) EXCEPT !.value = IF add THEN "add" ELSE "remove"]) IN
  [told EXCEPT !.anon = IF add THEN @ \cup {c} ELSE @ \ {c},
               !.stay[c] = IF Here(t, c) /\ add # (c \in t.anon) THEN "mixed" ELSE @]

(* applyChannelModeChangesAs: one change after the other, until one cannot be stored *)
Mode(by, c) ==
  /\ by \in DOMAIN s.in[c] /\ (by = User \/ s.in[c][by] # {})
  /\ \E i \in s.conn \cup {User}, add, addAnon, both \in BOOLEAN :
       LET t == ModeApplied(Act, by, i, c, add) IN
       s' = IF both THEN AnonApplied(t, by, c, addAnon) ELSE t

(* setTopicAs *)
Topic(i, c) ==
  /\ i \in DOMAIN s.in[c] /\ s.topic[c] = ""
  /\ s' = Tell([Act EXCEPT !.topic[c] = "t"], [Source("topic", c, i) EXCEPT !.value = "t"])

(* changeNickAs: the user's own is sent for all channels, or for none *)
NickChange(i, new) ==
  /\ i \in s.conn \cup {User} /\ new \notin {s.nick[j] : j \in Everyone}
  /\ LET t == [Act EXCEPT !.nick[i] = new]
         targets == IF i = User THEN Shared(s, i) ELSE NamedTo(s, i)
         e == [Source("nick", "", i) EXCEPT !.value = new, !.list = targets] IN
     s' = IF targets = {} /\ i # User THEN t
          ELSE [Send(t, e) EXCEPT !.leaked = @ \/ (i # User /\ targets \cap s.anon # {})]

QuitPartsNone(t, i, chans) == t  \* a mutant: nothing is told in anonymous channels

(* anonymousPartRoutes *)
QuitParts(t, i, chans) ==
  [t EXCEPT !.wire = @ \o [n \in 1..Cardinality(chans) |->
                             Event("part", SetToSeq(chans)[n], Anon, Anon)]]

(* A model leaves the server, or is killed: quitRoutes *)
Quit(i) ==
  /\ i \in s.conn
  /\ LET named == NamedTo(s, i)
         owing == Owe(Act, Shared(s, i))
         told == IF named = {} THEN owing
                 ELSE [Send(owing, [Source("quit", "", i) EXCEPT !.list = named]) EXCEPT
                         !.leaked = @ \/ named \cap s.anon # {}]
         parted == QuitParts(told, i, Shared(s, i) \cap s.anon) IN
     s' = [FoldLeft(LAMBDA t, c : IF i \in DOMAIN t.in[c] THEN Gone(t, i, c) ELSE t,
                    parted, SetToSeq(Chans)) EXCEPT !.conn = @ \ {i}]

Connect(i) == i \in Models \ s.conn /\ s' = [Act EXCEPT !.conn = @ \cup {i}]

Command ==
  /\ s.acts < MaxActs
  /\ \/ \E i \in Everyone, c \in Chans : Join(i, c) \/ Part(i, c) \/ Mode(i, c) \/ Topic(i, c)
     \/ \E by, i \in Everyone, c \in Chans : Kick(by, i, c)
     \/ \E i \in Everyone, new \in Nicks : NickChange(i, new)
     \/ \E i \in Models : Quit(i) \/ Connect(i)

Next == Read \/ Command
---------------------------------------------------------------------------
(* When the screen has read everything, the list of a channel that named its members
   for the user's whole stay is the server's: every nick, every operator; a window is
   there for exactly the channels the user is in, with the topic. *)
ListAgrees ==
  s.wire = <<>> =>
    \A c \in Chans :
      /\ (s.view[c] # Shut) = Here(s, c)
      /\ s.stay[c] = "named" => s.view[c] = Rows(s, c)
      /\ Here(s, c) => s.says[c] = s.topic[c]

(* An anonymous channel's events name nobody but the user, and a list kept while the
   channel was anonymous throughout shows nobody else. *)
NobodyNamed ==
  /\ ~s.leaked
  /\ \A c \in Chans :
       s.stay[c] = "masked" /\ s.wire = <<>> => \A r \in s.view[c] : r.id \in {User, Anon}

(* Who enters or leaves a channel before the user's eyes has one line there, by name or
   not, however many channels a QUIT is split over. *)
EachHasALine == s.wire = <<>> => \A c \in Chans : s.owed[c] = 0
=============================================================================
