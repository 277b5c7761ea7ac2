----------------------------- MODULE Retention -----------------------------
(* The tables of the store that grow, the transactions that write and clear them, and
   the pass that bounds them when the store is opened (src/internal/store: retention.go,
   sqlite.go). A row is a record with its id; rows of one table are written in the
   order of their ids. *)
EXTENDS Naturals, Sequences, FiniteSets, FiniteSetsExt, TLC

CONSTANTS
  Headroom,       \* eventRetentionHeadroom, modelTurnRetentionHeadroom, memoryRetentionHeadroom
  TurnBytes,      \* modelTurnRetentionBytes
  Batch,          \* eventDeleteBatchSize
  MaxActs         \* bound

VARIABLE s  \* the whole state, a record:
  \* chans: the channel rows, [name, members, invited]; insts: the instances' ids
  \* events: [id, to, from], with to a channel, a model or the user, from only in a
  \*   direct message; read: [window, id], last_read and dm_last_read
  \* scroll, replies, turns, sources: [id, who, window, size]; sums: the same with the
  \*   sources first and last; mems: [id, who, at]
  \* latest: event ids read for a mark that is not written yet, [window, id]
  \* next: the next id; acts: bound
  \* joined: history, [who, window, id], the entries into channels
  \* was: history, the tables before the last pass; opened: history, it was the last step;
  \*   done: history, it ran to its end; failed: history, a statement of it broke a reference

User == "user"  \* the empty instance id
Spellings == {"C", "c"}  \* of one channel; "C" is the smaller one
OnlyChannel(w) == w \in Spellings
Same(a, b) == a = b \/ {a, b} \subseteq Spellings  \* COLLATE NOCASE

Named(t, name) == {c \in t.chans : Same(c.name, name)}
Canonical(t, name) ==  \* GetWindow
  IF \E c \in Named(t, name) : c.name = "C" THEN "C"
  ELSE IF Named(t, name) # {} THEN "c" ELSE name
RowOf(t, name) == CHOOSE c \in t.chans : c.name = name

IdsOf(rows) == {r.id : r \in rows}
Newest(rows, n) == {r \in rows : Cardinality({q \in rows : q.id > r.id}) < n}
Thread(t, a, b) == {e \in t.events : <<e.to, e.from>> \in {<<a, b>>, <<b, a>>}}
---------------------------------------------------------------------------
(* Foreign keys: a row that a cursor or a summary refers to cannot be deleted; a
   deleted channel or instance takes the rows that refer to it. *)

Referred(t) == {c.id : c \in t.read}
SourcesReferred(t) == UNION {{r.first, r.last} : r \in t.sums}

Cascaded(t) ==
  LET names == {c.name : c \in t.chans} IN
  [t EXCEPT !.read = {c \in @ : c.window \in names \cup t.insts},
            !.scroll = {r \in @ : r.window \in names}]
---------------------------------------------------------------------------
(* What the session writes. *)

Rowed(t, who, window, size) == [id |-> t.next, who |-> who, window |-> window, size |-> size]
Projected(t, name) ==  \* appendChannelScrollbackTx, one row for each model in the channel
  [t EXCEPT !.scroll = @ \cup {Rowed(t, m, name, 1) : m \in RowOf(t, name).members \ {User}}]

Logged(t, to, from) == [t EXCEPT !.events = @ \cup {[id |-> t.next, to |-> to, from |-> from]}]
Told(t) == [t EXCEPT !.next = @ + 1, !.acts = @ + 1, !.opened = FALSE]
May == s.acts < MaxActs

(* CommitChannelEvent, CommitChannelUpdate *)
Say ==
  May /\ \E c \in s.chans :
    /\ c.name = Canonical(s, c.name)
    /\ s' = Told(Projected(Logged(s, c.name, "none"), c.name))

Direct ==  \* AppendEvent
  May /\ \E a \in s.insts \cup {User}, b \in s.insts : a # b /\ s' = Told(Logged(s, b, a))

Reply ==  \* AppendInstanceReply
  May /\ \E who \in s.insts : \E w \in {c.name : c \in s.chans} \cup (s.insts \ {who}) :
    s' = Told([s EXCEPT !.replies = @ \cup {Rowed(s, who, w, 1)}])

ClearedHere(t, who, name, turns) ==  \* a mutant: only what was projected
  [t EXCEPT !.scroll = {r \in @ : ~(r.who = who /\ r.window = name)}]

(* resetChannelJoinContext, deleteDepartedActorContext *)
Cleared(t, who, name, turns) ==
  LET of(r) == r.who = who /\ r.window = name IN
  [t EXCEPT !.scroll = {r \in @ : ~of(r)}, !.replies = {r \in @ : ~of(r)}, !.sums = {r \in @ : ~of(r)},
            !.sources = {r \in @ : ~of(r)}, !.turns = {r \in @ : ~(turns /\ of(r))}]

Join ==
  May /\ \E who \in s.insts \cup {User}, spelled \in Spellings :
    LET name == Canonical(s, spelled)
        was == IF Named(s, name) = {} THEN [name |-> name, members |-> {}, invited |-> {}] ELSE RowOf(s, name)
        row == [was EXCEPT !.members = @ \cup {who}, !.invited = @ \ {who}]
        t == Cleared(s, who, name, who \notin was.invited) IN
    /\ who \notin was.members
    /\ s' = Told(Projected(Logged([t EXCEPT !.chans = (@ \ {was}) \cup {row},
                                            !.joined = {j \in @ : <<j.who, j.window>> # <<who, name>>}
                                                         \cup {[who |-> who, window |-> name, id |-> s.next]}],
                                  name, "none"), name))

WithoutChannel(t, name) ==  \* DeleteWindow, and saveChannelDepartureState when nobody is left
  Cascaded([t EXCEPT !.chans = @ \ Named(t, name), !.turns = {r \in @ : ~Same(r.window, name)}])

(* commitChannelDepartureTx *)
Depart ==
  May /\ \E c \in s.chans : \E who \in c.members :
    LET row == [c EXCEPT !.members = @ \ {who}]
        left == IF row.members = {} THEN WithoutChannel(s, c.name)
                ELSE [s EXCEPT !.chans = (@ \ {c}) \cup {row}]
        t == Cleared(Logged(left, c.name, "none"), who, c.name, FALSE) IN
    /\ c.name = Canonical(s, c.name)
    /\ s' = Told(IF row.members = {} THEN t ELSE Projected(t, c.name))

DeleteWindow ==
  May /\ \E c \in s.chans :
    LET t == WithoutChannel(s, c.name)
        of(r) == Same(r.window, c.name) IN
    s' = Told([t EXCEPT !.sums = {r \in @ : ~of(r)}, !.sources = {r \in @ : ~of(r)}])

(* applyChannelMembershipGroup, for the rows of one channel *)
MembershipsGone(t, who) ==
  LET rows == {[c EXCEPT !.members = @ \ {who}] : c \in t.chans}
      changed == \E c \in t.chans : who \in c.members
      left == {c \in rows : c.members # {}} IN
  IF ~changed THEN t
  ELSE Cascaded([t EXCEPT !.chans = left,
                          !.turns = {r \in @ : ~(left = {} /\ \E c \in t.chans : Same(r.window, c.name))}])

(* commitInstanceDeletionTx *)
DeleteInstance ==
  May /\ \E who \in s.insts :
    LET of(r) == who \in {r.who, r.window}
        t == [s EXCEPT !.mems = {r \in @ : r.who # who},
                       !.scroll = {r \in @ : ~of(r)}, !.replies = {r \in @ : ~of(r)}, !.turns = {r \in @ : ~of(r)},
                       !.sums = {r \in @ : ~of(r)}, !.sources = {r \in @ : ~of(r)}]
        u == MembershipsGone(t, who) IN
    s' = Told(Cascaded([u EXCEPT !.insts = @ \ {who}]))

Latest(t, w) ==  \* LatestEventID, LatestDMEventID
  {e.id : e \in Newest(IF OnlyChannel(w) THEN {e \in t.events : e.to = w} ELSE Thread(t, User, w), 1)}

(* UserClient.MarkRead reads the newest event and then writes its cursor. *)
MarkRead ==
  May /\ \E w \in {c.name : c \in s.chans} \cup s.insts : \E id \in Latest(s, w) :
    s' = Told([s EXCEPT !.latest = @ \cup {[window |-> w, id |-> id]}])
Marked ==
  \E c \in s.latest :
    LET t == [s EXCEPT !.latest = @ \ {c}]
        held == c.window \in {d.name : d \in s.chans} \cup s.insts IN
    s' = IF held THEN [t EXCEPT !.read = {d \in @ : d.window # c.window} \cup {c}] ELSE t
---------------------------------------------------------------------------
(* The pass: statements that each delete the rows a predicate names, a batch at a
   time, in this order. *)

Occupied(t, r) ==  \* the subqueries of contextSummaryOrphanPredicate and of the turns'
  \E c \in Named(t, r.window) : r.who \in c.members \cup c.invited
OwnerGone(t, r) == r.who # User /\ r.who \notin t.insts
PeerGone(t, r) == ~OnlyChannel(r.window) /\ r.window \notin t.insts \cup {User, "none"}

OrphanEvents(t) == {e \in t.events : OnlyChannel(e.to) /\ e.to \notin {Canonical(t, c.name) : c \in t.chans}}
OrphanDirect(t) == {e \in t.events : ~OnlyChannel(e.to) /\ ~({e.to, e.from} \subseteq t.insts \cup {User})}

OrphanContextOfMembers(t, rows) ==  \* a mutant: an invited model is not in the channel
  {r \in rows : \/ r.who = User \/ OwnerGone(t, r) \/ PeerGone(t, r)
                \/ OnlyChannel(r.window) /\ ~\E c \in Named(t, r.window) : r.who \in c.members}
OrphanContext(t, rows) ==
  {r \in rows : \/ r.who = User \/ OwnerGone(t, r) \/ PeerGone(t, r)
                \/ OnlyChannel(r.window) /\ ~Occupied(t, r)}

UnheldAll(t, rows) == rows  \* a mutant: cursors hold nothing
Unheld(t, rows) == {e \in rows : e.id \notin Referred(t)}  \* cursorExclusion

Older(rows, n) == rows \ Newest(rows, n)
TrimEachOwner(rows, n) == {r \in rows : r \in Older({q \in rows : q.who = r.who}, n)}  \* a mutant: across windows
TrimEach(rows, n) == {r \in rows : r \in Older({q \in rows : q.who = r.who /\ q.window = r.window}, n)}

OverChannels(t) == {e \in t.events : OnlyChannel(e.to) /\ e \in Older({f \in t.events : f.to = e.to}, Headroom)
                                     /\ e.to \in {c.name : c \in t.chans}}
OverDirectOfOne(t) ==  \* a mutant: the two directions are counted apart
  {e \in t.events : ~OnlyChannel(e.to) /\ e \in Older({f \in t.events : <<f.to, f.from>> = <<e.to, e.from>>}, Headroom)}
OverDirect(t) == {e \in t.events : ~OnlyChannel(e.to) /\ e \in Older(Thread(t, e.to, e.from), Headroom)}

OverTurnsAll(t) ==  \* a mutant: the newest turn is trimmed for its size
  {r \in t.turns : LET own == {q \in t.turns : q.who = r.who /\ q.id >= r.id} IN
     Cardinality(own) > Headroom \/ FoldSet(LAMBDA q, n : q.size + n, 0, own) > TurnBytes}
OverTurns(t) ==
  {r \in t.turns : LET own == {q \in t.turns : q.who = r.who /\ q.id >= r.id} IN
     \/ Cardinality(own) > Headroom
     \/ Cardinality(own) > 1 /\ FoldSet(LAMBDA q, n : q.size + n, 0, own) > TurnBytes}
OverMemories(t) ==
  {r \in t.mems : Cardinality({q \in t.mems : q.who = r.who /\ (q.at > r.at \/ (q.at = r.at /\ q.id < r.id))}) >= Headroom}

Statement(t, i) ==
  LET on(table, rows) == [table |-> table, rows |-> rows] IN
  CASE i = 1 -> on("events", Unheld(t, OrphanEvents(t)))
    [] i = 2 -> on("events", Unheld(t, OrphanDirect(t)))
    [] i = 3 -> on("scroll", {r \in t.scroll : OwnerGone(t, r)})
    [] i = 4 -> on("replies", {r \in t.replies : OwnerGone(t, r) \/ PeerGone(t, r)})
    [] i = 5 -> on("turns", OrphanContext(t, t.turns))
    [] i = 6 -> on("sums", OrphanContext(t, t.sums))
    [] i = 7 -> on("sources", OrphanContext(t, t.sources))
    [] i = 8 -> on("mems", {r \in t.mems : OwnerGone(t, r)})
    [] i = 9 -> on("events", Unheld(t, OverChannels(t)))
    [] i = 10 -> on("scroll", TrimEach(t.scroll, Headroom))
    [] i = 11 -> on("replies", TrimEach(t.replies, Headroom))
    [] i = 12 -> on("events", Unheld(t, OverDirect(t)))
    [] i = 13 -> on("turns", OverTurns(t))
    [] i = 14 -> on("mems", OverMemories(t))
Passes == 14

\* deleteEventsBatched: one batch of statement i; a broken reference fails it
Oldest(rows, n) == {r \in rows : Cardinality({q \in rows : q.id < r.id}) < n}
Batched(t, i) ==
  LET d == Statement(t, i)
      gone == Oldest(d.rows, Batch)
      broken == \/ d.table = "events" /\ IdsOf(gone) \cap Referred(t) # {}
                \/ d.table = "sources" /\ IdsOf(gone) \cap SourcesReferred(t) # {} IN
  IF broken THEN [t EXCEPT !.failed = TRUE] ELSE [t EXCEPT ![d.table] = @ \ gone]

RECURSIVE Emptied(_, _)
Emptied(t, i) ==
  IF t.failed \/ Statement(t, i).rows = {} THEN t ELSE Emptied(Batched(t, i), i)

RECURSIVE Pruned(_, _)
Pruned(t, n) == IF n = 0 THEN t ELSE LET u == Pruned(t, n - 1) IN IF u.failed THEN u ELSE Emptied(u, n)

Tables == {"events", "read", "scroll", "replies", "turns", "sums", "sources", "mems", "chans", "insts"}

(* NewSQLiteStore: an error in any statement ends the pass, and the store is opened as
   it is then. *)
Open ==
  /\ May
  /\ \E n \in 0..Passes :
       LET t == Pruned([s EXCEPT !.latest = {}, !.was = [x \in Tables |-> s[x]], !.done = n = Passes], n) IN
       s' = [Told(IF n < Passes /\ ~t.failed /\ Statement(t, n + 1).rows # {} THEN Batched(t, n + 1) ELSE t)
               EXCEPT !.opened = TRUE]
---------------------------------------------------------------------------
(* Databases earlier sessions left: with both spellings of a channel, rows of instances
   that are gone, and more rows than are kept. *)

E(id, to, from) == [id |-> id, to |-> to, from |-> from]
X(id, who, window, size) == [id |-> id, who |-> who, window |-> window, size |-> size]
Summed(r) == [id |-> r.id, who |-> r.who, window |-> r.window, size |-> 1, first |-> r.id, last |-> r.id]
Rows == {X(1, "m", "C", 1), X(2, "m", "n", 2), X(3, "m", "C", 1), X(4, "n", "C", 1),
         X(5, "m", "C", 4), X(6, "gone", "C", 1), X(7, "m", "gone", 1), X(8, User, "C", 1)}
Channel(name, members, invited) == [name |-> name, members |-> members, invited |-> invited]

Databases ==
  {[chans |-> chans, insts |-> {"m", "n"}, events |-> events, read |-> read,
    scroll |-> {r \in Rows : OnlyChannel(r.window) /\ r.window \in {c.name : c \in chans}},
    replies |-> Rows, turns |-> Rows,
    sums |-> {Summed(r) : r \in Rows}, sources |-> Rows,
    mems |-> {[id |-> k, who |-> w, at |-> IF k = 1 THEN 2 ELSE 1] : k \in 1..3, w \in {"m", "gone"}}] :
     chans \in {{Channel("C", {"m", User}, {"n"})}, {Channel("C", {"m"}, {}), Channel("c", {"n"}, {})},
                {Channel("c", {User, "m", "n"}, {})}},
     events \in {{E(1, "C", "none"), E(2, "C", "none"), E(3, "C", "none"), E(4, "c", "none")},
                 {E(1, "m", User), E(2, "m", User), E(3, User, "m"), E(4, "m", "gone"), E(5, "C", "none")}},
     read \in {{}, {[window |-> "C", id |-> 1]}, {[window |-> "m", id |-> 1]}}}
ReadOf(db) ==  \* a cursor has a window and one of its events
  \A c \in db.read : /\ c.window \in {d.name : d \in db.chans} \cup db.insts
                     /\ \E e \in db.events : e.id = c.id /\ e.to = c.window

Init ==
  \E db \in {d \in Databases : ReadOf(d)} :
    s = [next |-> 9, acts |-> 0, latest |-> {}, was |-> db, opened |-> FALSE, joined |-> {}, done |-> FALSE, failed |-> FALSE] @@ db

Next ==
  \/ Say \/ Direct \/ Reply \/ Join \/ Depart \/ DeleteWindow \/ DeleteInstance \/ MarkRead \/ Marked \/ Open
---------------------------------------------------------------------------
(* Every cursor has its event and its window, every summary its sources, and every row
   of a scrollback its channel; no statement of the pass fails for one of them. *)
ReferencesHold ==
  /\ ~s.failed
  /\ Referred(s) \subseteq IdsOf(s.events)
  /\ SourcesReferred(s) \subseteq IdsOf(s.sources)
  /\ \A c \in s.read : c.window \in {d.name : d \in s.chans} \cup s.insts
  /\ \A r \in s.scroll : r.window \in {d.name : d \in s.chans}

Unread(t, w) ==  \* CountEventsFrom, CountDMEventsFrom
  LET rows == IF OnlyChannel(w) THEN {e \in t.events : e.to = w} ELSE Thread(t, User, w)
      from == {c.id : c \in {d \in t.read : d.window = w}} IN
  Cardinality({e \in rows : \A id \in from : e.id > id})

Capped(n) == IF n < Headroom THEN n ELSE Headroom

(* A pass, or a part of one, changes nothing a reader within the headroom sees: the
   newest lines of a channel, a thread, a scrollback or the replies of a window that is
   still there, the turn that is under way, and the counts of what is unread up to the
   headroom. *)
ReadsKept ==
  s.opened =>
    LET newest(rows) == Newest(rows, Headroom) IN
    /\ \A c \in s.chans : LET n == Canonical(s, c.name) IN
         newest({e \in s.events : e.to = n}) = newest({e \in s.was.events : e.to = n})
    /\ \A a, b \in s.insts \cup {User} : newest(Thread(s, a, b)) = newest(Thread(s.was, a, b))
    /\ \A x \in {"scroll", "replies"}, who \in s.insts, w \in {"C", "c", "m", "n"} :
         LET of(t) == {r \in t[x] : r.who = who /\ r.window = w} IN newest(of(s)) = newest(of(s.was))
    /\ \A who \in s.insts :
         LET of(t) == {r \in t.turns : r.who = who /\ r \notin OrphanContext(s, {r})} IN
         Newest(of(s), 1) = Newest(of(s.was), 1)
    /\ \A w \in {Canonical(s, c.name) : c \in s.chans} \cup s.insts :
         Capped(Unread(s, w)) = Capped(Unread(s.was, w))
    /\ \A r \in s.was.sums : r.who # User /\ ~OwnerGone(s, r) /\ ~PeerGone(s, r)
                             /\ (OnlyChannel(r.window) => Occupied(s, r)) => r \in s.sums

(* After a whole pass nothing is left of an instance or a window that is gone, but what
   a cursor holds, and no conversation is over its bound. *)
NothingLeft ==
  s.opened /\ s.done =>
    LET free == {e \in s.events : e.id \notin Referred(s)} IN
    /\ \A e \in free : IF OnlyChannel(e.to) THEN \E c \in s.chans : e.to = Canonical(s, c.name)
                       ELSE {e.to, e.from} \subseteq s.insts \cup {User}
    /\ \A r \in s.scroll \cup s.replies \cup s.turns \cup s.sources : r.who \in s.insts \cup {User}
    /\ \A r \in s.turns \cup s.sources : OnlyChannel(r.window) => Occupied(s, r)
    /\ \A w \in Spellings : Cardinality({e \in free : e.to = w}) <= Headroom
    /\ \A a, b \in s.insts \cup {User} : Cardinality(Thread(s, a, b) \cap free) <= Headroom
    /\ \A who \in s.insts : Cardinality({r \in s.turns : r.who = who}) <= Headroom
    /\ \A r \in s.mems : r.who \in s.insts

(* A model that has come into a channel has nothing there from before. *)
FreshContext ==
  \A j \in s.joined, r \in s.scroll \cup s.replies \cup s.sources :
    r.who = j.who /\ r.window = j.window => r.id >= j.id
=============================================================================
