---------------------------- MODULE MessagePane ----------------------------
(* The pane that shows a window's lines (src/internal/ui/components: message_list.go,
   scrollback.go, ring_buffer.go; ui/screens/window.go): the ring of a window's events,
   the rendered lines and the block that are kept between draws, the viewport that is
   given the block, and the divider before the first line the reader has not seen. *)
EXTENDS Integers, Sequences, FiniteSets, SequencesExt

CONSTANTS
  InitialCap, Limit,  \* scrollbackInitialCap, ScrollbackLimit
  Stride,             \* scrollbackOriginStride
  Height,             \* of the pane
  Joins, NewDay,      \* data: the events a direct window leaves out; the first of a later day
  MaxActs             \* bound

VARIABLE s  \* the whole state, a record:
  \* origin: scrollbackOrigin; open: the windows; box: their Scrollbacks
  \* active: the visibleWindow; told: messages under way, [what, ch]
  \* next: the next event; acts: bound
  \* list: the MessageList, with ch, kind, width, seen, last (lastNextSeq), unseen,
  \*   config (configGen); cache: its listCache
  \* view: its viewport, [lines, off, key, has]
  \* log: history, the events of each window since it was opened or cleared
  \* watched: history, the events the reader has had in view at the bottom of a window
  \* fresh: history, the events of a window past its mark

Wins == {"c", "p"}
NoWin == ""
KindOf(w) == IF w = "p" THEN "dm" ELSE "channel"
Untracked == -1
NoMemo == [ok |-> FALSE, seq |-> <<>>]
---------------------------------------------------------------------------
(* RingBuffer: an event is a number, an empty place is 0. *)

Ring(cap) == [items |-> [i \in 0..(cap - 1) |-> 0], head |-> 0, count |-> 0]
Cap(r) == Cardinality(DOMAIN r.items)
Put(r, e) ==
  IF Cap(r) = 0 THEN r
  ELSE LET t == [r EXCEPT !.items[(r.head + r.count) % Cap(r)] = e] IN
       IF r.count = Cap(r) THEN [t EXCEPT !.head = (@ + 1) % Cap(r)] ELSE [t EXCEPT !.count = @ + 1]
Slice(r) == [i \in 1..r.count |-> r.items[(r.head + i - 1) % Cap(r)]]
Emptied(r) == Ring(Cap(r))
Resized(r, cap) == FoldLeft(Put, Ring(cap), SubSeq(Slice(r), 1 + (IF r.count > cap THEN r.count - cap ELSE 0), r.count))

(* Scrollback *)
NewScrollback(first) == [ring |-> Ring(0), first |-> first, memo |-> NoMemo]
NextSeq(b) == b.first + b.ring.count
Events(b) == IF b.memo.ok THEN b.memo.seq ELSE Slice(b.ring)
Asked(b) == [b EXCEPT !.memo = [ok |-> TRUE, seq |-> Events(b)]]
Roomy(b) ==  \* makeRoom
  LET cap == Cap(b.ring) IN
  IF cap = 0 THEN [b EXCEPT !.ring = Ring(InitialCap)]
  ELSE IF b.ring.count < cap \/ cap >= Limit THEN b
  ELSE [b EXCEPT !.ring = Resized(@, IF cap * 2 < Limit THEN cap * 2 ELSE Limit)]

AppendedUnnumbered(b, e) ==  \* a mutant: a dropped event keeps its number
  LET t == Roomy(b) IN [t EXCEPT !.ring = Put(@, e), !.memo = NoMemo]
AppendedBehind(b, e) ==  \* a mutant: the slice handed out is not renewed
  LET t == Roomy(b) IN [t EXCEPT !.first = IF t.ring.count = Cap(t.ring) THEN @ + 1 ELSE @, !.ring = Put(@, e)]
Appended(b, e) ==
  LET t == Roomy(b) IN
  [t EXCEPT !.first = IF t.ring.count = Cap(t.ring) THEN @ + 1 ELSE @, !.ring = Put(@, e), !.memo = NoMemo]

Wiped(b) == [b EXCEPT !.first = NextSeq(b), !.memo = NoMemo, !.ring = Emptied(@)]  \* Clear
PrependedInPlace(b, held) ==  \* a mutant: the numbering is kept
  FoldLeft(Appended, [b EXCEPT !.memo = NoMemo, !.ring = Emptied(@)], held \o Events(b))
Prepended(b, held) == IF held = <<>> THEN b ELSE FoldLeft(Appended, Wiped(b), held \o Events(b))
---------------------------------------------------------------------------
(* What is drawn. *)

Content(t) ==  \* visibleWindow.content
  IF t.active = NoWin THEN [ch |-> NoWin, first |-> 0, events |-> <<>>]
  ELSE [ch |-> t.active, first |-> t.box[t.active].first, events |-> Events(t.box[t.active])]
Next0(c) == c.first + Len(c.events)  \* WindowContent.nextSeq

LineKey(t) == [width |-> t.list.width, kind |-> t.list.kind, config |-> t.list.config]
Item(what, n, key) == [what |-> what, n |-> n, key |-> key]
Day(e) == IF e >= NewDay THEN 1 ELSE 0
Suppressed(e, key) == key.kind = "dm" /\ e \in Joins
Rendered(e, key) == IF Suppressed(e, key) THEN Item("", 0, key) ELSE Item("line", e, key)

MarkOf(t, c) == IF t.list.seen[c.ch] = Untracked THEN Next0(c) ELSE t.list.seen[c.ch]
DividerDropped(t, c) ==  \* a mutant: a mark before the oldest line shows nothing
  LET at == MarkOf(t, c) - c.first
      unseen == IF c.ch = t.list.ch THEN t.list.unseen ELSE MarkOf(t, c) < Next0(c) IN
  IF ~unseen \/ at < 0 \/ at >= Len(c.events) THEN -1 ELSE at
DividerIndex(t, c) ==
  LET at == MarkOf(t, c) - c.first
      unseen == IF c.ch = t.list.ch THEN t.list.unseen ELSE MarkOf(t, c) < Next0(c) IN
  IF ~unseen \/ at >= Len(c.events) THEN -1 ELSE IF at < 0 THEN 0 ELSE at

BlockKey(t, c) ==
  [line |-> LineKey(t), ch |-> c.ch, first |-> c.first, count |-> Len(c.events), divider |-> DividerIndex(t, c)]

\* The loop of renderedContent over the lines of the events.
Block(key, events, lines) ==
  LET shown(i) == ~Suppressed(events[i], key.line)
      before(i) == {j \in 1..(i - 1) : shown(j)}
      newDay(i) == before(i) # {} /\ Day(events[i]) # Day(events[CHOOSE j \in before(i) : \A k \in before(i) : k <= j])
      item(i) == (IF i - 1 = key.divider THEN <<Item("new", 0, key.line)>> ELSE <<>>)
                 \o (IF shown(i) /\ newDay(i) THEN <<Item("day", Day(events[i]), key.line)>> ELSE <<>>)
                 \o (IF shown(i) THEN <<lines[i]>> ELSE <<>>) IN
  FlattenSeq([i \in 1..Len(events) |-> item(i)])

\* refreshLines
Missing(c, lines, key) == [i \in 1..(Len(c.events) - Len(lines)) |-> Rendered(c.events[Len(lines) + i], key)]
RefreshedAtBase(cache, c, key) ==  \* a mutant: the lines of dropped events stay in front
  LET kept == IF cache.key # key \/ cache.ch # c.ch THEN <<>> ELSE cache.lines
      lines == IF Len(c.events) < Len(kept) THEN <<>> ELSE kept IN
  [cache EXCEPT !.key = key, !.ch = c.ch, !.base = c.first, !.lines = lines \o Missing(c, lines, key)]
Refreshed(cache, c, key) ==
  LET other == cache.key # key \/ cache.ch # c.ch \/ c.first < cache.base
      dropped == c.first - cache.base
      kept == IF other \/ (dropped > 0 /\ dropped >= Len(cache.lines)) THEN <<>>
              ELSE SubSeq(cache.lines, dropped + 1, Len(cache.lines))
      lines == IF Len(c.events) < Len(kept) THEN <<>> ELSE kept IN
  [cache EXCEPT !.key = key, !.ch = c.ch, !.base = c.first, !.lines = lines \o Missing(c, lines, key)]

RenderedContent(t) ==  \* the cache with the block for what is in view
  LET c == Content(t)  key == BlockKey(t, c) IN
  IF t.cache.has /\ t.cache.blockKey = key THEN t.cache
  ELSE LET cache == Refreshed(t.cache, c, key.line) IN
       [cache EXCEPT !.has = TRUE, !.blockKey = key, !.block = Block(key, c.events, cache.lines)]

ReadNow(t) == [t EXCEPT !.box = [w \in Wins |-> IF w = t.active THEN Asked(@[w]) ELSE @[w]]]
---------------------------------------------------------------------------
(* The viewport: how many of its lines are above the pane. *)

Bottom(v) == IF Len(v.lines) > Height THEN Len(v.lines) - Height ELSE 0
AtBottom(v) == v.off >= Bottom(v)
GotoBottom(v) == [v EXCEPT !.off = Bottom(v)]
SetContent(v, lines) == LET u == [v EXCEPT !.lines = lines] IN IF u.off > Bottom(u) THEN GotoBottom(u) ELSE u

GrownAnywhere(t, c, switched, bottom) == ~switched /\ Next0(c) > t.list.last  \* a mutant
Grown(t, c, switched, bottom) == ~switched /\ Next0(c) > t.list.last /\ bottom

SyncContent(t0) ==
  LET t == ReadNow(t0)
      c == Content(t)
      switched == c.ch # t.list.ch
      v == IF switched THEN [GotoBottom(SetContent(t.view, <<>>)) EXCEPT !.has = FALSE] ELSE t.view
      bottom == AtBottom(v) \/ v.lines = <<>>
      grown == Grown(t, c, switched, bottom)
      seen == IF grown THEN Next0(c) ELSE MarkOf(t, c)
      u == [t EXCEPT !.list.ch = c.ch, !.list.seen[c.ch] = seen, !.list.last = Next0(c), !.list.unseen = seen < Next0(c)]
      cache == RenderedContent(u)
      given == IF v.has /\ v.key = cache.blockKey THEN v
               ELSE [SetContent(v, cache.block) EXCEPT !.key = cache.blockKey, !.has = TRUE]
      shown == IF bottom THEN GotoBottom(given) ELSE given IN
  [u EXCEPT !.cache = cache, !.view = shown,
            !.watched[c.ch] = IF AtBottom(shown) THEN @ \cup ToSet(c.events) ELSE @,
            !.fresh[c.ch] = IF grown \/ t.list.seen[c.ch] = Untracked THEN {} ELSE @]
---------------------------------------------------------------------------
Did(t) == [t EXCEPT !.acts = @ + 1]
May == s.acts < MaxActs
Message(what, ch) == [what |-> what, ch |-> ch]

(* appendToScrollback, and the message that tells the pane *)
Arrive ==
  May /\ \E w \in s.open :
    s' = Did([s EXCEPT !.box[w] = Appended(@, s.next), !.next = @ + 1, !.log[w] = Append(@, s.next),
                       !.fresh[w] = @ \cup {s.next}, !.told = @ \cup {Message("updated", w)}])

(* prependToScrollback: the lines an earlier session left *)
Fetched ==
  May /\ \E w \in s.open, n \in {1, 2} :
    LET held == [i \in 1..n |-> s.next + i - 1] IN
    s' = Did([s EXCEPT !.box[w] = Prepended(@, held), !.next = @ + n,
                       !.log[w] = held \o Events(s.box[w]),
                       !.fresh[w] = @ \cup ToSet(held) \cup ToSet(Events(s.box[w])),
                       !.told = @ \cup {Message("updated", w)}])

(* ClearResult, of /clear *)
Cleared ==
  May /\ \E w \in s.open :
    s' = Did([s EXCEPT !.box[w] = Wiped(@), !.log[w] = <<>>, !.fresh[w] = {}, !.told = @ \cup {Message("cleared", w)}])

(* newWindow *)
Opened ==
  May /\ \E w \in Wins \ s.open :
    s' = Did([s EXCEPT !.origin = @ + Stride, !.open = @ \cup {w}, !.box[w] = NewScrollback(s.origin + Stride),
                       !.log[w] = <<>>, !.fresh[w] = {}])

(* handleChannelFocus: the pane reads the window that is left before the next is shown *)
Focused ==
  May /\ \E w \in s.open :
    s' = Did([(IF s.active = NoWin THEN s ELSE SyncContent(s)) EXCEPT !.active = w, !.told = @ \cup {Message("set", w)}])

(* closeWindow *)
Closed ==
  May /\ \E w \in s.open :
    LET t == [s EXCEPT !.open = @ \ {w}, !.told = @ \cup {Message("cleared", w)}]
        next == IF "c" \in t.open THEN "c" ELSE NoWin IN
    s' = Did(IF s.active = w THEN [t EXCEPT !.active = next, !.told = @ \cup {Message("set", next)}] ELSE t)

(* Update, for each message that is about the lines *)
Told ==
  \E msg \in s.told :
    LET t == [s EXCEPT !.told = @ \ {msg}] IN
    s' = CASE msg.what = "set" -> SyncContent([t EXCEPT !.list.kind = KindOf(msg.ch)])
           [] msg.what = "cleared" -> SyncContent([t EXCEPT !.list.seen[msg.ch] = Untracked])
           [] msg.what = "updated" -> IF msg.ch = s.active THEN SyncContent(t) ELSE t

(* Highlight words, timestamp format or commands that differ from the ones it has *)
Configured == May /\ s' = Did([s EXCEPT !.list.config = @ + 1])
Resize == May /\ s' = Did(SyncContent([s EXCEPT !.list.width = 3 - @]))

(* A key of the viewport, and any other message *)
Scrolled ==
  May /\ \E by \in {-1, 0, 1} :
    LET t == SyncContent(s)
        to == t.view.off + by IN
    /\ to \in 0..Bottom(t.view)
    /\ s' = Did([t EXCEPT !.view.off = to])

Draw == s' = [ReadNow(s) EXCEPT !.cache = RenderedContent(ReadNow(s))]

Seq0(n) == [i \in 1..n |-> i]
Full(n) == FoldLeft(Appended, NewScrollback(Stride), Seq0(n))
Zero == [width |-> 0, kind |-> "", config |-> 0]

Init ==
  \E n \in {0, 1, Limit} :
    s = [origin |-> Stride, open |-> {"c"}, active |-> NoWin, told |-> {}, next |-> n + 1, acts |-> 0,
         box |-> [w \in Wins |-> IF w = "c" THEN Full(n) ELSE NewScrollback(0)],
         list |-> [ch |-> NoWin, kind |-> "channel", width |-> 1, last |-> 0, unseen |-> FALSE, config |-> 0,
                   seen |-> [w \in Wins \cup {NoWin} |-> Untracked]],
         cache |-> [key |-> Zero, ch |-> NoWin, base |-> 0, lines |-> <<>>, has |-> FALSE, block |-> <<>>,
                    blockKey |-> [line |-> Zero, ch |-> NoWin, first |-> 0, count |-> 0, divider |-> 0]],
         view |-> [lines |-> <<>>, off |-> 0, has |-> FALSE,
                   key |-> [line |-> Zero, ch |-> NoWin, first |-> 0, count |-> 0, divider |-> 0]],
         log |-> [w \in Wins |-> IF w = "c" THEN Seq0(n) ELSE <<>>],
         watched |-> [w \in Wins \cup {NoWin} |-> {}],
         fresh |-> [w \in Wins \cup {NoWin} |-> {}]]

Next ==
  \/ Arrive \/ Fetched \/ Cleared \/ Opened \/ Focused \/ Closed
  \/ Told \/ Configured \/ Resize \/ Scrolled \/ Draw
---------------------------------------------------------------------------
(* Whatever was kept from earlier draws, what is drawn now is what drawing everything
   anew would give. *)
DrawnAfresh ==
  LET c == Content(s)
      key == BlockKey(s, c)
      anew == Block(key, c.events, [i \in 1..Len(c.events) |-> Rendered(c.events[i], key.line)]) IN
  /\ RenderedContent(s).block = anew
  /\ s.view.has /\ s.view.key = key => s.view.lines = anew

(* A window has the last of its lines, oldest first, and hands out those. *)
KeepsTheLast ==
  \A w \in s.open :
    LET n == Len(s.log[w]) IN
    Events(s.box[w]) = SubSeq(s.log[w], 1 + (IF n > Limit THEN n - Limit ELSE 0), n)

(* A line the divider has passed was in view, with the reader at the bottom; and the
   divider stands before the first line that it has not passed, from the first message
   after that line came. *)
NothingFolded ==
  LET c == Content(s)  at == DividerIndex(s, c)  past == s.fresh[c.ch] IN
  /\ \A w \in s.open : s.list.seen[w] # Untracked => ToSet(Events(s.box[w])) \ s.fresh[w] \subseteq s.watched[w]
  /\ at # -1 /\ c.events # <<>> => /\ c.events[at + 1] \in past
                                   /\ \A i \in 1..at : c.events[i] \notin past
  /\ at = -1 /\ s.list.seen[c.ch] # Untracked /\ (s.list.ch = c.ch => s.list.unseen) =>
       ToSet(c.events) \cap past = {}
=============================================================================
