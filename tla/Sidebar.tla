------------------------------ MODULE Sidebar ------------------------------
(* The list of windows and the list of nicks (src/internal/ui/components:
   sorted_sidebar.go, channel_list.go, nicklist.go; set/sorted.go): a sorted set with a
   cursor and an active item, both kept as a key and as a position, and the marks of
   each window. The chat screen tells of openings, closings and the window in view in
   batches whose messages come in any order. *)
EXTENDS Integers, Sequences, FiniteSets, SequencesExt

CONSTANTS
  Status, Others,  \* windows: the status window and the rest, numbers in their order
  Rows,            \* of the panel
  MaxActs          \* bound

VARIABLE s  \* the whole state, a record:
  \* use: the list is the windows' or the nicks'; revision: membersRevision
  \* items; cursor, hasCursor, cursorIdx; active, hasActive, activeIdx
  \* mentions, lifecycle: the windows that have the mark
  \* wins, shown: the chat screen's windows, and the one in view (NoKey: none)
  \* told: the batches under way, each a set of messages
  \* chosen: ChannelSelectedMsgs under way
  \* refused: history, a window was chosen after it was closed and is not shown; acts: bound

NoKey == 0  \* the zero key, and the name of no window
Wins == {Status} \cup Others
---------------------------------------------------------------------------
(* set.Sorted *)

Find(items, k) == Cardinality({i \in DOMAIN items : items[i] < k})  \* before the place of k
Inserted(items, k) ==
  LET i == Find(items, k) IN
  IF k \in ToSet(items) THEN items ELSE SubSeq(items, 1, i) \o <<k>> \o SubSeq(items, i + 1, Len(items))
Deleted(items, k) ==
  LET i == Find(items, k) IN
  IF k \in ToSet(items) THEN SubSeq(items, 1, i) \o SubSeq(items, i + 2, Len(items)) ELSE items
---------------------------------------------------------------------------
Has(t, k) == k \in ToSet(t.items)
IndexOf(t, k) == Find(t.items, k)  \* of a key that is there; positions start at 0
At(t, i) == t.items[i + 1]

SetActiveKeyIfListed(t, k) ==  \* a mutant: a key with no item is not kept
  IF Has(t, k) THEN [t EXCEPT !.active = k, !.hasActive = TRUE, !.activeIdx = IndexOf(t, k)]
  ELSE [t EXCEPT !.active = NoKey, !.hasActive = FALSE, !.activeIdx = -1]
SetActiveKey(t, k) ==
  [t EXCEPT !.active = k, !.hasActive = TRUE, !.activeIdx = IF Has(t, k) THEN IndexOf(t, k) ELSE -1]
SetCursorKey(t, k) ==
  [t EXCEPT !.cursor = k, !.hasCursor = TRUE, !.cursorIdx = IF Has(t, k) THEN IndexOf(t, k) ELSE 0]
PlaceCursor(t, i) == [t EXCEPT !.cursor = At(t, i), !.hasCursor = TRUE, !.cursorIdx = i]

ResolvedCursor(t) ==  \* a mutant: the active position is not derived again
  IF t.items # <<>> /\ t.hasCursor /\ Has(t, t.cursor) THEN [t EXCEPT !.cursorIdx = IndexOf(t, t.cursor)] ELSE t
Resolved(t) ==  \* resolvePositions
  IF t.items = <<>> THEN t
  ELSE [t EXCEPT !.cursorIdx = IF t.hasCursor /\ Has(t, t.cursor) THEN IndexOf(t, t.cursor) ELSE @,
                 !.activeIdx = IF ~t.hasActive THEN @ ELSE IF Has(t, t.active) THEN IndexOf(t, t.active) ELSE -1]

ReconciledAsInserted(t) == Resolved(t)  \* a mutant: a key that has gone is waited for
Reconciled(t) ==  \* reconcileToItems
  IF t.items = <<>>
  THEN [t EXCEPT !.cursor = NoKey, !.hasCursor = FALSE, !.cursorIdx = 0,
                 !.active = NoKey, !.hasActive = FALSE, !.activeIdx = -1]
  ELSE LET u == Resolved(t)
           last == Len(t.items) - 1
           v == IF u.hasCursor /\ ~Has(u, u.cursor)
                THEN PlaceCursor(u, IF t.cursorIdx < last THEN t.cursorIdx ELSE last) ELSE u IN
       IF v.hasActive /\ v.activeIdx < 0 THEN [v EXCEPT !.active = NoKey, !.hasActive = FALSE] ELSE v

Insert(t, k) == Resolved([t EXCEPT !.items = Inserted(@, k)])
Removed(t, k) == Reconciled([t EXCEPT !.items = Deleted(@, k)])
---------------------------------------------------------------------------
(* Keys, wheel and mouse. *)

Did(t) == [t EXCEPT !.acts = @ + 1]
May == s.acts < MaxActs

MovedCursor(t, by) ==
  IF t.items = <<>> THEN t
  ELSE LET last == Len(t.items) - 1
           to == t.cursorIdx + by
           i == IF to < 0 THEN 0 ELSE IF to > last THEN last ELSE to IN
       IF i = t.cursorIdx /\ t.hasCursor THEN t ELSE PlaceCursor(t, i)

(* activateIndex, with OnActivate of the windows *)
Activated(t, i) ==
  IF i < 0 \/ i >= Len(t.items) THEN t
  ELSE [t EXCEPT !.active = At(t, i), !.hasActive = TRUE, !.activeIdx = i,
                 !.chosen = IF t.use = "windows" THEN Append(@, At(t, i)) ELSE @]
ActivatedAt(t, i) == IF i < 0 \/ i >= Len(t.items) THEN t ELSE Activated(PlaceCursor(t, i), i)

Base(t) == IF t.hasActive /\ t.activeIdx >= 0 THEN t.activeIdx ELSE t.cursorIdx
Wrapped(t, i) == ((i % Len(t.items)) + Len(t.items)) % Len(t.items)

\* The position of each row's item, -1 for the label over the direct windows.
Direct(k) == k = CHOOSE m \in Wins : \A n \in Wins : n <= m
RowLayout(t) ==
  FlattenSeq([i \in 1..Len(t.items) |->
    IF t.use = "windows" /\ Direct(t.items[i]) THEN <<-1, i - 1>> ELSE <<i - 1>>])

Key == May /\ \E by \in {-1, 1} : s' = Did(MovedCursor(s, by))  \* and the wheel
Select == May /\ s.use = "windows" /\ s' = Did(Activated(s, s.cursorIdx))
ActivateIndex == May /\ s.use = "windows" /\ \E i \in 0..(Len(s.items) - 1) : s' = Did(ActivatedAt(s, i))
ActivateOffset ==
  May /\ s.use = "windows" /\ s.items # <<>> /\ \E by \in {-1, 1} : s' = Did(ActivatedAt(s, Wrapped(s, Base(s) + by)))

(* handleMouse: the viewport that Draw scrolled was a copy, so its offset here is 0 *)
Click ==
  May /\ \E y \in 0..(Rows - 1) :
    /\ y < Len(RowLayout(s))
    /\ s' = Did(IF RowLayout(s)[y + 1] < 0 THEN s ELSE ActivatedAt(s, RowLayout(s)[y + 1]))
---------------------------------------------------------------------------
(* What the chat screen tells. *)

Message(what, k) == [what |-> what, k |-> k]
TellAll(t, batch) == [t EXCEPT !.told = Append(@, batch)]

Open ==
  May /\ s.use = "windows" /\ \E k \in Others \ s.wins, focus \in BOOLEAN :
    LET t == [s EXCEPT !.wins = @ \cup {k}, !.shown = IF focus THEN k ELSE @] IN
    s' = Did(TellAll(t, {Message("added", k)} \cup (IF focus THEN {Message("active", k)} ELSE {})))

(* closeWindow *)
Close ==
  May /\ s.use = "windows" /\ \E k \in s.wins \cap Others :
    LET t == [s EXCEPT !.wins = @ \ {k}]
        left == {w \in t.wins \cap Others : ~Direct(w)}
        next == IF left = {} THEN NoKey ELSE CHOOSE w \in left : \A x \in left : w <= x IN
    s' = Did(IF s.shown = k THEN TellAll([t EXCEPT !.shown = next], {Message("removed", k), Message("active", next)})
             ELSE TellAll(t, {Message("removed", k)}))

(* A line with a mention, or of a peer's nick or quit, in a window that is not in view *)
Marked ==
  May /\ s.use = "windows" /\ \E k \in s.wins \ {s.shown}, what \in {"mention", "lifecycle"} :
    s' = Did(TellAll(s, {Message(what, k)}))

(* switchChannel, then handleChannelFocus: a channel that was closed is joined again, and
   its window may be too late for the focus; a direct window is not opened again. *)
Focus ==
  /\ s.chosen # <<>>
  /\ LET k == Head(s.chosen)  t == [s EXCEPT !.chosen = Tail(@)]  focus == Message("active", k) IN
     \/ k \in s.wins /\ s' = TellAll([t EXCEPT !.shown = k], {focus})
     \/ k \notin s.wins /\ Direct(k) /\ s' = [t EXCEPT !.refused = TRUE]
     \/ /\ k \notin s.wins /\ ~Direct(k)
        /\ \E late \in BOOLEAN :
             LET u == [t EXCEPT !.wins = @ \cup {k}] IN
             s' = IF late THEN TellAll([u EXCEPT !.refused = TRUE], {Message("added", k)})
                  ELSE TellAll([u EXCEPT !.shown = k], {Message("added", k), focus})

UpdatedKeepingMarks(t, m) ==  \* a mutant: the window in view keeps its marks
  CASE m.what = "added" -> Insert(t, m.k)
    [] m.what = "removed" -> Removed(t, m.k)
    [] m.what = "active" -> LET u == SetActiveKey(t, m.k) IN IF u.hasCursor THEN u ELSE SetCursorKey(u, m.k)
    [] m.what = "mention" -> [t EXCEPT !.mentions = @ \cup {m.k}]
    [] m.what = "lifecycle" -> [t EXCEPT !.lifecycle = @ \cup {m.k}]

(* ChannelSidebar.Update *)
Updated(t, m) ==
  CASE m.what = "added" -> Insert(t, m.k)
    [] m.what = "removed" -> [Removed(t, m.k) EXCEPT !.mentions = @ \ {m.k}, !.lifecycle = @ \ {m.k}]
    [] m.what = "active" ->
         LET u == SetActiveKey(t, m.k)
             v == IF u.hasCursor THEN u ELSE SetCursorKey(u, m.k) IN
         [v EXCEPT !.mentions = @ \ {m.k}, !.lifecycle = @ \ {m.k}]
    [] m.what = "mention" -> [t EXCEPT !.mentions = @ \cup {m.k}]
    [] m.what = "lifecycle" -> [t EXCEPT !.lifecycle = @ \cup {m.k}]

Told ==
  /\ s.told # <<>>
  /\ \E m \in Head(s.told) :
       s' = [Updated(s, m) EXCEPT !.told = IF Cardinality(Head(@)) = 1 THEN Tail(@) ELSE <<Head(@) \ {m}>> \o Tail(@)]

(* NickListUpdatedMsg, of a list read earlier or later than the one that is shown *)
Members ==
  May /\ s.use = "nicks" /\ \E ks \in SUBSET Wins, r \in {s.revision - 1, s.revision, s.revision + 1} :
    s' = Did(IF r < s.revision THEN s
             ELSE Reconciled([s EXCEPT !.revision = r, !.items = SetToSortSeq(ks, <), !.wins = ks]))

Init ==
  \E use \in {"windows", "nicks"} :
    s = [use |-> use, revision |-> 1, items |-> IF use = "windows" THEN <<>> ELSE SetToSortSeq(Wins, <),
         cursor |-> NoKey, hasCursor |-> FALSE, cursorIdx |-> 0,
         active |-> NoKey, hasActive |-> FALSE, activeIdx |-> -1, mentions |-> {}, lifecycle |-> {},
         wins |-> IF use = "windows" THEN {Status} ELSE Wins, shown |-> NoKey,
         told |-> IF use = "windows" THEN <<{Message("added", Status)}>> ELSE <<>>,
         chosen |-> <<>>, refused |-> FALSE, acts |-> 0]

Next ==
  \/ Key \/ Select \/ ActivateIndex \/ ActivateOffset \/ Click
  \/ Open \/ Close \/ Marked \/ Focus \/ Told \/ Members
---------------------------------------------------------------------------
(* A key and its position are the same item, whatever came or went around it; a key
   without an item has no row, and the next key press starts from a row. *)
PositionsTrue ==
  /\ s.hasCursor /\ Has(s, s.cursor) => At(s, s.cursorIdx) = s.cursor
  /\ s.hasActive => s.activeIdx = (IF Has(s, s.active) THEN IndexOf(s, s.active) ELSE -1)
  /\ s.items # <<>> => s.cursorIdx \in 0..(Len(s.items) - 1)
  /\ \A i \in 1..(Len(s.items) - 1) : s.items[i] < s.items[i + 1]

(* When all that was told has come, in whatever order, the list has the windows there
   are and marks the one in view, which has no mark of something unseen. *)
ListFollows ==
  s.told = <<>> /\ s.chosen = <<>> =>
    /\ ToSet(s.items) = s.wins
    /\ s.use = "windows" =>
         /\ s.shown # NoKey /\ ~s.refused => s.hasActive /\ s.active = s.shown
         /\ s.shown \notin s.mentions \cup s.lifecycle
         /\ s.mentions \cup s.lifecycle \subseteq s.wins
=============================================================================
