------------------------------- MODULE Layout -------------------------------
(* Where the parts of the main screen are (src/internal/ui/components/main_layout.go,
   workspace.go): each is told its rectangle when something changes, and is drawn in the
   rectangle that is worked out then. *)
EXTENDS Integers, FiniteSets

CONSTANTS
  MinWidth, MinMain, MinDrawer,  \* MinTerminalWidth, minMainWidth, minObservabilityDrawerHeight
  Widths, Heights, Contents,     \* data: terminal sizes, and what a panel would like
  MaxActs                        \* bound

VARIABLE s  \* the whole state, a record:
  \* w, h: bounds; side, nick: ContentWidth of the panels; nickVisible
  \* open, fullscreen, focus: the observability drawer's
  \* told: the last BoundsMsg of each part; acts: bound

Parts == {"side", "content", "nick", "drawer"}
Rect(x, y, w, h) == [x |-> x, y |-> y, w |-> w, h |-> h]
Nowhere == Rect(0, 0, 0, 0)
Frame == 1  \* the border of a panel, on one side
Least(a, b) == IF a < b THEN a ELSE b
Most(a, b) == IF a > b THEN a ELSE b
---------------------------------------------------------------------------
DrawerHeight(t) ==
  LET want == Most((t.h * 30) \div 100, MinDrawer) IN
  IF ~t.open \/ t.fullscreen THEN 0 ELSE IF want >= t.h THEN t.h \div 2 ELSE want

WantsNickList(t) == t.nickVisible /\ ~(t.open /\ t.fullscreen)

Columns(t) ==  \* computeLayout
  LET side0 == Least(t.side, Most((t.w * 20) \div 100 - Frame, 0)) + Frame
      nick0 == IF WantsNickList(t) THEN Least(t.nick, Most((t.w * 15) \div 100 - Frame, 0)) + Frame ELSE 0
      deficit == MinMain - (t.w - side0 - nick0)
      panels == IF WantsNickList(t) THEN 2 ELSE 1
      each == IF deficit > 0 THEN (deficit + panels - 1) \div panels ELSE 0
      side == Most(side0 - Frame - each, 0) + Frame
      nick == IF WantsNickList(t) THEN Most(nick0 - Frame - each, 0) + Frame ELSE 0 IN
  IF t.w < MinWidth THEN [side |-> 0, nick |-> 0, main |-> t.w, inner |-> 0]
  ELSE [side |-> side, nick |-> nick, main |-> t.w - side - nick, inner |-> side - Frame]

Rectangles(t) ==
  LET c == Columns(t)
      h == t.h - DrawerHeight(t)
      content == Rect(c.side, 0, c.main, h) IN
  [p \in Parts |->
    CASE p = "side" -> Rect(0, 0, c.inner, h)
      [] p = "content" -> content
      [] p = "nick" -> IF c.nick > 0 THEN Rect(c.side + c.main + Frame, 0, c.nick - Frame, h)
                       ELSE Rect(c.side + c.main, 0, 0, h)
      [] p = "drawer" -> IF ~t.open THEN Nowhere ELSE IF t.fullscreen THEN content ELSE Rect(0, h, t.w, DrawerHeight(t))]

ApplyLayout(t) ==
  LET r == Rectangles(t)
      full == t.open /\ t.fullscreen
      tells(p) == CASE p = "side" -> TRUE [] p = "drawer" -> t.open [] OTHER -> ~full IN
  [t EXCEPT !.told = [p \in Parts |-> IF tells(p) THEN r[p] ELSE @[p]]]
---------------------------------------------------------------------------
Did(t) == [t EXCEPT !.acts = @ + 1]
May == s.acts < MaxActs

Resized == May /\ \E w \in Widths, h \in Heights : s' = Did(ApplyLayout([s EXCEPT !.w = w, !.h = h]))

\* A message that can change what a panel would like (resizesPanels).
PanelChangedOpen(t, side, nick) ==  \* a mutant: the parts are told with the drawer open
  LET u == [t EXCEPT !.side = side, !.nick = nick] IN IF t.open THEN ApplyLayout(u) ELSE u
PanelChanged(t, side, nick) == ApplyLayout([t EXCEPT !.side = side, !.nick = nick])
Panels == May /\ \E side, nick \in Contents : s' = Did(PanelChanged(s, side, nick))

NickListToggle == May /\ s' = Did(ApplyLayout([s EXCEPT !.nickVisible = ~@]))

(* The keys the drawer takes: it changes, and the parts are told again when it did *)
Toggled(t) == [t EXCEPT !.open = ~@, !.fullscreen = IF t.open THEN FALSE ELSE @]
DrawerKey(t, key) ==
  CASE key = "toggle" -> Toggled(t)
    [] key = "full" -> IF t.open THEN [t EXCEPT !.fullscreen = ~@] ELSE t
    [] key = "pane" -> IF t.fullscreen THEN [t EXCEPT !.focus = IF @ = "logs" THEN "metrics" ELSE "logs"] ELSE t
    [] key = "exit" -> [t EXCEPT !.fullscreen = FALSE]
Drawer ==
  May /\ \E key \in {"toggle", "full", "pane", "exit"} :
    LET t == DrawerKey(s, key)
        moved == t.open # s.open \/ t.fullscreen # s.fullscreen IN
    s' = Did(IF moved THEN ApplyLayout(t) ELSE t)

Init ==
  \E side, nick \in Contents :
    s = [w |-> 0, h |-> 0, side |-> side, nick |-> nick, nickVisible |-> TRUE, open |-> FALSE, fullscreen |-> FALSE,
         focus |-> "logs", told |-> [p \in Parts |-> Nowhere], acts |-> 0]

Next == Resized \/ Panels \/ NickListToggle \/ Drawer
---------------------------------------------------------------------------
\* What Draw draws, of the screen as it is.
Drawn(t) ==
  (IF t.w >= MinWidth THEN {"side"} ELSE {})
  \cup (IF t.open /\ t.fullscreen THEN {} ELSE {"content"})
  \cup (IF t.w >= MinWidth /\ WantsNickList(t) THEN {"nick"} ELSE {})
  \cup (IF t.open THEN {"drawer"} ELSE {})

(* A part that is drawn is drawn in the rectangle it was told last: a click finds what
   is there, and what was laid out for a width is shown at it (applyLayout). *)
DrawnWhereTold == \A p \in Drawn(s) : s.told[p] = Rectangles(s)[p]

(* No two parts share a cell, each is on the screen, and the text keeps its width. *)
Tiled ==
  LET r == Rectangles(s)
      apart(a, b) == a.x + a.w <= b.x \/ b.x + b.w <= a.x \/ a.y + a.h <= b.y \/ b.y + b.h <= a.y IN
  /\ \A p, q \in Drawn(s) : p # q => apart(r[p], r[q])
  /\ \A p \in Drawn(s) : r[p].w >= 0 /\ r[p].h >= 0 /\ r[p].x + r[p].w <= s.w /\ r[p].y + r[p].h <= s.h
  /\ s.w >= MinWidth => r["content"].w >= MinMain
=============================================================================
