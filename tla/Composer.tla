------------------------------ MODULE Composer ------------------------------
(* The line the user types: the editor with its selection, styles and killed text, the
   history, the completion of nicks, and the list of suggestions that stands before it
   and takes keys first (src/internal/ui/components: input.go, richtextarea.go,
   richtextarea_keys.go, _killring.go, _palette.go, popover.go, chat_view.go). *)
EXTENDS Naturals, Sequences, SequencesExt

CONSTANTS
  HistorySize, KillRingCap, Rows,  \* the history's, the ring's and the list's limits
  MaxKeys                          \* bound

VARIABLE s  \* the whole state, a record:
  \* text: the line, a sequence of [char, bold]; at, anchor: the cursor and the selection's
  \*   other end; pending: the style of what is typed next; palette: it is open
  \* kills: killed texts, the last first; history: sent lines, the last at the end
  \* pos: which of them is shown, 0 for none; draft, draftAt: the line left for it
  \* nicks: the channel's, and rev, the list's revision; comp: the completion under way
  \* offer, sel, off, closed: the list's suggestions, the one chosen, the first one shown,
  \*   and whether it was dismissed; rows: the lines the list has
  \* due: accepted suggestions that are on their way; locked
  \* log: history, every line sent, the last at the end; around: history, the characters
  \*   before and behind the completed word; other: history, something but completion
  \*   changed the line or moved the cursor during it; left: history, the draft as it was left
  \* keys: bound

Cell(c, b) == [char |-> c, bold |-> b]
Chars(text) == [i \in DOMAIN text |-> text[i].char]
Cells(chars, b) == [i \in DOMAIN chars |-> Cell(chars[i], b)]
Least(x, y) == IF x < y THEN x ELSE y
Most(x, y) == IF x < y THEN y ELSE x
IsCommand(text) == text # <<>> /\ text[1].char = "/"
Blank(text) == \A i \in DOMAIN text : text[i].char = " "
From(seq, n) == SubSeq(seq, n, Len(seq))

NoComp == [active |-> FALSE, start |-> 0, end |-> 0, matches |-> <<>>, index |-> 0]
NoOffer == [shown |-> FALSE, words |-> <<>>, end |-> 0, typed |-> <<>>]
Secret(text) == Chars(text) = <<"/", "b">>  \* the grammar's marked command
---------------------------------------------------------------------------
(* The suggestions, by a completer that knows three commands, one with an alias. *)

Commands == << <<"/", "a">>, <<"/", "a", "a">>, <<"/", "b">> >>
Alias == [c \in {<<"/">>} |-> <<"/", "b">>]

Completion(text, at) ==
  LET typed == Chars(SubSeq(text, 1, at))
      words == SelectSeq(Commands, LAMBDA c : IsPrefix(typed, c)) IN
  IF ~IsCommand(text) \/ typed = <<>> \/ words = <<>> THEN NoOffer
  ELSE [shown |-> TRUE, words |-> words, end |-> at, typed |-> typed]

Capacity(t) == Least(t.rows, Rows)

(* ensureSelectionVisible *)
Ensured(t) ==
  LET cap == Capacity(t)
      low == IF t.sel < t.off THEN t.sel ELSE t.off
      off == IF t.sel >= low + cap THEN t.sel - cap + 1 ELSE low IN
  IF cap = 0 THEN [t EXCEPT !.off = t.sel]
  ELSE [t EXCEPT !.off = Least(off, IF Len(t.offer.words) > cap THEN Len(t.offer.words) - cap ELSE 0)]

RefreshedAsWas(t) ==  \* a mutant: the choice outlives the suggestions
  LET u == [t EXCEPT !.closed = @ /\ IsCommand(t.text)] IN
  [u EXCEPT !.offer = IF u.closed THEN NoOffer ELSE Completion(t.text, t.at)]

(* refresh *)
Refreshed(t) ==
  LET u == [t EXCEPT !.closed = @ /\ IsCommand(t.text)]
      v == [u EXCEPT !.offer = Completion(t.text, t.at)] IN
  IF u.closed THEN [u EXCEPT !.offer = NoOffer]
  ELSE IF v.offer.words = <<>> THEN [v EXCEPT !.sel = 0, !.off = 0]
  ELSE Ensured([v EXCEPT !.sel = Least(@, Len(v.offer.words) - 1)])

Visible(t) == t.offer.shown /\ t.rows > 0
Chosen(t) == t.offer.words[t.sel + 1]

(* acceptedReplacement *)
Accepted(t) ==
  IF t.offer.typed \in DOMAIN Alias /\ Alias[t.offer.typed] = Chosen(t) THEN t.offer.typed ELSE Chosen(t)

TakesEnter(t) == Visible(t) /\ Accepted(t) # t.offer.typed  \* acceptsEnter

Accept(t) == [t EXCEPT !.due = Append(@, [end |-> t.offer.end, with |-> Accepted(t) \o <<" ">>])]  \* acceptCmd
Moved(t, by) ==  \* moveSelection
  LET n == Len(t.offer.words) IN Ensured([t EXCEPT !.sel = (@ + n + by) % n])
---------------------------------------------------------------------------
(* The editor. *)

Start(t) == Least(t.at, t.anchor)
End(t) == Most(t.at, t.anchor)
Cut(t, i, j, new) ==
  [t EXCEPT !.text = SubSeq(@, 1, i) \o new \o From(@, j + 1), !.at = i + Len(new), !.anchor = i + Len(new)]
Insert(t, chars) == Cut(t, Start(t), End(t), Cells(chars, t.pending))  \* insertText
MoveTo(t, p, extend) == [t EXCEPT !.at = p, !.anchor = IF extend THEN @ ELSE p]  \* moveCursor
Killed(t, text) ==  \* record
  IF text = <<>> THEN t
  ELSE [t EXCEPT !.kills = SubSeq(<<Chars(text)>> \o @, 1, Least(Len(@) + 1, KillRingCap))]

Word(t, i) == i \in DOMAIN t.text /\ t.text[i].char \notin {" ", "/", ":"}
WordStart(t) ==  \* MoveWordLeft
  LET starts == {i \in 0..(t.at - 1) : Word(t, i + 1) /\ ~Word(t, i)} IN
  IF starts = {} THEN 0 ELSE CHOOSE i \in starts : \A j \in starts : j <= i

KillUnrecorded(t, i, j) == Cut(t, i, j, <<>>)  \* a mutant: the deleted word is gone
Kill(t, i, j) == Cut(Killed(t, SubSeq(t.text, i + 1, j)), i, j, <<>>)  \* killRange, killSelection
Yank(t) == IF t.kills = <<>> THEN t ELSE Insert(t, t.kills[1])

Restyled(t, toggle) ==  \* toggleFormatting, applyPaletteSelection
  IF t.at = t.anchor THEN [t EXCEPT !.pending = ~(toggle /\ @)]
  ELSE [t EXCEPT !.text = [i \in DOMAIN @ |-> IF i > Start(t) /\ i <= End(t)
                                              THEN [@[i] EXCEPT !.bold = ~(toggle /\ @)] ELSE @[i]]]
Formats(t) == ~IsCommand(t.text)  \* SetAllowFormatting

Edited(t, k) ==  \* handleFormattingKey, handleEditorKey
  LET some == t.at # t.anchor
      right == Least(t.at + 1, Len(t.text))
      left == Most(t.at, 1) - 1
      swap == <<t.text[t.at], t.text[t.at - 1]>> IN
  CASE k \in {"a", " ", "/"} -> Insert(t, <<k>>)
    [] k = "left" -> MoveTo(t, left, FALSE)
    [] k = "shift+left" -> MoveTo(t, left, TRUE)
    [] k = "home" -> MoveTo(t, 0, FALSE)
    [] k = "ctrl+w" -> IF some THEN Kill(t, Start(t), End(t)) ELSE Kill(t, WordStart(t), t.at)
    [] k = "ctrl+k" -> IF some THEN Kill(t, Start(t), End(t)) ELSE Kill(t, t.at, Len(t.text))
    [] k = "ctrl+t" -> IF t.at < 2 THEN t ELSE Cut(t, t.at - 2, t.at, swap)
    [] k = "ctrl+y" -> Yank(t)
    [] k = "backspace" -> IF some THEN Cut(t, Start(t), End(t), <<>>) ELSE Cut(t, left, t.at, <<>>)
    [] k = "ctrl+b" -> IF Formats(t) THEN Restyled(t, TRUE) ELSE t
    [] k = "alt+c" -> IF Formats(t) THEN [t EXCEPT !.palette = TRUE] ELSE t
    [] OTHER -> t

Painted(t, k) ==  \* handlePaletteKey
  CASE k = "enter" -> [Restyled(t, FALSE) EXCEPT !.palette = FALSE]
    [] k = "esc" -> [t EXCEPT !.palette = FALSE]
    [] k \in {"tab", "left"} -> t
    [] OTHER -> Edited(t, k)
---------------------------------------------------------------------------
(* The history. *)

RawValue(t) == IF IsCommand(t.text) THEN Cells(Chars(t.text), FALSE) ELSE t.text
Shown(t, raw) == [t EXCEPT !.text = raw, !.at = Len(raw), !.anchor = Len(raw), !.pending = FALSE]  \* setRawValue

Kept(t, raw) ==  \* pushHistory
  IF Secret(raw) \/ (t.history # <<>> /\ Last(t.history) = raw) THEN t
  ELSE [t EXCEPT !.history = From(Append(@, raw), Most(Len(@) + 2, HistorySize + 1) - HistorySize)]

SubmittedOver(t) ==  \* a mutant: the place in the history outlives the line
  IF Blank(t.text) THEN t
  ELSE [Kept(t, RawValue(t)) EXCEPT !.text = <<>>, !.at = 0, !.anchor = 0, !.pending = FALSE, !.kills = <<>>,
                                    !.left = <<>>, !.log = Append(@, RawValue(t))]

Submitted(t) ==  \* submit: the new editor has no style, palette or killed text
  IF Blank(t.text) THEN t
  ELSE [Kept(t, RawValue(t)) EXCEPT !.text = <<>>, !.at = 0, !.anchor = 0, !.pending = FALSE, !.kills = <<>>,
                                    !.pos = 0, !.draft = <<>>, !.left = <<>>, !.log = Append(@, RawValue(t))]

HistoryUp(t) ==
  IF t.history = <<>> \/ t.pos = 1 THEN t
  ELSE LET first == t.pos = 0
           p == IF first THEN Len(t.history) ELSE t.pos - 1
           u == IF first THEN [t EXCEPT !.draft = RawValue(t), !.draftAt = t.at, !.left = <<Chars(t.text), t.at>>] ELSE t IN
       Shown([u EXCEPT !.pos = p], t.history[p])

HistoryDownDropped(t) ==  \* a mutant: below the last line is an empty one
  IF t.pos = 0 THEN t
  ELSE IF t.pos < Len(t.history) THEN Shown([t EXCEPT !.pos = @ + 1], t.history[t.pos + 1])
  ELSE Shown([t EXCEPT !.pos = 0, !.draft = <<>>], <<>>)

HistoryDown(t) ==
  IF t.pos = 0 THEN t
  ELSE IF t.pos < Len(t.history) THEN Shown([t EXCEPT !.pos = @ + 1], t.history[t.pos + 1])
  ELSE MoveTo(Shown([t EXCEPT !.pos = 0, !.draft = <<>>, !.draftAt = 0], t.draft), t.draftAt, FALSE)
---------------------------------------------------------------------------
(* Nicks. *)

Suffix(t, c) ==
  IF c.start = 0 THEN <<":", " ">>
  ELSE IF c.end < Len(t.text) /\ t.text[c.end + 1].char = " " THEN <<>> ELSE <<" ">>

NickPutAgain(t, c) ==  \* a mutant: the range is that of the word typed
  LET word == c.matches[c.index] \o Suffix(t, c) IN
  [Cut(t, c.start, Least(c.end, Len(t.text)), Cells(word, t.pending)) EXCEPT !.comp = c]

NickPut(t, c) ==  \* applyNickCompletion
  LET word == c.matches[c.index] \o Suffix(t, c) IN
  [Cut(t, Least(c.start, Len(t.text)), Least(c.end, Len(t.text)), Cells(word, t.pending)) EXCEPT
     !.comp = [c EXCEPT !.end = c.start + Len(word)]]

CompleteNick(t, back) ==
  LET n == Len(t.comp.matches)
      spaces == {i \in 1..t.at : t.text[i].char = " "}
      start == IF spaces = {} THEN 0 ELSE CHOOSE i \in spaces : \A j \in spaces : j <= i
      typed == Chars(SubSeq(t.text, start + 1, t.at))
      found == SelectSeq(t.nicks, LAMBDA w : IsPrefix(typed, w)) IN
  IF t.nicks = <<>> THEN t
  ELSE IF t.comp.active
       THEN NickPut(t, [t.comp EXCEPT !.index = IF back THEN (IF @ = 1 THEN n ELSE @ - 1) ELSE (@ % n) + 1])
  ELSE IF typed = <<>> \/ found = <<>> THEN t
  ELSE NickPut([t EXCEPT !.around = <<Chars(SubSeq(t.text, 1, start)), Chars(From(t.text, t.at + 1))>>,
                         !.other = FALSE],
               [active |-> TRUE, start |-> start, end |-> t.at, matches |-> found,
                index |-> IF back THEN Len(found) ELSE 1])
---------------------------------------------------------------------------
(* A key: to the list of suggestions, the input bar, the editor. *)

Barred(t, k) ==  \* InputBar.handleKey; some keys leave a completion under way
  LET off == [t EXCEPT !.comp = [@ EXCEPT !.active = FALSE]] IN
  CASE t.palette -> Painted(off, k)
    [] k = "enter" -> Submitted(t)
    [] k = "up" -> HistoryUp(t)
    [] k = "down" -> HistoryDown(t)
    [] k = "ctrl+u" -> IF t.at = 0 THEN t ELSE Kill(t, 0, t.at)
    [] k = "ctrl+d" -> IF t.at # t.anchor THEN Cut(t, Start(t), End(t), <<>>)
                       ELSE Cut(t, t.at, Least(t.at + 1, Len(t.text)), <<>>)
    [] k \in {"tab", "shift+tab"} /\ ~IsCommand(t.text) -> CompleteNick(t, k = "shift+tab")
    [] OTHER -> Edited(off, k)

Took(t, u) ==  \* updateInput: the list follows the line and the cursor
  IF u.text = t.text /\ u.at = t.at THEN u ELSE Refreshed([u EXCEPT !.closed = FALSE])

Inputted(t, k) ==
  LET u == Took(t, Barred(t, k)) IN
  [u EXCEPT !.other = @ \/ (k \notin {"tab", "shift+tab"} /\ u.comp.active)]

Listed(t, k) ==  \* Popover.handleKey, then the rest of the window
  CASE ~Visible(t) -> Inputted(t, k)
    [] k = "tab" -> Accept(t)
    [] k = "enter" /\ TakesEnter(t) -> Accept(t)
    [] k \in {"up", "down", "shift+tab"} /\ Len(t.offer.words) > 1 -> Moved(t, IF k = "down" THEN 1 ELSE -1)
    [] k = "esc" -> [t EXCEPT !.offer = NoOffer, !.closed = TRUE]
    [] OTHER -> Inputted(t, k)

KeyNames == {"a", " ", "/", "left", "shift+left", "home", "ctrl+w", "ctrl+k", "ctrl+t", "ctrl+y", "backspace",
             "ctrl+b", "alt+c", "enter", "esc", "up", "down", "tab", "shift+tab", "ctrl+u", "ctrl+d"}
Tick == s.keys < MaxKeys
Told(t) == [t EXCEPT !.keys = @ + 1]

Key == Tick /\ \E k \in KeyNames : s' = Told(IF s.locked THEN s ELSE Listed(s, k))

(* The accepted word is put in, wherever the line has got to. *)
TakeAccepted ==
  /\ s.due # <<>>
  /\ LET a == Head(s.due)
         u == Cut(s, 0, Least(a.end, Len(s.text)), Cells(a.with, s.pending)) IN
     s' = Took(s, [u EXCEPT !.due = Tail(@), !.other = TRUE])

Paste == Tick /\ s' = Told(IF s.locked THEN s ELSE Took(s, [Insert(s, <<"a", " ">>) EXCEPT !.other = TRUE]))

Click ==  \* on the line: the list goes, the cursor comes
  Tick /\ \E p \in 0..Len(s.text) :
    s' = Told(Took(s, [MoveTo([s EXCEPT !.offer = NoOffer, !.closed = IsCommand(s.text)], p, FALSE)
                         EXCEPT !.other = TRUE]))

Resize == Tick /\ \E r \in 0..(Rows + 1) : s' = Told(Ensured([s EXCEPT !.rows = r]))
Lock == Tick /\ s' = Told([s EXCEPT !.locked = ~@])
NickList ==  \* of an older revision it is not taken
  Tick /\ \E names \in {<<>>, << <<"a", "b">> >>}, r \in 0..2 :
    s' = Told(IF r < s.rev THEN s ELSE [s EXCEPT !.nicks = names, !.rev = r])

Init ==
  \E text \in {<<>>, <<"a">>, <<" ", "a", " ">>, <<"/", "a">>, <<"/">>, <<"a", "/", "a">>}, bold \in BOOLEAN,
     history \in {<<>>, << <<"a">>, <<"/", "a">> >>} :
    LET line == Cells(text, bold /\ text # <<>> /\ text[1] # "/")
        old == [i \in DOMAIN history |-> Cells(history[i], FALSE)] IN
    s = Refreshed([text |-> line, at |-> Len(line), anchor |-> Len(line), pending |-> FALSE, palette |-> FALSE,
                   kills |-> <<>>, history |-> old, pos |-> 0, draft |-> <<>>, draftAt |-> 0,
                   nicks |-> << <<"a", "a">>, <<"a", "b">> >>, rev |-> 1, comp |-> NoComp,
                   offer |-> NoOffer, sel |-> 0, off |-> 0, closed |-> FALSE, rows |-> 2, due |-> <<>>,
                   locked |-> FALSE, log |-> old, around |-> << <<>>, <<>> >>, other |-> FALSE,
                   left |-> <<>>, keys |-> 0])

Next == Key \/ TakeAccepted \/ Paste \/ Click \/ Resize \/ Lock \/ NickList
---------------------------------------------------------------------------
(* The history is the last lines sent, in order: no line twice running, and no line of
   a command whose argument is a credential (pushHistory). *)
HistoryIsSent ==
  LET told == SelectSeq(s.log, LAMBDA r : ~Secret(r))
      once == FoldLeft(LAMBDA h, r : IF h # <<>> /\ Last(h) = r THEN h ELSE Append(h, r), <<>>, told) IN
  s.history = From(once, Most(Len(once) + 1, HistorySize + 1) - HistorySize)

(* Going through the history and back leaves the line and the cursor as they were: from
   wherever it is in the history, as many times down are back. *)
DraftKept ==
  LET RECURSIVE Down(_)
      Down(t) == IF t.pos = 0 THEN t ELSE Down(HistoryDown(t)) IN
  /\ s.pos \in 0..Len(s.history)
  /\ s.pos > 0 => <<Chars(Down(s).text), Down(s).at>> = s.left

(* Tab after Tab goes through the nicks in the place of the word that was typed: the
   rest of the line stays as it was. *)
CompletedInPlace ==
  s.comp.active /\ ~s.other =>
    LET before == s.around[1] behind == s.around[2] word == s.comp.matches[s.comp.index] IN
    \E suffix \in {<<>>, <<" ">>, <<":", " ">>} :
      /\ Chars(s.text) = before \o word \o suffix \o behind
      /\ s.at = Len(before \o word \o suffix)

(* What is killed is there to be yanked: at the same place it restores the line. *)
KillIsKept ==
  \A k \in {"ctrl+w", "ctrl+k", "ctrl+u"} :
    LET t == [s EXCEPT !.palette = FALSE]
        u == Barred(t, k) IN
    u.text # t.text => Chars(Yank(u).text) = Chars(t.text)

(* The suggestion that a key would accept is one of the list's, and is in view. *)
ChoiceInView ==
  Visible(s) => /\ s.sel < Len(s.offer.words)
                /\ s.off <= s.sel /\ s.sel < s.off + Capacity(s)
=============================================================================
