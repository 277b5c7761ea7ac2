------------------------------ MODULE RichText ------------------------------
(* The text the user composes and the screen shows: a document of styled spans that is
   edited line by line, with caches of its lines' characters, and its formatted wire
   form (src/internal/richtext/document.go, words.go; src/internal/ircfmt/ircfmt.go). *)
EXTENDS Naturals, Sequences, SequencesExt

CONSTANTS
  MaxRaw,    \* bound: bytes of what is received
  MaxEdits   \* bound

VARIABLE s  \* the whole state, a record:
  \* doc: the document, [lines, caches]; at: where the last edit left the cursor
  \* flat, index: history, the same text as one sequence, edited as such, and the cursor in it
  \* raw: the wire form; stage: what comes next
  \* edits: bound

NoColour == 99  \* defaultColourCode, and no colour at all
Plain == [bold |-> FALSE, fg |-> NoColour, bg |-> NoColour]
Bold == [Plain EXCEPT !.bold = TRUE]
Cell(char, attrs) == [char |-> char, attrs |-> attrs]
Span(text, attrs) == [text |-> text, attrs |-> attrs]
Newline == Cell("nl", Plain)
---------------------------------------------------------------------------
(* Spans and characters of a line. *)

(* clustersToLine, normaliseLine: neighbours of one style are one span *)
LineOf(cells) ==
  LET add(line, c) ==
        IF line # <<>> /\ Last(line).attrs = c.attrs
        THEN [line EXCEPT ![Len(line)].text = Append(@, c.char)]
        ELSE Append(line, Span(<<c.char>>, c.attrs)) IN
  FoldLeft(add, <<>>, cells)

(* buildLineCache *)
CellsOf(line) ==
  FlattenSeq([n \in DOMAIN line |-> [i \in DOMAIN line[n].text |-> Cell(line[n].text[i], line[n].attrs)]])

Cold == [valid |-> FALSE, cells |-> <<>>]
Document(lines) == [lines |-> lines, caches |-> [n \in DOMAIN lines |-> Cold]]

(* lineCache, LineClusters *)
Clusters(d, n) == IF d.caches[n].valid THEN d.caches[n].cells ELSE CellsOf(d.lines[n])
Warm(d) == [d EXCEPT !.caches = [n \in DOMAIN d.lines |-> [valid |-> TRUE, cells |-> Clusters(d, n)]]]

Flat(d) ==
  FlattenSeq([n \in DOMAIN d.lines |-> (IF n = 1 THEN <<>> ELSE <<Newline>>) \o Clusters(d, n)])
---------------------------------------------------------------------------
(* Positions. *)

Pos(line, cluster) == [line |-> line, cluster |-> cluster]
Positions(d) == UNION {{Pos(n, c) : c \in 0..Len(Clusters(d, n))} : n \in DOMAIN d.lines}
Before(p, q) == p.line < q.line \/ (p.line = q.line /\ p.cluster < q.cluster)
Least(x, y) == IF x < y THEN x ELSE y

(* ClampPosition; positions start at line 1 here *)
Clamp(d, p) ==
  LET n == Least(p.line, Len(d.lines)) IN Pos(n, Least(p.cluster, Len(Clusters(d, n))))

IndexOf(d, p) ==
  FoldLeft(LAMBDA sum, n : sum + Len(Clusters(d, n)) + 1, 0, [n \in 1..(p.line - 1) |-> n]) + p.cluster

Left(d, p) ==
  IF p.cluster > 0 THEN Pos(p.line, p.cluster - 1)
  ELSE IF p.line = 1 THEN p ELSE Pos(p.line - 1, Len(Clusters(d, p.line - 1)))
Right(d, p) ==
  IF p.cluster < Len(Clusters(d, p.line)) THEN Pos(p.line, p.cluster + 1)
  ELSE IF p.line = Len(d.lines) THEN p ELSE Pos(p.line + 1, 0)

(* isWordGrapheme; letters stay together and so do spaces, as the library segments *)
Class(c) == IF c.char \in {"a", "4"} THEN "word" ELSE c.char
Segments(cells) ==
  LET joined(i) == Class(cells[i]) = Class(cells[i + 1]) /\ Class(cells[i]) \in {"word", " "}
      edges == {0, Len(cells)} \cup {i \in 1..(Len(cells) - 1) : ~joined(i)} IN
  {[from |-> i, to |-> j] : i, j \in edges} \cap
    {g \in [from : edges, to : edges] : g.from < g.to /\ \A e \in edges : ~(g.from < e /\ e < g.to)}
Words(cells) == {g \in Segments(cells) : \E i \in (g.from + 1)..g.to : Class(cells[i]) = "word"}

RECURSIVE WordRight(_, _)
WordRight(d, p) ==
  LET ahead == {g \in Words(Clusters(d, p.line)) : g.to > p.cluster}
      next == Pos(p.line + 1, 0) IN
  IF ahead # {} THEN Pos(p.line, CHOOSE c \in {g.to : g \in ahead} : \A g \in ahead : c <= g.to)
  ELSE IF p.line = Len(d.lines) THEN Pos(p.line, Len(Clusters(d, p.line)))
  ELSE IF Clusters(d, next.line) = <<>> THEN next ELSE WordRight(d, next)

RECURSIVE WordLeft(_, _)
WordLeft(d, p) ==
  LET behind == {g \in Words(Clusters(d, p.line)) : g.from < p.cluster}
      prior == Pos(p.line - 1, Len(Clusters(d, p.line - 1))) IN
  IF behind # {} THEN Pos(p.line, CHOOSE c \in {g.from : g \in behind} : \A g \in behind : c >= g.from)
  ELSE IF p.line = 1 THEN Pos(1, 0)
  ELSE IF prior.cluster = 0 THEN prior ELSE WordLeft(d, prior)
---------------------------------------------------------------------------
(* Edits. *)

Ordered(d, sel) ==
  LET a == Clamp(d, sel.anchor)
      h == Clamp(d, sel.head) IN
  IF Before(h, a) THEN [from |-> h, to |-> a] ELSE [from |-> a, to |-> h]

Spliced(d, r, new, kept) ==  \* the lines r.from.line..r.to.line become new
  [lines |-> SubSeq(d.lines, 1, r.from.line - 1) \o new \o SubSeq(d.lines, r.to.line + 1, Len(d.lines)),
   caches |-> SubSeq(d.caches, 1, r.from.line - 1) \o kept \o SubSeq(d.caches, r.to.line + 1, Len(d.caches))]

NewLines(d, r, with) ==  \* prefix and suffix around the replacement's first and last line
  LET m == Len(with.lines)
      prefix == SubSeq(Clusters(d, r.from.line), 1, r.from.cluster)
      suffix == SubSeq(Clusters(d, r.to.line), r.to.cluster + 1, Len(Clusters(d, r.to.line))) IN
  [n \in 1..m |-> LineOf((IF n = 1 THEN prefix ELSE <<>>) \o Clusters(with, n)
                         \o (IF n = m THEN suffix ELSE <<>>))]

ReplaceStale(d, sel, with) ==  \* a mutant: the first line's cache stays
  LET r == Ordered(d, sel) new == NewLines(d, r, with) IN
  Spliced(d, r, new, <<d.caches[r.from.line]>> \o [n \in 1..(Len(new) - 1) |-> Cold])

(* Replace *)
Replace(d, sel, with) ==
  LET r == Ordered(d, sel) new == NewLines(d, r, with) IN
  Spliced(d, r, new, [n \in DOMAIN new |-> Cold])

ReplacedAt(d, sel, with) ==  \* the position Replace returns
  LET r == Ordered(d, sel) m == Len(with.lines) IN
  IF m = 1 THEN Pos(r.from.line, r.from.cluster + Len(Clusters(with, 1)))
  ELSE Pos(r.from.line + m - 1, Len(Clusters(with, m)))

Toggled(attrs) == [attrs EXCEPT !.bold = ~@]

UpdateLines(d, r, reset) ==
  LET cells(n) == [i \in DOMAIN Clusters(d, n) |->
                     IF /\ n > r.from.line \/ i > r.from.cluster
                        /\ n < r.to.line \/ i <= r.to.cluster
                     THEN [Clusters(d, n)[i] EXCEPT !.attrs = Toggled(@)] ELSE Clusters(d, n)[i]] IN
  [lines |-> [n \in DOMAIN d.lines |-> IF n \in r.from.line..r.to.line THEN LineOf(cells(n)) ELSE d.lines[n]],
   caches |-> [n \in DOMAIN d.lines |-> IF n \in reset THEN Cold ELSE d.caches[n]]]

UpdateFirst(d, sel) ==  \* a mutant: only the first line's cache is reset
  LET r == Ordered(d, sel) IN
  IF r.from = r.to THEN d ELSE UpdateLines(d, r, {r.from.line})

(* UpdateAttrs *)
Update(d, sel) ==
  LET r == Ordered(d, sel) IN
  IF r.from = r.to THEN d ELSE UpdateLines(d, r, r.from.line..r.to.line)
---------------------------------------------------------------------------
(* The wire form, a sequence of bytes: "B", "R", "C" for the bytes of bold, reset and
   colour, "nl", "x" for another control byte, digits and other characters. *)

Digit == [c \in {"0", "4", "9"} |-> IF c = "0" THEN 0 ELSE IF c = "4" THEN 4 ELSE 9]
Code(n) == LET of(v) == CHOOSE c \in DOMAIN Digit : Digit[c] = v IN <<of(n \div 10), of(n % 10)>>

CodesBare(attrs) ==  \* a mutant: no digits when both colours are cleared
  IF attrs.fg = NoColour /\ attrs.bg = NoColour THEN <<>>
  ELSE Code(attrs.fg) \o (IF attrs.bg = NoColour THEN <<>> ELSE <<",">> \o Code(attrs.bg))

(* writeColourCodes *)
Codes(attrs) == Code(attrs.fg) \o (IF attrs.bg = NoColour THEN <<>> ELSE <<",">> \o Code(attrs.bg))

TransitionBare(from, to) ==  \* a mutant: a style is switched off without a reset of the colours
  (IF from.bold # to.bold THEN <<IF to.bold THEN "B" ELSE "R">> ELSE <<>>)
  \o (IF <<from.fg, from.bg>> # <<to.fg, to.bg>> THEN <<"C">> \o Codes(to) ELSE <<>>)

(* writeTransition, needsReset *)
Transition(from, to) ==
  LET reset == from.bold /\ ~to.bold
      base == IF reset THEN Plain ELSE from IN
  (IF reset THEN <<"R">> ELSE <<>>)
  \o (IF base.bold # to.bold THEN <<"B">> ELSE <<>>)
  \o (IF <<base.fg, base.bg>> # <<to.fg, to.bg>> THEN <<"C">> \o Codes(to) ELSE <<>>)

(* Encode *)
Encode(d) ==
  LET span(acc, sp) == [raw |-> acc.raw \o Transition(acc.attrs, sp.attrs) \o sp.text, attrs |-> sp.attrs]
      line(n) == LET out == FoldLeft(span, [raw |-> <<>>, attrs |-> Plain], d.lines[n]) IN
                 out.raw \o (IF out.attrs = Plain THEN <<>> ELSE <<"R">>) IN
  FlattenSeq([n \in DOMAIN d.lines |-> (IF n = 1 THEN <<>> ELSE <<"nl">>) \o line(n)])

(* parseColourCode: one digit or two, or none *)
NumberAt(raw) ==
  IF raw = <<>> \/ raw[1] \notin DOMAIN Digit THEN [len |-> 0, value |-> NoColour]
  ELSE IF Len(raw) = 1 \/ raw[2] \notin DOMAIN Digit THEN [len |-> 1, value |-> Digit[raw[1]]]
  ELSE [len |-> 2, value |-> 10 * Digit[raw[1]] + Digit[raw[2]]]
From(raw, n) == SubSeq(raw, n, Len(raw))

(* parseColours *)
ColoursAt(raw) ==
  LET fg == NumberAt(raw)
      rest == From(raw, fg.len + 1)
      bg == IF fg.len > 0 /\ rest # <<>> /\ rest[1] = "," THEN NumberAt(Tail(rest))
            ELSE [len |-> 0, value |-> NoColour] IN
  [fg |-> fg.value, bg |-> bg.value, rest |-> IF bg.len = 0 THEN rest ELSE From(rest, bg.len + 2)]

(* Parse, stripControlLen *)
RECURSIVE ParseFrom(_, _, _)
ParseFrom(raw, lines, attrs) ==
  IF raw = <<>> THEN lines
  ELSE LET rest == Tail(raw) IN
       CASE raw[1] = "nl" -> ParseFrom(rest, Append(lines, <<>>), attrs)
         [] raw[1] = "B" -> ParseFrom(rest, lines, Toggled(attrs))
         [] raw[1] = "R" -> ParseFrom(rest, lines, Plain)
         [] raw[1] = "C" -> LET c == ColoursAt(rest) IN
                            ParseFrom(c.rest, lines, [attrs EXCEPT !.fg = c.fg, !.bg = c.bg])
         [] raw[1] = "x" -> ParseFrom(rest, lines, attrs)
         [] OTHER -> ParseFrom(rest, [lines EXCEPT ![Len(lines)] = Append(@, Cell(raw[1], attrs))], attrs)
Parse(raw) == LET cells == ParseFrom(raw, << <<>> >>, Plain) IN Document([n \in DOMAIN cells |-> LineOf(cells[n])])
---------------------------------------------------------------------------
(* What is edited and sent, on small inputs. *)
Lines == {<<>>, <<"a">>, <<"a", "a", " ", ",">>, <<" ", "a">>}
Texts == {<<"a">>, <<"4">>, <<",", "a">>, <<"4", ",">>}
Attrs == [bold : BOOLEAN, fg : {4, NoColour}, bg : {9, NoColour}]
Styled(text) == LineOf([i \in DOMAIN text |-> Cell(text[i], IF i = 2 THEN Bold ELSE Plain)])
Texted(spans) == Document(<<LineOf(CellsOf(spans))>>)
Empty == Document(<< <<>> >>)
Start == [doc |-> Empty, at |-> Pos(1, 0), flat |-> <<>>, index |-> 0, raw |-> <<>>, stage |-> "edit", edits |-> 0]

Init ==
  \/ \E text \in UNION {[1..n -> Lines] : n \in 1..2} :
       LET d == Warm(Document([n \in DOMAIN text |-> Styled(text[n])])) IN
       s = [Start EXCEPT !.doc = d, !.flat = Flat(d)]
  \/ \E a, b \in Attrs, t, u \in Texts, split \in BOOLEAN :
       s = [Start EXCEPT !.stage = "encode",
                         !.doc = IF split THEN Document(<<LineOf(CellsOf(<<Span(t, a)>>)), LineOf(CellsOf(<<Span(u, b)>>))>>)
                                 ELSE Texted(<<Span(t, a), Span(u, b)>>)]
  \/ \E n \in 0..MaxRaw : \E raw \in [1..n -> {"B", "R", "C", "4", ",", "a", "nl"}] :
       s = [Start EXCEPT !.raw = raw, !.stage = "receive"]

Selections == {[anchor |-> a, head |-> h] : a, h \in Positions(s.doc) \cup {Pos(Len(s.doc.lines), 9)}}
Replacements ==
  {Empty} \cup {Document([n \in DOMAIN t |-> LineOf([i \in DOMAIN t[n] |-> Cell(t[n][i], Bold)])]) :
                  t \in {<< <<"a">> >>, << <<"a">>, <<>> >>, << <<>>, <<" ">>, <<"a">> >>}}

Edit ==
  /\ s.stage = "edit" /\ s.edits < MaxEdits
  /\ \E sel \in Selections :
       LET r == Ordered(s.doc, sel)
           i == IndexOf(s.doc, r.from)
           j == IndexOf(s.doc, r.to)
           t == [s EXCEPT !.edits = @ + 1] IN
       \/ \E with \in Replacements :
            s' = [t EXCEPT !.doc = Warm(Replace(@, sel, with)), !.at = ReplacedAt(s.doc, sel, with),
                           !.flat = SubSeq(@, 1, i) \o Flat(with) \o From(@, j + 1),
                           !.index = i + Len(Flat(with))]
       \/ s' = [t EXCEPT !.doc = Warm(Update(@, sel)), !.at = r.to, !.index = j,
                         !.flat = [n \in DOMAIN @ |-> IF n > i /\ n <= j /\ @[n] # Newline
                                                      THEN [@[n] EXCEPT !.attrs = Toggled(@)] ELSE @[n]]]

Send == s.stage = "encode" /\ s' = [s EXCEPT !.raw = Encode(s.doc), !.stage = "parse"]
Receive == s.stage = "receive" /\ s' = [s EXCEPT !.doc = Parse(s.raw), !.stage = "encode"]

Next == Edit \/ Send \/ Receive
---------------------------------------------------------------------------
(* However a document is edited, it is the text that one long line edited alike would
   be, style by style, the cursor is where the edit ended, and what is drawn from a
   line's cache is the line. *)
EditedAsText ==
  s.stage = "edit" =>
    /\ Flat(s.doc) = s.flat
    /\ IndexOf(s.doc, s.at) = s.index /\ Clamp(s.doc, s.at) = s.at
    /\ Len(s.doc.caches) = Len(s.doc.lines)
    /\ \A n \in DOMAIN s.doc.lines : s.doc.caches[n].valid => s.doc.caches[n].cells = CellsOf(s.doc.lines[n])

(* The cursor's moves: left undoes right; a word move passes no word, and stops at a
   word's edge, at an empty line or where the text ends. *)
MovesByWords ==
  s.stage = "edit" =>
    \A p \in Positions(s.doc) :
      LET d == s.doc
          q == WordRight(d, p)
          o == WordLeft(d, p)
          ends == UNION {{Pos(n, g.to) : g \in Words(Clusters(d, n))} : n \in DOMAIN d.lines}
          starts == UNION {{Pos(n, g.from) : g \in Words(Clusters(d, n))} : n \in DOMAIN d.lines}
          blanks == {r \in Positions(d) : Clusters(d, r.line) = <<>>} IN
      /\ Right(d, p) # p => Left(d, Right(d, p)) = p
      /\ ~Before(q, p) /\ \A e \in ends : ~(Before(p, e) /\ Before(e, q))
      /\ q \in ends \cup blanks \/ \A e \in Positions(d) : ~Before(q, e)
      /\ ~Before(p, o) /\ \A e \in starts : ~(Before(o, e) /\ Before(e, p))
      /\ o \in starts \cup blanks \cup {Pos(1, 0)}

(* What is sent is read back as it was composed, style by style, from a document or from
   whatever was received; but for a text that starts with a comma and a digit, which
   a colour without a background takes for its own. *)
ReadBack ==
  s.stage = "parse" /\ (\A n \in DOMAIN s.doc.lines : \A i \in DOMAIN s.doc.lines[n] :
                          LET t == s.doc.lines[n][i].text IN
                          ~(Len(t) > 1 /\ t[1] = "," /\ t[2] \in DOMAIN Digit))
    => Parse(s.raw) = s.doc
=============================================================================
