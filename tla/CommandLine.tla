----------------------------- MODULE CommandLine -----------------------------
(* The reading of a typed command line (src/internal/command/command.go, parse.go)
   and of its beginning, for completion (completion.go). A first pass routes the
   tokens to the nodes of the command tree, a second reads each node's arguments
   into its fields, and completion has a walk of its own. The line grows by a token
   at a time, so that all of them are asked of every beginning of a line.

   An argument is the sequence of the tokens it spans: one token, or the rest of
   the line as it was typed. *)
EXTENDS Naturals, Sequences, FiniteSets, SequencesExt

CONSTANTS
  Grammar,    \* node -> [parent, pos, flags, kids]: pos is a sequence of
              \*   [mode, optional], flags maps a name to "bool", "one" or "many",
              \*   kids maps a word to a node
  Roots,      \* the commands a line may begin with
  Words,      \* token -> [kind, flag, attached]: kind is classifyOptionToken's, flag
              \*   the name splitLongFlagToken leaves, None if it is no flag's
  NoNode, MaxLine

VARIABLE s  \* [root, line]: the command, and the tokens after it

Init == s \in [root : Roots, line : {<<>>}]
Next == Len(s.line) < MaxLine /\ \E w \in DOMAIN Words : s' = [s EXCEPT !.line = Append(@, w)]
---------------------------------------------------------------------------
(* The tree. *)

IsFlag(kind) == kind \in {"long", "short"}

\* resolvePositional
Field(n, i) == IF i <= Len(Grammar[n].pos) THEN Grammar[n].pos[i] ELSE [mode |-> "missing"]

\* allFlagBindings: a node has its ancestors' flags, and its own before theirs
RECURSIVE Owner(_, _)
Owner(n, f) ==
  IF n = NoNode \/ f \in DOMAIN Grammar[n].flags THEN n ELSE Owner(Grammar[n].parent, f)
Known(n, f) == Owner(n, f) # NoNode
FlagKind(n, f) == Grammar[Owner(n, f)].flags[f]
---------------------------------------------------------------------------
(* The first pass. An argument is recorded with what it is taken for: [text, as], as
   a positional field, a flag, a flag's value, or unread. *)

Arg(text, as) == [text |-> text, as |-> as]
Start(root) ==
  [i |-> 1, node |-> root, at |-> 1, args |-> [n \in DOMAIN Grammar |-> <<>>], path |-> <<root>>,
   ended |-> FALSE, rest |-> FALSE, open |-> NoNode, refused |-> FALSE]

\* consumeInvocationFlag
TakeFlagAlone(line, r) ==
  LET o == Owner(r.node, Words[line[r.i]].flag) IN
  [r EXCEPT !.args[o] = Append(@, Arg(<<line[r.i]>>, "flag")), !.i = @ + IF FlagKind(r.node, Words[line[r.i]].flag) = "one" THEN 2 ELSE 1]
TakeFlag(line, r) ==
  LET f == Words[line[r.i]].flag  o == Owner(r.node, f)
      Put(seq) == [r EXCEPT !.args[o] = @ \o seq]
      token == Arg(<<line[r.i]>>, "flag") IN
  CASE FlagKind(r.node, f) = "bool" \/ Words[line[r.i]].attached ->
         [Put(<<token>>) EXCEPT !.i = @ + 1]
    [] r.i = Len(line) -> [Put(<<token>>) EXCEPT !.i = @ + 1, !.open = f]
    [] FlagKind(r.node, f) = "many" ->
         [Put(<<token>> \o [k \in 1..(Len(line) - r.i) |-> Arg(<<line[r.i + k]>>, "value")])
            EXCEPT !.i = Len(line) + 1, !.open = f]
    [] OTHER -> [Put(<<token, Arg(<<line[r.i + 1]>>, "value")>>) EXCEPT !.i = @ + 2]

\* consumeInvocationToken
Route(line, r) ==
  LET w == Words[line[r.i]]
      field == Field(r.node, r.at)
      known == Known(r.node, w.flag)
      Put(seq) == [r EXCEPT !.args[r.node] = @ \o seq, !.i = Len(line) + 1]
      rest == <<Arg(SubSeq(line, r.i, Len(line)), "positional")>>
      unread == [k \in 1..(Len(line) - r.i + 1) |-> Arg(<<line[r.i + k - 1]>>, "unread")] IN
  CASE field.mode = "partial" /\ w.kind = "end" -> [Put(rest) EXCEPT !.ended = TRUE, !.rest = TRUE]
    [] /\ ~known
       /\ \/ field.mode = "all"
          \/ field.mode = "partial" /\ ~IsFlag(w.kind) ->
         [Put(rest) EXCEPT !.rest = TRUE]
    [] known -> TakeFlag(line, r)
    [] w.kind = "end" \/ IsFlag(w.kind) -> Put(unread)
    [] field.mode # "missing" ->
         [r EXCEPT !.args[r.node] = Append(@, Arg(<<line[r.i]>>, "positional")),
                   !.i = @ + 1, !.at = @ + 1]
    [] line[r.i] \in DOMAIN Grammar[r.node].kids ->
         LET kid == Grammar[r.node].kids[line[r.i]] IN
         [r EXCEPT !.i = @ + 1, !.node = kid, !.at = 1, !.path = Append(@, kid)]
    [] DOMAIN Grammar[r.node].kids # {} -> [r EXCEPT !.i = Len(line) + 1, !.refused = TRUE]
    [] OTHER ->
         [r EXCEPT !.args[r.node] = Append(@, Arg(<<line[r.i]>>, "positional")), !.i = @ + 1]

RECURSIVE RouteFrom(_, _)
RouteFrom(line, r) == IF r.i > Len(line) THEN r ELSE RouteFrom(line, Route(line, r))
Routed(root, line) == RouteFrom(line, Start(root))
---------------------------------------------------------------------------
(* The second pass. *)

\* splitLongFlagToken and classifyOptionToken of an argument: more than one token has
\* a space in it, which no flag's name has
ArgFlag(text) == IF Len(text) = 1 THEN Words[text[1]].flag ELSE NoNode
ArgKind(text) ==
  LET kind == Words[text[1]].kind IN
  IF Len(text) = 1 THEN kind ELSE [value |-> "value", dash |-> "short", end |-> "long",
                                   long |-> "long", short |-> "short"][kind]

\* argumentClassification: n, the arguments, the place in them, the flags found, the
\* positionals, the field they fill
Found(c, f, values) == [c EXCEPT !.flags = [g \in DOMAIN @ \cup {f} |-> IF g = f THEN values ELSE @[g]]]

\* consumeFlag
ConsumeFlag(n, args, c) ==
  LET f == ArgFlag(args[c.i])  kind == Grammar[n].flags[f] IN
  CASE Words[args[c.i][1]].attached -> [Found(c, f, <<args[c.i]>>) EXCEPT !.i = @ + 1]
    [] kind = "bool" -> [Found(c, f, <<"true">>) EXCEPT !.i = @ + 1]
    [] c.i = Len(args) -> [Found(c, f, <<>>) EXCEPT !.i = @ + 1]
    [] kind = "many" -> [Found(c, f, SubSeq(args, c.i + 1, Len(args))) EXCEPT !.i = Len(args) + 1]
    [] OTHER -> [Found(c, f, <<args[c.i + 1]>>) EXCEPT !.i = @ + 2]

\* consume
ConsumeDropsEnd(n, args, c) ==
  LET a == args[c.i]  field == Field(n, c.at)
      All(from) == [c EXCEPT !.pos = @ \o SubSeq(args, from, Len(args)), !.i = Len(args) + 1] IN
  CASE c.through -> All(c.i)
    [] ArgFlag(a) \in DOMAIN Grammar[n].flags -> ConsumeFlag(n, args, c)
    [] ArgKind(a) = "end" -> All(c.i + 1)
    [] field.mode = "all" -> All(c.i)
    [] IsFlag(ArgKind(a)) -> [c EXCEPT !.unknown = TRUE, !.i = @ + 1]
    [] OTHER -> [c EXCEPT !.pos = Append(@, a), !.i = @ + 1, !.at = @ + 1,
                          !.through = field.mode = "partial"]
Consume(n, args, c) ==
  LET a == args[c.i]  field == Field(n, c.at)
      All(from) == [c EXCEPT !.pos = @ \o SubSeq(args, from, Len(args)), !.i = Len(args) + 1] IN
  CASE c.through -> All(c.i)
    [] ArgFlag(a) \in DOMAIN Grammar[n].flags -> ConsumeFlag(n, args, c)
    [] ArgKind(a) = "end" -> All(IF field.mode \in {"all", "partial"} THEN c.i ELSE c.i + 1)
    [] field.mode = "all" -> All(c.i)
    [] IsFlag(ArgKind(a)) -> [c EXCEPT !.unknown = TRUE, !.i = @ + 1]
    [] OTHER -> [c EXCEPT !.pos = Append(@, a), !.i = @ + 1, !.at = @ + 1,
                          !.through = field.mode = "partial"]

RECURSIVE ConsumeFrom(_, _, _)
ConsumeFrom(n, args, c) == IF c.i > Len(args) THEN c ELSE ConsumeFrom(n, args, Consume(n, args, c))
Classified(n, args, ended) ==
  ConsumeFrom(n, args, [i |-> 1, at |-> 1, flags |-> <<>>, pos |-> <<>>, unknown |-> FALSE,
                        through |-> ended])

\* applyFlags, applyPositionals, validateFields: why the fields are refused, if they are
Refused(n, c) ==
  \/ c.unknown
  \/ \E f \in DOMAIN c.flags : c.flags[f] = <<>>
  \/ Len(c.pos) > Len(Grammar[n].pos)
  \/ \E k \in DOMAIN Grammar[n].pos : k > Len(c.pos) /\ ~Grammar[n].pos[k].optional

Read(r, n) == Classified(n, [k \in DOMAIN r.args[n] |-> r.args[n][k].text], r.ended /\ n = r.node)
---------------------------------------------------------------------------
(* Completion. *)

\* consumeCompletionPositional
Stop(line, c) == [c EXCEPT !.i = Len(line) + 1]
CompletePositional(line, c) ==
  LET field == Field(c.node, c.at)  kind == Words[line[c.i]].kind IN
  CASE field.mode = "plain" -> [c EXCEPT !.i = @ + 1, !.at = @ + 1]
    [] field.mode = "partial" /\ IsFlag(kind) -> [Stop(line, c) EXCEPT !.invalid = TRUE]
    [] OTHER -> [Stop(line, c) EXCEPT !.rest = TRUE]

\* classifyForCompletion
Kid(line, c) == [c EXCEPT !.i = @ + 1, !.node = Grammar[c.node].kids[line[c.i]], !.at = 1]
CompleteInPlace(line, c) ==
  LET w == Words[line[c.i]]  known == Known(c.node, w.flag) IN
  CASE known /\ c.i = Len(line) /\ FlagKind(c.node, w.flag) # "bool" -> [Stop(line, c) EXCEPT !.open = w.flag]
    [] known -> [c EXCEPT !.i = @ + 1]
    [] Field(c.node, c.at).mode # "missing" -> CompletePositional(line, c)
    [] line[c.i] \in DOMAIN Grammar[c.node].kids -> Kid(line, c)
    [] DOMAIN Grammar[c.node].kids # {} -> [Stop(line, c) EXCEPT !.invalid = TRUE]
    [] OTHER -> [c EXCEPT !.i = @ + 1, !.at = @ + 1]
CompleteWord(line, c) ==
  LET w == Words[line[c.i]]  known == Known(c.node, w.flag) IN
  CASE known /\ (w.attached \/ FlagKind(c.node, w.flag) = "bool") -> [c EXCEPT !.i = @ + 1]
    [] known /\ c.i = Len(line) -> [Stop(line, c) EXCEPT !.open = w.flag]
    [] known /\ FlagKind(c.node, w.flag) = "many" -> Stop(line, c)
    [] known -> [c EXCEPT !.i = @ + 2]
    [] Field(c.node, c.at).mode # "missing" -> CompletePositional(line, c)
    [] line[c.i] \in DOMAIN Grammar[c.node].kids -> Kid(line, c)
    [] DOMAIN Grammar[c.node].kids # {} -> [Stop(line, c) EXCEPT !.invalid = TRUE]
    [] OTHER -> [c EXCEPT !.i = @ + 1, !.at = @ + 1]

RECURSIVE CompleteFrom(_, _)
CompleteFrom(line, c) == IF c.i > Len(line) THEN c ELSE CompleteFrom(line, CompleteWord(line, c))
Completed(root, line) ==
  CompleteFrom(line, [i |-> 1, node |-> root, at |-> 1, open |-> NoNode, rest |-> FALSE,
                      invalid |-> FALSE])
---------------------------------------------------------------------------
(* Properties *)

Texts(seq) == [k \in DOMAIN seq |-> seq[k].text]
Taken(seq, as) == Texts(SelectSeq(seq, LAMBDA a : a.as = as))
RECURSIVE ValuesFrom(_, _)
ValuesFrom(seq, k) ==
  IF k <= Len(seq) /\ seq[k].as = "value" THEN <<seq[k].text>> \o ValuesFrom(seq, k + 1) ELSE <<>>
Occurs(w, seq) == Len(SelectSeq(seq, LAMBDA t : t = w))

(* No token of a line is lost or given twice: what the nodes of the path were given,
   with the words that chose a subcommand, is the line; and an argument of more than
   one token is the end of the line, as it was typed. *)
TokensKept ==
  LET r == Routed(s.root, s.line)
      given == FlattenSeq([k \in DOMAIN r.path |-> FlattenSeq(Texts(r.args[r.path[k]]))])
      Chose(k) == CHOOSE w \in DOMAIN Grammar[r.path[k]].kids : Grammar[r.path[k]].kids[w] = r.path[k + 1]
      chosen == [k \in 1..(Len(r.path) - 1) |-> Chose(k)] IN
  ~r.refused =>
    /\ \A w \in DOMAIN Words : Occurs(w, s.line) = Occurs(w, given) + Occurs(w, chosen)
    /\ \A k \in DOMAIN r.path : \A a \in ToSet(r.args[r.path[k]]) :
         Len(a.text) > 1 => IsSuffix(a.text, s.line)

(* The passes disagree about two lines: after flags, "--" ends the options of the
   second pass before it has read them; and the rest of a line that begins with a
   lone dash looks like a flag to it. *)
Misread(r) ==
  /\ r.rest
  /\ \/ r.ended /\ \E a \in ToSet(r.args[r.node]) : a.as = "flag"
     \/ LET rest == Last(r.args[r.node]).text IN
        Field(r.node, r.at).mode = "partial" /\ Words[rest[1]].kind = "dash" /\ Len(rest) > 1

(* What the first pass takes an argument for, the second does too: each field has the
   arguments routed to it, a flag the value of its last occurrence, and only a line with
   an unknown flag has an unknown flag. Of the two lines above it is claimed only that the second
   pass refuses them, and of a line refused by the first nothing. *)
PassesAgree ==
  LET r == Routed(s.root, s.line) IN
  /\ Misread(r) => Refused(r.node, Read(r, r.node))
  /\ \A n \in ToSet(r.path) :
    LET seq == r.args[n]
        c == Read(r, n)
        unread == Taken(seq, "unread")
        unknown == unread # <<>> /\ IsFlag(ArgKind(unread[1]))
        IsFlagAt(k, f) == seq[k].as = "flag" /\ ArgFlag(seq[k].text) = f
        Values(k) == IF Words[seq[k].text[1]].attached THEN <<seq[k].text>>
                     ELSE IF Grammar[n].flags[ArgFlag(seq[k].text)] = "bool" THEN <<"true">>
                     ELSE ValuesFrom(seq, k + 1) IN
    ~(n = r.node /\ Misread(r)) /\ ~r.refused =>
      /\ c.unknown = unknown
      /\ ~unknown =>
           /\ c.pos = Taken(seq, "positional") \o (IF unread = <<>> THEN <<>> ELSE Tail(unread))
           /\ DOMAIN c.flags = {ArgFlag(seq[k].text) : k \in {j \in DOMAIN seq : seq[j].as = "flag"}}
           /\ \A f \in DOMAIN c.flags :
                LET k == CHOOSE j \in DOMAIN seq :
                           IsFlagAt(j, f) /\ ~\E l \in DOMAIN seq : l > j /\ IsFlagAt(l, f) IN
                c.flags[f] = Values(k)

(* "PassthroughModePartial validates flags until the passthrough positional receives its
   first value" (parse.go:83): a flag routed before that value is read as a flag. It does not
   hold: a "--" that ends the options makes the second pass read the flags before it as text. *)
FlagsUntilFirstValue ==
  LET r == Routed(s.root, s.line) IN
  r.rest /\ Field(r.node, r.at).mode = "partial" =>
    \A a \in ToSet(r.args[r.node]) :
      a.as = "flag" => ArgFlag(a.text) \in DOMAIN Read(r, r.node).flags

(* What completion offers is for the argument the parser reads next, and it gives up a
   line the parser refuses. Two places are excepted: behind a "--" or a flag nobody
   knows, which the parser leaves unread (completion goes on as if they were not there), and
   behind the first value of a flag that takes many (completion offers what would come
   after them, the parser takes one more of them). *)
CompletionAgrees ==
  LET r == Routed(s.root, s.line)
      c == Completed(s.root, s.line)
      unread == Taken(r.args[r.node], "unread") # <<>>
      many == r.open # NoNode /\ Last(r.args[Owner(r.node, r.open)]).as = "value" IN
  /\ r.refused => c.invalid
  /\ ~r.refused /\ ~unread /\ ~many =>
       /\ ~c.invalid /\ c.node = r.node /\ c.open = r.open /\ c.rest = r.rest
       /\ ~c.rest => Field(c.node, c.at) = Field(r.node, r.at)
=============================================================================
