------------------------------ MODULE ModeText ------------------------------
(* The modes of a channel as they are written and read (src/internal/ui/chatcmd/mode.go,
   src/internal/domain/channel_modes.go, src/internal/session/mode_apply.go): a MODE line
   or the call of a tool becomes a list of changes, the server checks it again and applies
   it, and the modes are written out as a line.

   Modes are their letters: "o" takes a nick, "m" nothing, "l" a count, "k" a text; "x"
   is no mode. An argument is "0", "2" or a word; "" stands for one that is empty. *)
EXTENDS Naturals, Sequences, SequencesExt

CONSTANTS
  MaxChanges,     \* maxModeChanges
  MaxSigns,       \* bound: characters of a line's first word
  Nothing         \* no value, a refusal

VARIABLE s  \* [kind, in, out]: a line, a tool's object or the modes of a channel, and its reading

Kind(flag) ==
  CASE flag \in {"o", "v"} -> "nick"
    [] flag = "m" -> "none"
    [] flag \in {"l", "f"} -> "count"
    [] flag = "k" -> "text"
    [] OTHER -> "unknown"

Flags == {"o", "m", "l", "k"}
Member(flag) == Kind(flag) = "nick"
Positive(arg) == arg = "2"
Change(add, flag, value) == [add |-> add, flag |-> flag, value |-> value]

(* memberModeParameter, positiveModeParameter and ModeKey's: what the mode's value may be. *)
Proper(c) ==
  CASE Kind(c.flag) = "nick" -> c.value # ""
    [] Kind(c.flag) = "count" -> IF c.add THEN Positive(c.value) ELSE c.value = ""
    [] Kind(c.flag) = "text" -> (c.value # "") = c.add
    [] OTHER -> c.value = ""

(* ModeChanges.Validate *)
Valid(changes) ==
  Len(changes) \in 1..MaxChanges /\ \A i \in DOMAIN changes : Proper(changes[i])
---------------------------------------------------------------------------
(* A line: its first word, sign by sign, takes arguments as it needs them. *)

NeedsAlways(add, flag) == Kind(flag) \in {"nick", "count", "text"}  \* a mutant
Needs(add, flag) == Member(flag) \/ (add /\ Kind(flag) \in {"count", "text"})

(* modeWithParameter: only a count can refuse its argument. *)
Admissible(flag, arg) == Kind(flag) = "count" => Positive(arg)

Sign(args, p, sign) ==
  IF p.refused THEN p
  ELSE IF sign \in {"+", "-"} THEN [p EXCEPT !.add = sign = "+"]
  ELSE IF sign \notin Flags THEN [p EXCEPT !.refused = TRUE]
  ELSE IF ~Needs(p.add, sign) THEN [p EXCEPT !.changes = Append(@, Change(p.add, sign, ""))]
  ELSE IF p.used = Len(args) \/ (p.used < Len(args) /\ ~Admissible(sign, args[p.used + 1]))
  THEN [p EXCEPT !.refused = TRUE]
  ELSE [p EXCEPT !.changes = Append(@, Change(p.add, sign, args[p.used + 1])), !.used = @ + 1]

(* parseIRCModeChanges *)
Parse(line) ==
  LET p == FoldLeft(LAMBDA acc, sign : Sign(line.args, acc, sign),
                    [add |-> TRUE, used |-> 0, changes |-> <<>>, refused |-> FALSE], line.signs) IN
  IF p.refused \/ p.used < Len(line.args) \/ ~Valid(p.changes) THEN Nothing ELSE p.changes
---------------------------------------------------------------------------
(* The tool's object: a change, the mode's name and its field, which is Nothing when
   missing; extra: a field of another mode is there. *)

(* ModeChange.UnmarshalJSON: an unknown field, or a field that does not decode, refuses. *)
Decoded(o) ==
  LET value == IF o.value = Nothing THEN "" ELSE o.value
      c == Change(o.change = "add", o.mode, value) IN
  IF \/ o.change \notin {"add", "remove"} \/ o.mode \notin Flags
     \/ o.extra \/ (o.value # Nothing /\ Kind(o.mode) = "none")
     \/ (o.value # Nothing /\ Kind(o.mode) = "count" /\ ~Positive(o.value))
     \/ ~Proper(c)
  THEN Nothing ELSE <<c>>

BranchOfAnyChange(o) ==  \* a mutant: the parameter is described for removals too
  o.change \in {"add", "remove"} /\ o.mode \in Flags /\ ~o.extra
  /\ (IF Kind(o.mode) # "none" THEN o.value # Nothing /\ o.value # "" ELSE o.value = Nothing)
  /\ (Kind(o.mode) = "count" => Positive(o.value))

(* modeSchemaBranch: what one of the tool's branches admits. *)
Branch(o) ==
  /\ o.change \in {"add", "remove"} /\ o.mode \in Flags /\ ~o.extra
  /\ IF (o.change = "add" \/ Member(o.mode)) /\ Kind(o.mode) # "none"
     THEN /\ o.value # Nothing /\ o.value # ""
          /\ Kind(o.mode) = "count" => Positive(o.value)
     ELSE o.value = Nothing
---------------------------------------------------------------------------
(* The server. *)

(* validateChannelModeChange, of the target of a member's mode and the parameter of
   another's *)
Accepted(c) ==
  CASE Kind(c.flag) = "nick" -> c.value # ""
    [] Kind(c.flag) = "count" -> c.add => Positive(c.value)
    [] Kind(c.flag) = "text" -> c.add => c.value # ""
    [] Kind(c.flag) = "none" -> TRUE
    [] OTHER -> FALSE

AppliedAtOnce(modes, c) ==  \* a mutant: a removal keeps the value it was given
  IF Member(c.flag) THEN modes
  ELSE IF Kind(c.flag) = "none" THEN [modes EXCEPT ![c.flag] = c.add]
  ELSE [modes EXCEPT ![c.flag] = IF c.add THEN c.value ELSE @]

(* ApplyChannelMode: a count that is not set is 0 and a key "", here "" both *)
Applied(modes, c) ==
  IF Member(c.flag) THEN modes
  ELSE IF Kind(c.flag) = "none" THEN [modes EXCEPT ![c.flag] = c.add]
  ELSE [modes EXCEPT ![c.flag] = IF c.add THEN c.value ELSE ""]

Order == <<"m", "l", "k">>  \* channelModeSpecs
Set(modes, flag) == IF Kind(flag) = "none" THEN modes[flag] ELSE modes[flag] # ""

LineWithAll(modes) ==  \* a mutant: every mode writes its value
  LET set == SelectSeq(Order, LAMBDA f : Set(modes, f)) IN
  [signs |-> <<"+">> \o set, args |-> [i \in DOMAIN set |-> IF set[i] = "m" THEN "w" ELSE modes[set[i]]]]

(* ChannelModes.IRCString *)
Line(modes) ==
  LET set == SelectSeq(Order, LAMBDA f : Set(modes, f))
      valued == SelectSeq(set, LAMBDA f : Kind(f) # "none") IN
  [signs |-> <<"+">> \o set, args |-> [i \in DOMAIN valued |-> modes[valued[i]]]]
---------------------------------------------------------------------------
Lines ==
  [signs : UNION {[1..n -> {"+", "-", "x"} \cup Flags] : n \in 1..MaxSigns},
   args : UNION {[1..n -> {"0", "2", "w"}] : n \in 0..2}]
Objects ==
  [change : {"add", "remove", "toggle"}, mode : Flags \cup {"x"},
   value : {Nothing, "", "0", "2", "w"}, extra : BOOLEAN]
AllModes == [m : BOOLEAN, l : {"", "2"}, k : {"", "2", "w"}]
Of(kind, inputs) == {[kind |-> kind, in |-> i, out |-> Nothing] : i \in inputs}

Init ==
  \/ s \in Of("line", Lines)
  \/ s \in Of("object", Objects)
  \/ \E was \in AllModes : s \in {[r EXCEPT !.out = was] : r \in Of("modes", AllModes)}

ReadLine == s.kind = "line" /\ s' = [s EXCEPT !.kind = "changes", !.out = Parse(s.in)]
ReadObject == s.kind = "object" /\ s' = [s EXCEPT !.kind = "called", !.out = Decoded(s.in)]

(* The modes are written, and the line is read in a channel whose own are removed. *)
Copy ==
  /\ s.kind = "modes"
  /\ LET removed == FoldLeft(Applied, s.out, [i \in DOMAIN Order |-> Change(FALSE, Order[i], "")])
         changes == Parse(Line(s.in)) IN
     s' = [s EXCEPT !.kind = "copied",
                    !.out = IF changes = Nothing THEN removed ELSE FoldLeft(Applied, removed, changes)]

Next == ReadLine \/ ReadObject \/ Copy
---------------------------------------------------------------------------
(* The text of a list of changes: a sign before every letter. *)
Text(changes) ==
  LET needing == SelectSeq(changes, LAMBDA c : Needs(c.add, c.flag)) IN
  [signs |-> FlattenSeq([i \in DOMAIN changes |->
               <<IF changes[i].add THEN "+" ELSE "-", changes[i].flag>>]),
   args |-> [i \in DOMAIN needing |-> needing[i].value]]

(* What a line or a tool's call is read as, the server never refuses as malformed: a
   MODE is not sent to fail. *)
ReadIsAccepted ==
  s.kind \in {"changes", "called"} /\ s.out # Nothing => \A i \in DOMAIN s.out : Accepted(s.out[i])

(* Every list of changes can be written as a line that means it: what was read, from
   a line or a call, is read again from its text. *)
TextMeansIt ==
  s.kind \in {"changes", "called"} /\ s.out # Nothing => Parse(Text(s.out)) = s.out

(* A call the tool's schema admits is read; and a call that is read but not admitted
   only names, empty, the key it removes. *)
SchemaIsRead ==
  s.kind = "called" =>
    /\ Branch(s.in) => s.out # Nothing
    /\ s.out # Nothing => Branch(s.in) \/ (s.in.change = "remove" /\ s.in.mode = "k" /\ s.in.value = "")

(* The line of a channel's modes, typed in a channel whose own are removed, gives it
   the same modes. *)
LineReadsBack == s.kind = "copied" => s.out = s.in
=============================================================================
