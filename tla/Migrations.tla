----------------------------- MODULE Migrations -----------------------------
(* Opening a store of any age: the first schema is created, every later step of the
   registry is applied in one transaction, and the version is recorded with them
   (src/internal/store: migrations.go, sqlite.go, time.go, persona_salience.go). Of the
   schema, the tables and the columns that came or went are kept; an index needs the
   columns it covers and is otherwise left out. Nicks are compared folded. *)
EXTENDS Naturals, Sequences, SequencesExt, FiniteSets, TLC

CONSTANTS MaxLines  \* bound

VARIABLE s  \* the whole state, a record:
  \* db: the file: [objs, version, log, row, scroll, replies, amendments, experiences,
  \*   instances, lineages, old]; with log the one channel's events, row its members,
  \*   old the columns that may hold an instant in an earlier spelling
  \* phase: "old", an earlier build is running; "down"; "create"; "migrate"; "open"; "failed"
  \* at: the statement of the first schema that is next
  \* since: history, where in the log each member's stay began, 0 if it is not in
  \* nick: history, the nick it has there; start, was: history, the version found, the file

Models == {"a", "b"}
Nicks == {1, 2}
Unknown == "?"  \* a source without an instance id: LegacyClientSource
SchemaVersion == 22

(* A statement: what has to exist, what must not, what it makes and removes. *)
Statement(needs, lacks, adds, drops) == [needs |-> needs, lacks |-> lacks, adds |-> adds, drops |-> drops]
Ensure(t) == Statement({}, {}, {t}, {})        \* CREATE TABLE IF NOT EXISTS
Create(t) == Statement({}, t, t, {})           \* CREATE TABLE, with the columns named
AddColumn(t, c) == Statement({t}, {c}, {c}, {})
Rename(x, y) == Statement({x}, {y}, {y}, {x})
DropOf(x) == Statement({x}, {}, {}, {x})
Uses(x) == Statement(x, {}, {}, {})            \* CREATE INDEX, SELECT, UPDATE

Executed(objs, st) ==
  [ok |-> st.needs \subseteq objs /\ st.lacks \cap objs = {}, objs |-> (objs \ st.drops) \cup st.adds]
RunAll(objs, sts) ==
  FoldLeft(LAMBDA r, st : IF r.ok THEN Executed(r.objs, st) ELSE r, [ok |-> TRUE, objs |-> objs], sts)
---------------------------------------------------------------------------
(* The schema of version 1 and what each later version does to it. *)

Schema ==
  <<"channels", "events", "instance_replies", "instances", "memories", "personas", "state",
    "autojoin", "last_read">>

EarlySteps(v) ==
  CASE v = 2 -> <<AddColumn("events", "dm_instance_id"), Uses({"dm_instance_id"}), Ensure("dm_windows")>>
    [] v = 3 -> <<Uses({"instances"}), Uses({"channels"})>>
    [] v = 4 -> <<Ensure("dm_last_read")>>
    [] v = 5 -> <<AddColumn("memories", "memories.at")>>
    [] v = 6 -> <<AddColumn("instances", "pending_deletion"), Create({"pending_memory_deletions"})>>
    [] v = 7 -> <<Ensure("channel_scrollback"), Uses({"channel_scrollback"})>>

MiddleSteps(v) ==
  CASE v = 8 -> <<AddColumn("events", "source_instance_id"), Uses({"source_instance_id"})>>
    [] v = 9 -> <<AddColumn("instance_replies", "window_kind"), AddColumn("instance_replies", "window_key"),
                  Uses({"window_kind", "window_key"})>>
    [] v = 10 -> <<Uses({"channels", "events", "channel_scrollback"})>>
    [] v = 11 -> <<Ensure("model_turns"), Uses({"model_turns"}), Ensure("model_turn_entries"),
                   Uses({"model_turn_entries"})>>

LaterSteps(v) ==
  CASE v = 12 -> <<Create({"context_summary_sources"}), Create({"context_summaries"})>>
    [] v = 13 -> <<AddColumn("memories", "pinned")>>
    [] v = 14 -> <<Create({"persona_revisions"}), Create({"persona_lineages"}), Uses({"instances"})>>

PersonaSteps(v) ==
  CASE v = 15 -> <<Create({"persona_experiences"}), Create({"persona_experience_sources"}),
                   Create({"persona_amendments", "consolidated_at"}), Create({"persona_amendment_evidence"}),
                   Create({"persona_description_evidence"}), Create({"persona_revision_experiences"}),
                   Create({"persona_revision_amendments"}), Create({"persona_transitions"}),
                   Create({"reflection_runs"})>>
    [] v = 16 -> <<Create({"reflection_events"})>>

RecentSteps(v) ==
  CASE v = 17 -> <<AddColumn("persona_lineages", "template_id"), AddColumn("persona_lineages", "template_origin"),
                   AddColumn("persona_lineages", "template_hash")>>
    [] v = 19 -> <<AddColumn("persona_experiences", "last_cited_at"), AddColumn("persona_experiences", "salience_at"),
                   Uses({"last_cited_at", "salience_at"})>>
    [] v = 20 -> <<Rename("consolidated_at", "departed_at"), AddColumn("persona_amendments", "departure"),
                   Uses({"departure", "departed_at"})>>

LastSteps(v) ==
  CASE v = 21 -> <<Rename("personas", "persona_templates"), Uses({"events", "instance_replies", "channel_scrollback"})>>
    [] v = 22 -> <<DropOf("persona_templates"), DropOf("template_id"), DropOf("template_origin"),
                   DropOf("template_hash")>>

(* storedTimeColumns, by the table or the column each statement has to find. *)
StoredTimeColumns ==
  {"channel_scrollback", "context_summaries", "context_summary_sources", "events", "instance_replies",
   "memories.at", "model_turn_entries", "model_turns", "consolidated_at", "persona_amendments",
   "persona_experiences", "persona_lineages", "persona_revisions", "persona_transitions",
   "reflection_events", "reflection_runs"}

Steps(v) ==
  CASE v \in 2..7 -> EarlySteps(v)
    [] v \in 8..11 -> MiddleSteps(v)
    [] v \in 12..14 -> LaterSteps(v)
    [] v \in 15..16 -> PersonaSteps(v)
    [] v = 18 -> <<Uses(StoredTimeColumns)>>
    [] v \in {17, 19, 20} -> RecentSteps(v)
    [] v \in 21..22 -> LastSteps(v)

Registry == [i \in 1..21 |-> i + 1]
MissingMigrations(from) ==
  LET later == SelectSeq(Registry, LAMBDA v : v > from)
  IN IF /\ \A i \in 1..Len(later) : later[i] = from + i
        /\ from + Len(later) = SchemaVersion
     THEN later ELSE <<>>

SchemaAt(v) ==
  RunAll(ToSet(Schema), FlattenSeq([i \in 1..(v - 1) |-> Steps(i + 1)])).objs
---------------------------------------------------------------------------
(* The backfill of version 10: what each member may be shown of the stay it is in. An
   event of the log: [kind, id, nick, new], id Unknown in an event of an old build; a
   kick has its subject's nick only; a message stands for a topic too. *)

Belongs(e, m, n) == IF e.id # Unknown THEN e.id = m ELSE e.nick = n  \* sourceBelongsToMigrationActor

\* a mutant: a nick change is not followed
ClosedByFirstNick(events, m, n) ==
  \E i \in 1..Len(events) :
    \/ events[i].kind \in {"part", "quit"} /\ Belongs(events[i], m, n)
    \/ events[i].kind = "kick" /\ events[i].nick = n
(* The nick is followed through the events, as the loop does. *)
MembershipClosed(events, m, n) ==
  FoldLeft(LAMBDA r, e :
             CASE r.closed -> r
               [] e.kind \in {"part", "quit"} -> [r EXCEPT !.closed = Belongs(e, m, r.nick)]
               [] e.kind = "kick" -> [r EXCEPT !.closed = e.nick = r.nick]
               [] e.kind = "nick" /\ Belongs(e, m, r.nick) -> [r EXCEPT !.nick = e.new]
               [] OTHER -> r,
           [closed |-> FALSE, nick |-> n], events).closed

JoinsOf(log, m) == {i \in 1..Len(log) : log[i].kind = "join" /\ log[i].id = m}
Latest(is) == CHOOSE i \in is : \A j \in is : j <= i

\* a mutant: a source that is known is kept
ProjectedKnown(log, m, i) == [who |-> m, line |-> i, named |-> log[i].id # Unknown]
(* safeMigrationProjection: content only, and who said it only to itself. *)
Projected(log, m, i) == [who |-> m, line |-> i, named |-> log[i].id = m]

\* a mutant: a member with rows is filled in again
BackfilledAgain(d, m) ==
  LET joins == JoinsOf(d.log, m) IN
  IF joins = {} THEN {}
  ELSE LET start == Latest(joins)
           stay == start..Len(d.log) IN
       IF MembershipClosed(SubSeq(d.log, start + 1, Len(d.log)), m, d.log[start].nick) THEN {}
       ELSE {Projected(d.log, m, i) : i \in {j \in stay : d.log[j].kind = "message"}}
Backfilled(d, m) ==
  LET joins == JoinsOf(d.log, m) IN
  IF {r \in d.scroll : r.who = m} # {} \/ joins = {} THEN {}
  ELSE LET start == Latest(joins)
           stay == start..Len(d.log) IN
       IF MembershipClosed(SubSeq(d.log, start + 1, Len(d.log)), m, d.log[start].nick) THEN {}
       ELSE {Projected(d.log, m, i) : i \in {j \in stay : d.log[j].kind = "message"}}

BackfillScrollback(d) == [d EXCEPT !.scroll = @ \cup UNION {Backfilled(d, m) : m \in d.row}]
---------------------------------------------------------------------------
(* What the other steps do to the rows. *)

\* a mutant: only the replies to LIST go
ScopeOfKnown(d) ==
  [d EXCEPT !.replies =
     {IF r.type = "personas_list" THEN r
      ELSE [r EXCEPT !.kind = IF r.channel = "#c" THEN 1 ELSE 2, !.key = r.channel] :
        r \in {q \in d.replies : q.type # "list_reply"}}]
(* A reply whose window is not known goes, any other is put in its window; the template
   list has none. *)
ScopeReplies(d) ==
  [d EXCEPT !.replies =
     {IF r.type = "personas_list" THEN r
      ELSE [r EXCEPT !.kind = IF r.channel = "#c" THEN 1 ELSE 2, !.key = r.channel] :
        r \in {q \in d.replies : q.type # "list_reply" /\ (q.type = "personas_list" \/ q.channel # "")}}]

RetagLists(d) ==
  [d EXCEPT !.replies = {IF r.type = "personas_list" THEN [r EXCEPT !.type = "persona_templates_list"] ELSE r : r \in @}]

NormaliseTimes(d) == [d EXCEPT !.old = @ \ StoredTimeColumns]

(* Cited when it was created, whose spelling is canonical by then. *)
BackfillSalience(d) == [d EXCEPT !.experiences = {[e EXCEPT !.cited = e.created] : e \in @}]

NameDepartures(d) == [d EXCEPT !.amendments = {IF a.departed THEN [a EXCEPT !.why = "consolidated"] ELSE a : a \in @}]

BackfillLineages(d) == [d EXCEPT !.lineages = d.instances \ {"user"}]

Rows(v, d) ==
  CASE v = 9 -> ScopeReplies(d)
    [] v = 10 -> BackfillScrollback(d)
    [] v = 14 -> BackfillLineages(d)
    [] v = 18 -> NormaliseTimes(d)
    [] v = 19 -> BackfillSalience(d)
    [] v = 20 -> NameDepartures(d)
    [] v = 21 -> RetagLists(d)
    [] OTHER -> d

Applied(v, d) == LET r == RunAll(d.objs, Steps(v)) IN [ok |-> r.ok, d |-> Rows(v, [d EXCEPT !.objs = r.objs])]
---------------------------------------------------------------------------
(* A file as a build of version v left it; 0 is a file nothing was written to. *)

Reply(type, channel, kind, key) == [type |-> type, channel |-> channel, kind |-> kind, key |-> key]
Unscoped(type, channel) == Reply(type, channel, 0, "")
RepliesAt(v) ==
  IF v < 9 THEN {Unscoped("list_reply", ""), Unscoped("personas_list", ""), Unscoped("whois", ""),
                 Unscoped("whois", "#c"), Unscoped("whois", "peer")}
  ELSE {Reply("list_reply", "", 1, "#c"), Reply("whois", "", 2, "peer"),
        Unscoped(IF v < 21 THEN "personas_list" ELSE "persona_templates_list", "")}
AmendmentsAt(v) ==
  IF v < 15 THEN {}
  ELSE {[departed |-> FALSE, why |-> ""], [departed |-> TRUE, why |-> IF v < 20 THEN "" ELSE "retracted"]}

FileAt(v) ==
  LET objs == IF v = 0 THEN {} ELSE SchemaAt(IF v > SchemaVersion THEN SchemaVersion ELSE v) IN
  [objs |-> objs, version |-> v, log |-> <<>>, row |-> {}, scroll |-> {},
   replies |-> IF v = 0 THEN {} ELSE RepliesAt(v), amendments |-> AmendmentsAt(v),
   experiences |-> IF v < 15 THEN {} ELSE {[created |-> 1, cited |-> IF v < 19 THEN 0 ELSE 2]},
   instances |-> IF v = 0 THEN {} ELSE {"a", "user"}, lineages |-> IF v < 14 THEN {} ELSE {"a"},
   old |-> IF v < 18 THEN StoredTimeColumns \cap objs ELSE {}]

Event(kind, id, n, new) == [kind |-> kind, id |-> id, nick |-> n, new |-> new]
Found(v, d, phase, from, n) ==
  [db |-> d, phase |-> phase, at |-> 0, start |-> v, was |-> d,
   since |-> [m \in Models |-> IF m = "a" THEN from ELSE 0], nick |-> [m \in Models |-> IF m = "a" THEN n ELSE 0]]

(* A log begins with a join; that a is the first in, with nick 1, is no loss. *)
Init ==
  \/ \E v \in 0..(SchemaVersion + 1) : s = Found(v, FileAt(v), "down", 0, 0)
  \/ \E id \in {"a", Unknown} :
       s = Found(9, [FileAt(9) EXCEPT !.log = <<Event("join", id, 1, 0)>>], "old", 1, 1)

(* The earlier build: the log of its channel, true to who is in it, with and without
   the ids of the sources. *)

In == {m \in Models : s.since[m] > 0}
Logged(e) == [s EXCEPT !.db.log = Append(@, e)]
MayLog == s.phase = "old" /\ Len(s.db.log) < MaxLines

Join(m, n, id) ==
  /\ MayLog /\ m \notin In /\ \A o \in In : s.nick[o] # n
  /\ s' = [Logged(Event("join", id, n, 0)) EXCEPT !.since[m] = Len(s.db.log) + 1, !.nick[m] = n]
Speak(m, id) ==
  /\ MayLog /\ m \in In
  /\ s' = Logged(Event("message", id, s.nick[m], 0))
Leave(m, kind, id) ==
  /\ MayLog /\ m \in In
  /\ s' = [Logged(Event(kind, IF kind = "kick" THEN Unknown ELSE id, s.nick[m], 0)) EXCEPT !.since[m] = 0]
ChangeNick(m, n, id) ==
  /\ MayLog /\ m \in In /\ \A o \in In : s.nick[o] # n
  /\ s' = [Logged(Event("nick", id, s.nick[m], n)) EXCEPT !.nick[m] = n]

(* The build is replaced: its channel row may say something else than its log, and some
   of those in the channel were sent a line since it keeps a scrollback. *)
Replace(row, live) ==
  /\ s.phase = "old" /\ live \subseteq In \cap row /\ Len(s.db.log) > 0
  /\ LET d == [s.db EXCEPT !.row = row, !.scroll = {[who |-> m, line |-> Len(s.db.log), named |-> TRUE] : m \in live}]
     IN s' = [s EXCEPT !.db = d, !.was = d, !.phase = "down"]
---------------------------------------------------------------------------
(* NewSQLiteStore. *)

\* a mutant: the schema is run at every open
SchemaUnrecorded(d) == FALSE
SchemaRecorded(d) == "state" \in d.objs /\ d.version > 0

Start ==
  /\ s.phase = "down"
  /\ s' = [s EXCEPT !.phase = IF SchemaRecorded(s.db) THEN "migrate" ELSE "create", !.at = 1]

(* The statements of the first schema are committed one by one, the version last. *)
CreateNext ==
  /\ s.phase = "create"
  /\ s' = IF s.at <= Len(Schema)
          THEN [s EXCEPT !.db.objs = Executed(@, Ensure(Schema[s.at])).objs, !.at = @ + 1]
          ELSE [s EXCEPT !.db.version = IF @ = 0 THEN 1 ELSE @, !.phase = "migrate"]

(* applyMigrations: all of the missing versions and the record of the newest, or none. *)
Brought(d, missing) ==
  FoldLeft(LAMBDA r, v : IF r.ok THEN Applied(v, r.d) ELSE r, [ok |-> TRUE, d |-> d], missing)

\* a mutant: the steps are committed one by one, the version after the last
MigrateEach ==
  /\ s.phase = "migrate"
  /\ LET missing == MissingMigrations(s.db.version)
         r == Brought(s.db, missing) IN
     \/ /\ s.db.version = SchemaVersion
        /\ s' = [s EXCEPT !.phase = "open"]
     \/ /\ missing # <<>> /\ r.ok
        /\ s' = [s EXCEPT !.db = Applied(Head(missing), @).d, !.phase = "down"]
     \/ /\ s.db.version # SchemaVersion /\ (missing = <<>> \/ ~r.ok)
        /\ s' = [s EXCEPT !.phase = "failed"]
Migrate ==
  /\ s.phase = "migrate"
  /\ LET r == Brought(s.db, MissingMigrations(s.db.version)) IN
     \/ /\ s.db.version = SchemaVersion
        /\ s' = [s EXCEPT !.phase = "open"]
     \/ /\ s.db.version < SchemaVersion /\ MissingMigrations(s.db.version) # <<>> /\ r.ok
        /\ s' = [s EXCEPT !.db = [r.d EXCEPT !.version = SchemaVersion], !.phase = "open"]
     \/ /\ s.db.version # SchemaVersion /\ (MissingMigrations(s.db.version) = <<>> \/ ~r.ok)
        /\ s' = [s EXCEPT !.phase = "failed"]

(* Closed, or ended anywhere: of an open transaction nothing is left. *)
Stop ==
  /\ s.phase \notin {"old", "down"}
  /\ s' = [s EXCEPT !.phase = "down", !.at = 0]

Next ==
  \/ \E m \in Models, known \in BOOLEAN :
       LET id == IF known THEN m ELSE Unknown IN
       \/ Speak(m, id)
       \/ \E kind \in {"part", "quit", "kick"} : Leave(m, kind, id)
       \/ \E n \in Nicks : Join(m, n, id) \/ ChangeNick(m, n, id)
  \/ \E row \in {In, Models} : \E live \in SUBSET row : Replace(row, live)
  \/ Start \/ CreateNext \/ Migrate \/ Stop
---------------------------------------------------------------------------
(* What the current build's statements use: its tables, and the columns a migration brought. *)
Newest ==
  {"channels", "events", "instance_replies", "instances", "memories", "state", "autojoin", "last_read",
   "dm_instance_id", "dm_windows", "dm_last_read", "memories.at", "pending_deletion", "pending_memory_deletions",
   "channel_scrollback", "source_instance_id", "window_kind", "window_key", "model_turns", "model_turn_entries",
   "context_summary_sources", "context_summaries", "pinned", "persona_revisions", "persona_lineages",
   "persona_experiences", "persona_experience_sources", "persona_amendments", "persona_amendment_evidence",
   "persona_description_evidence", "persona_revision_experiences", "persona_revision_amendments",
   "persona_transitions", "reflection_runs", "reflection_events", "last_cited_at", "salience_at", "departed_at",
   "departure"}

(* Whatever build left a file, and wherever earlier attempts to open it ended, it opens
   to the schema a new file gets; a file of a later build is refused as it is (schema,
   applyMigrations). *)
OpensWhole ==
  /\ s.phase = "failed" => s.db.version > SchemaVersion /\ s.db = s.was
  /\ s.phase = "open" => s.db.version = SchemaVersion /\ s.db.objs = Newest

(* Each member is left with the lines of the stay it is in, from its own join on, those
   that another said without a name; one that has left, had rows, or whose join does not
   say who it was is left as it was (backfillSafeChannelScrollback). *)
BackfillsTheStay ==
  s.phase = "open" /\ s.start = 9 =>
    \A m \in Models :
      LET had == {r \in s.was.scroll : r.who = m}
          from == s.since[m]
          stay == IF m \in s.was.row /\ from \in JoinsOf(s.db.log, m) THEN from..Len(s.db.log) ELSE {} IN
      {r \in s.db.scroll : r.who = m} =
        IF had # {} THEN had
        ELSE {[who |-> m, line |-> i, named |-> s.db.log[i].id = m] : i \in {j \in stay : s.db.log[j].kind = "message"}}

(* In an opened file no reply is without its window, no departure without a reason, no
   model without its lineage, and every instant is in the sortable spelling. *)
RowsBroughtForward ==
  s.phase = "open" =>
    /\ \A r \in s.db.replies : r.type = "persona_templates_list" \/ (r.kind \in {1, 2} /\ r.key # "")
    /\ \A a \in s.db.amendments : a.departed => a.why # ""
    /\ \A e \in s.db.experiences : e.cited # 0
    /\ s.db.lineages = s.db.instances \ {"user"} /\ s.db.old = {}
=============================================================================
