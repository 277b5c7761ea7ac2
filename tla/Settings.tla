------------------------------ MODULE Settings ------------------------------
(* The /config settings: the file they are kept in (config/file.go), the commands that
   change them (ui/chatcmd/config.go), what runs by them: the model manager and its
   catalogue (modelmanager/manager.go, catalogue.go), the holder of the default
   channel modes (main.go), and what the screen keeps of them (chat_config.go,
   chat_catalogue.go). Every command runs on a goroutine of its own, and the file can
   be edited by hand.

   Values are small numbers: 0 is the default, or nothing for a key and a model of
   reflection. A duration below Floor a command refuses, and a hand can write; among
   models, Unknown is one the catalogue does not list with what is asked of it. *)
EXTENDS Naturals, Sequences, FiniteSets, TLC

CONSTANTS NoClient, MaxActs

VARIABLE s
(* s.file    the stored settings, s.torn  the file does not parse
   s.saved   each setting as it was last saved, s.run  as it runs, s.shown  as the
             screen has it
   s.client  the provider client: its key and URL, or NoClient
   s.cat     the catalogue: ready, the client it is of, the state of the list,
             the client whose list is being fetched, late: a fetch outlived its client
   s.cmds    the commands under way
   s.unsure  settings whose commands overlapped, or failed between two steps
   s.told    what the user was told of the small model: "deferred", "warned" or "no"
   s.cut     a command on a key or a model was cut off by the end of the program, could
             not save, or met another one
   s.acts    commands and edits, bounded by MaxActs *)

Durations == {"interval", "drain"}
Settings == {"key", "url", "small", "mode", "rmodel", "modes", "words", "stamp",
             "interval", "drain", "embed"}
Defaults == [x \in Settings |-> IF x \in Durations THEN 2 ELSE 0]
Floor == 2
Unknown == 1
Unreadable == 2
Range0 == [x \in Settings |-> CASE x \in {"mode", "modes"} -> 0 .. 2 [] x \in Durations -> 0 .. 3 [] OTHER -> 0 .. 1]

(* The steps of each command after its value was parsed: the manager is told before the
   file is written, or after, and models are looked up in the catalogue first. *)
APIKeyUnchecked(reset) ==  \* a mutant: the stored small model is not looked at
  IF reset THEN <<"set", "update", "result">> ELSE <<"load", "set", "update", "result">>
APIKeyConfig(reset) ==
  IF reset THEN <<"set", "update", "result">> ELSE <<"load", "set", "update", "ensure", "result">>
BaseURLOnlySaved(reset) == <<"update">>  \* a mutant: for the next start
BaseURLConfig(reset) == <<"set", "update">>
SmallModelConfig(reset) ==
  IF reset THEN <<"set", "update">> ELSE <<"deferred", "ensure", "set", "update">>
ReflectionModeConfig(reset) == <<"update", "set">>
ReflectionModelConfig(reset) ==
  IF reset THEN <<"update", "set">> ELSE <<"ensure", "update", "set">>
DefaultModesConfig(reset) == <<"update", "listener">>
HighlightConfig(reset) == <<"update", "result">>
PokeIntervalConfig(reset) == <<"update">>
DrainTimeoutConfig(reset) == <<"update">>  \* for the next start
TimestampFormatConfig(reset) == <<"update", "result">>
EmbeddingModelConfig(reset) == <<"update", "listener">>

Plan(x, reset) ==
  CASE x = "key" -> APIKeyConfig(reset) [] x = "url" -> BaseURLConfig(reset)
    [] x = "small" -> SmallModelConfig(reset) [] x = "mode" -> ReflectionModeConfig(reset)
    [] x = "rmodel" -> ReflectionModelConfig(reset) [] x = "modes" -> DefaultModesConfig(reset)
    [] x = "words" -> HighlightConfig(reset) [] x = "stamp" -> TimestampFormatConfig(reset)
    [] x = "interval" -> PokeIntervalConfig(reset) [] x = "drain" -> DrainTimeoutConfig(reset)
    [] x = "embed" -> EmbeddingModelConfig(reset)

(* What the parsers let through: a mode by its name, modes that parse, a duration that
   is no shorter than the floor. *)
Accepted(x, v) == CASE x \in {"mode", "modes"} -> v # Unreadable [] x \in Durations -> v >= Floor [] OTHER -> TRUE
Checked == {"key", "small"}
Related(x) == IF x \in {"key", "url"} THEN {"key", "url"} ELSE {x}

(* What a start makes of the stored settings. *)
NewAPIClient(file) == IF file["key"] = 0 THEN NoClient ELSE <<file["key"], file["url"]>>
ReflectionModeRaw(file) == file["mode"]  \* a mutant: as it was written
ReflectionMode(file) == IF file["mode"] = Unreadable THEN 0 ELSE file["mode"]
HeldModes(v) == IF v = Unreadable THEN 0 ELSE v
DrainTimeout(file) == IF file["drain"] > 0 THEN file["drain"] ELSE Defaults["drain"]
PokeSchedule(file, torn) ==
  IF torn \/ file["key"] = 0 \/ file["interval"] <= 0 THEN {} ELSE {file["interval"]}

Running(file) ==
  [file EXCEPT !["mode"] = ReflectionMode(file), !["modes"] = HeldModes(file["modes"]),
               !["drain"] = DrainTimeout(file)]

NoList == [ready |-> FALSE, of |-> NoClient, state |-> "none", load |-> NoClient, late |-> FALSE]

(* A file that does not parse is moved aside and the defaults stand in for it. *)
LoadConfig(file, torn) == IF torn THEN Defaults ELSE file

Started(file, torn) ==
  LET cfg == LoadConfig(file, torn)
  IN  [file |-> cfg, torn |-> FALSE, saved |-> cfg, run |-> Running(cfg), shown |-> cfg,
       client |-> NewAPIClient(cfg), cat |-> NoList, cmds |-> {}, unsure |-> {}]

Init ==
  \E key \in 0 .. 1, torn \in BOOLEAN :
    s = [told |-> "no", cut |-> FALSE, acts |-> 0] @@ Started([Defaults EXCEPT !["key"] = key], torn)

Restart ==
  s' = [told |-> s.told, cut |-> s.cut \/ s.cmds # {}, acts |-> s.acts] @@ Started(s.file, s.torn)

(* Somebody writes the file while the program runs. *)
EditByHand ==
  /\ s.acts < MaxActs
  /\ \/ s' = [s EXCEPT !.torn = TRUE, !.cut = TRUE, !.acts = @ + 1, !.unsure = Settings]
     \/ \E x \in {"mode", "modes", "interval", "drain"} : \E v \in Range0[x] :
          s' = [s EXCEPT !.file[x] = v, !.saved[x] = v, !.acts = @ + 1, !.unsure = @ \cup {x}]

(* A command is given: "/config <setting> <value>", or with --reset. *)
Run(x, v, reset) ==
  LET c == [id |-> s.acts, x |-> x, v |-> v, reset |-> reset, plan |-> Plan(x, reset),
            url |-> 0, prev |-> 0, skipped |-> FALSE, list |-> NoClient]
      meets == {d.x : d \in s.cmds} \cap Related(x)
  IN  /\ s.acts < MaxActs /\ Accepted(x, v)
      /\ reset => v = Defaults[x]
      /\ s' = [s EXCEPT !.acts = @ + 1, !.cmds = @ \cup {c},
                        !.cut = @ \/ meets # {} \/ (x \in Checked /\ \E d \in s.cmds : d.x \in Checked),
                        !.unsure = @ \cup IF meets = {} THEN {} ELSE Related(x)]

Going(c, steps) == (s.cmds \ {c}) \cup {[c EXCEPT !.plan = SubSeq(@, steps + 1, Len(@))]}
At(c, step) == c.plan # <<>> /\ Head(c.plan) = step
Ended(c) == s.cmds \ {c}

Load(c) ==
  /\ At(c, "load")
  /\ s' = [s EXCEPT !.cmds = IF s.torn THEN Ended(c)
                             ELSE (s.cmds \ {c}) \cup {[c EXCEPT !.url = s.file["url"], !.plan = Tail(@)]}]

(* No change is lost: the file is read, changed and written under one lock. A file that
   cannot be read counts as empty. *)
BaseHeld(c) == s.shown  \* a mutant: the copy in memory is changed and saved
Base(c) == IF s.torn THEN [x \in Settings |-> 0] ELSE s.file
Update(c) ==
  /\ At(c, "update")
  /\ \/ LET base == Base(c)
        IN  s' = [s EXCEPT !.file = [base EXCEPT ![c.x] = c.v], !.saved[c.x] = c.v, !.torn = FALSE,
                           !.told = IF c.x # "small" THEN @ ELSE IF c.skipped THEN "deferred" ELSE "no",
                           !.cmds = (s.cmds \ {c}) \cup {[c EXCEPT !.plan = Tail(@), !.prev = base[c.x]]}]
     \/ s' = [s EXCEPT !.cmds = Ended(c), !.unsure = @ \cup Related(c.x), !.cut = @ \/ c.x \in Checked]

(* The listeners run when the lock is let go, each with what its own update wrote. *)
Listener(c) ==
  /\ At(c, "listener")
  /\ s' = [s EXCEPT !.cmds = Going(c, 1), !.run[c.x] = IF c.prev = c.v THEN @ ELSE IF c.x = "modes" THEN HeldModes(c.v) ELSE c.v]

(* A new client makes the catalogue of the old one void. *)
StillValid(client) == s.cat  \* a mutant: the catalogue outlives its provider
Invalidated(client) ==
  [s.cat EXCEPT !.ready = FALSE, !.of = NoClient, !.state = "none",
                !.late = @ \/ s.cat.load # NoClient
                           \/ \E d \in s.cmds : d.plan # <<>> /\ Head(d.plan) = "fetching"]

SetAPIKey(c) ==
  LET client == IF c.v = 0 THEN NoClient ELSE <<c.v, c.url>>
  IN  [s EXCEPT !.client = client, !.run["key"] = c.v, !.cat = Invalidated(client)]
SetBaseURL(c) ==
  IF s.run["key"] = 0 THEN s
  ELSE [s EXCEPT !.client = <<s.run["key"], c.v>>, !.cat = Invalidated(<<s.run["key"], c.v>>)]
SetValue(c) == [s EXCEPT !.run[c.x] = c.v]

Set(c) ==
  /\ At(c, "set")
  /\ s' = [(CASE c.x = "key" -> SetAPIKey(c) [] c.x = "url" -> SetBaseURL(c) [] OTHER -> SetValue(c))
           EXCEPT !.cmds = Going(c, 1)]

(* With no key a small model is stored unchecked, and the user is told so. *)
Deferred(c) ==
  /\ At(c, "deferred")
  /\ s' = [s EXCEPT !.cmds =
       IF s.run["key"] # 0 THEN Going(c, 1)
       ELSE Ended(c) \cup {[c EXCEPT !.plan = SubSeq(@, 3, Len(@)), !.skipped = TRUE]}]

(* What the check of a model comes to: a bad one ends the command, except that a new
   key stays and the user is warned of the stored small model. *)
Refused(c) ==
  IF c.x = "key" THEN [s EXCEPT !.told = "warned", !.cmds = Going(c, 1)] ELSE [s EXCEPT !.cmds = Ended(c)]
Subject(c) == IF c.x = "key" THEN s.file["small"] ELSE c.v
Next0(c, step) == (s.cmds \ {c}) \cup {[c EXCEPT !.plan = <<step>> \o Tail(@), !.list = s.client]}

EnsureByEach(c) ==  \* a mutant: nobody waits for another's fetch
  /\ At(c, "ensure")
  /\ \/ s.client = NoClient /\ s' = [s EXCEPT !.cmds = Going(c, 1)]
     \/ /\ s.client # NoClient /\ s.cat.state # "failed"
        /\ s' = IF s.cat.ready THEN [s EXCEPT !.cmds = Next0(c, "lookup")]
                ELSE [s EXCEPT !.cmds = Next0(c, "loading"), !.cat.load = s.client]

(* One fetch at a time: whoever finds one under way waits for it, and soon after a
   failure nobody tries. *)
EnsureCatalogueLoaded(c) ==
  /\ At(c, "ensure")
  /\ \/ s.client = NoClient /\ s' = [s EXCEPT !.cmds = Going(c, 1)]
     \/ s.client # NoClient /\ s.cat.state = "failed" /\ s' = Refused(c)  \* within the back-off
     \/ /\ s.client # NoClient
        /\ s' = IF s.cat.ready THEN [s EXCEPT !.cmds = Next0(c, "lookup")]
                ELSE IF s.cat.load # NoClient THEN [s EXCEPT !.cmds = Next0(c, "await")]
                ELSE [s EXCEPT !.cmds = Next0(c, "loading"), !.cat.load = s.client]

Cached(client) == [s.cat EXCEPT !.ready = TRUE, !.of = client, !.state = "ok"]
Failed == [s.cat EXCEPT !.state = "failed"]

FetchEnds(c) ==
  /\ At(c, "loading")
  /\ \/ s' = [s EXCEPT !.cat = [Cached(c.list) EXCEPT !.load = NoClient], !.cmds = Next0(c, "lookup")]
     \/ s' = [Refused(c) EXCEPT !.cat = [Failed EXCEPT !.load = NoClient]]

AwaitCatalogueLoad(c) ==
  /\ At(c, "await") /\ s.cat.load = NoClient
  /\ s' = IF s.cat.ready THEN [s EXCEPT !.cmds = Next0(c, "lookup")] ELSE Refused(c)

Lookup(c) ==
  /\ At(c, "lookup")
  /\ s' = IF s.cat.ready /\ Subject(c) # Unknown THEN [s EXCEPT !.cmds = Going(c, 1)] ELSE Refused(c)

(* The screen hears the result: it has a key or not, and asks for the models anew. *)
HandleAPIKeySet(c) ==
  [s EXCEPT !.shown["key"] = c.v,
            !.cmds = IF s.run["key"] = 0 THEN Ended(c) ELSE Ended(c) \cup {[c EXCEPT !.plan = <<"models">>]}]
HandleSet(c) == [s EXCEPT !.shown[c.x] = c.v, !.cmds = Ended(c)]
Result(c) ==
  /\ At(c, "result")
  /\ s' = IF c.x = "key" THEN HandleAPIKeySet(c) ELSE HandleSet(c)

LiveModels(c) ==
  /\ At(c, "models")
  /\ s' = IF s.client = NoClient THEN [s EXCEPT !.cmds = Ended(c)] ELSE [s EXCEPT !.cmds = Next0(c, "fetching")]
ListModels(c) ==
  \/ At(c, "fetching") /\ s' = [s EXCEPT !.cat = Cached(c.list), !.cmds = Ended(c)]
  \/ At(c, "fetching") /\ s' = [s EXCEPT !.cat = Failed, !.cmds = Ended(c)]

Done(c) == c.plan = <<>> /\ s' = [s EXCEPT !.cmds = Ended(c)]

Step(c) ==
  \/ Load(c) \/ Update(c) \/ Listener(c) \/ Set(c) \/ Deferred(c) \/ Result(c) \/ Done(c)
  \/ EnsureCatalogueLoaded(c) \/ FetchEnds(c) \/ AwaitCatalogueLoad(c) \/ Lookup(c)
  \/ LiveModels(c) \/ ListModels(c)

Next ==
  \/ \E x \in Settings, reset \in BOOLEAN : \E v \in Range0[x] : Run(x, v, reset)
  \/ \E c \in s.cmds : Step(c)
  \/ EditByHand
  \/ Restart
---------------------------------------------------------------------------
(* No change is lost to another, however they overlap: the file holds every setting as
   it was saved last, unless it was damaged by hand (Store.Update's account). *)
NoUpdateLost == \A x \in Settings \ (IF s.unsure = Settings THEN Settings ELSE {}) : s.file[x] = s.saved[x]

(* When nothing is under way, the program runs by what is stored, without a restart, and
   the screen knows it: unless two commands on one setting overlapped, or one of them
   could not save. *)
RunsAsStored ==
  s.cmds = {} =>
    /\ s.unsure \cap {"key", "url"} = {} => /\ s.client = NewAPIClient(s.file)
                                            /\ (s.run["key"] = 0) = (s.client = NoClient)
    /\ \A x \in {"small", "mode", "rmodel", "modes", "embed"} \ s.unsure : s.run[x] = Running(s.file)[x]
    /\ \A x \in {"key", "words", "stamp"} \ s.unsure : s.shown[x] = s.file[x]

(* A small model nothing vouches for stands only where the user was told: it was stored
   without a key, or found wanting when the key came; unless the command was cut
   off, or met another that changes what it reads (APIKeyConfig.Run, SmallModelConfig.Run). *)
CheckedOrTold ==
  s.cmds = {} /\ ~s.cut /\ s.file["small"] = Unknown =>
    s.told = "warned" \/ (s.told = "deferred" /\ s.run["key"] = 0)

(* One fetch of the catalogue serves all who wait for it, and nobody waits for none. A
   catalogue that is ready is of the present provider, except where a fetch was under way when
   the provider changed: that one fills the cache with the old provider's models, against
   SetBaseURL's comment (manager.go:456), and nothing is claimed after it. *)
OneFetch ==
  LET loading == {c \in s.cmds : At(c, "loading")}
  IN  /\ Cardinality(loading) <= 1 /\ (s.cat.load # NoClient) = (loading # {})
      /\ s.cat.ready /\ s.cat.of # s.client => s.cat.late

(* What is run by is usable, whatever was written by hand: a mode there is, a drain that
   lasts, a poke that comes around or none (main.go). *)
Usable ==
  /\ s.run["mode"] # Unreadable /\ s.run["modes"] # Unreadable
  /\ s.run["drain"] > 0 /\ 0 \notin PokeSchedule(s.file, s.torn)
=============================================================================
