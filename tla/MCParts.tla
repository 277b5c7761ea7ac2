------------------------------ MODULE MCParts ------------------------------
(* The smaller modules on their small instances, one of them at a time: which one
   moves is chosen at the start. Lifecycle and Pace, of which there are proofs, are
   extended, with their properties; all others keep their state in s, as Pace does. *)
EXTENDS Lifecycle, Pace, Sequences, TLC

CONSTANT None

Summary == INSTANCE Summary WITH
  Ring <- 2, Retention <- 4, PromptLimit <- 3, SummaryLimit <- 3, MaxRounds <- 2, Long <- {2},
  SummarySizes <- {1, 2}, MaxTime <- 5, MaxReplies <- 1, MaxStays <- 1
Journal == INSTANCE JournalQueue WITH Depth <- 2, Retained <- 1, MaxTurns <- 2, MaxEntries <- 3

(* Commands as the program has them: flags of every kind, both passthroughs, a group. *)
P(mode, optional) == [mode |-> mode, optional |-> optional]
N(parent, pos, flags, kids) == [parent |-> parent, pos |-> pos, flags |-> flags, kids |-> kids]
Tree ==
  ("msg" :> N(None, <<P("plain", FALSE), P("all", FALSE)>>, <<>>, <<>>)) @@
  ("persona" :> N(None, <<P("plain", TRUE), P("partial", TRUE)>>, [reset |-> "bool", rollback |-> "one"], <<>>)) @@
  ("add-model" :> N(None, <<P("plain", TRUE)>>, [persona |-> "many"], <<>>)) @@
  ("config" :> N(None, <<>>, [reset |-> "bool"], [highlight |-> "highlight", url |-> "base-url"])) @@
  ("highlight" :> N("config", <<P("all", TRUE)>>, <<>>, <<>>)) @@
  ("base-url" :> N("config", <<P("plain", TRUE)>>, <<>>, <<>>))
W(kind, flag, attached) == [kind |-> kind, flag |-> flag, attached |-> attached]
Tokens ==
  ("word" :> W("value", None, FALSE)) @@ ("highlight" :> W("value", None, FALSE)) @@
  ("url" :> W("value", None, FALSE)) @@ ("-" :> W("dash", None, FALSE)) @@
  ("--" :> W("end", None, FALSE)) @@ ("-x" :> W("short", None, FALSE)) @@
  ("--reset" :> W("long", "reset", FALSE)) @@ ("--persona" :> W("long", "persona", FALSE)) @@
  ("--rollback" :> W("long", "rollback", FALSE)) @@ ("--rollback=1" :> W("long", "rollback", TRUE))
Command == INSTANCE CommandLine WITH
  Grammar <- Tree, Roots <- {"msg", "persona", "add-model", "config"}, Words <- Tokens,
  NoNode <- None, MaxLine <- 4
Schema == INSTANCE ToolSchema
Focus == INSTANCE WindowFocus WITH
  NoWindow <- None, Chans <- {"c", "d"}, Autojoin <- {{}, {"c", "d"}}, MaxTime <- 4
Lines == INSTANCE WindowLines WITH
  NoWindow <- None, MaxLines <- 2, MaxOpens <- 2, MaxVisits <- 1
User == INSTANCE UserClient WITH Names <- {"c", "d"}, MaxChunk <- 1, MaxActs <- 3
ModeText == INSTANCE ModeText WITH MaxChanges <- 3, MaxSigns <- 4, Nothing <- None
Members == INSTANCE MemberView WITH
  Models <- {"m"}, Chans <- {"c", "d"}, Nicks <- {"1", "2", "3"}, MaxActs <- 2
Rich == INSTANCE RichText WITH MaxRaw <- 5, MaxEdits <- 1
Line == INSTANCE Composer WITH HistorySize <- 2, KillRingCap <- 2, Rows <- 2, MaxKeys <- 3
Pane == INSTANCE MessagePane WITH
  InitialCap <- 1, Limit <- 3, Stride <- 100, Height <- 2, Joins <- {2}, NewDay <- 3, MaxActs <- 3
List == INSTANCE Sidebar WITH Status <- 1, Others <- {2, 3, 4}, Rows <- 2, MaxActs <- 4
Layout == INSTANCE Layout WITH
  MinWidth <- 80, MinMain <- 40, MinDrawer <- 8, Widths <- {60, 79, 80, 200}, Heights <- {1, 8, 24},
  Contents <- {3, 30}, MaxActs <- 4
Kept == INSTANCE Retention WITH Headroom <- 2, TurnBytes <- 3, Batch <- 1, MaxActs <- 2
Memory == INSTANCE MemoryIndex WITH
  Keys <- {1, 2}, Contents <- {1, 2}, Models <- {1, 2}, Experiences <- {1, 2}, MaxActs <- 2
Old == INSTANCE Migrations WITH MaxLines <- 4
Config == INSTANCE Settings WITH NoClient <- None, MaxActs <- 2

PartsInit ==
  /\ Init
  /\ \/ part = "life" /\ s = None
     \/ PaceInit
     \/ part = "summary" /\ Summary!Init
     \/ part = "journal" /\ Journal!Init
     \/ part = "command" /\ Command!Init
     \/ part = "schema" /\ Schema!Init
     \/ part = "focus" /\ Focus!Init
     \/ part = "lines" /\ Lines!Init
     \/ part = "user" /\ User!Init
     \/ part = "modetext" /\ ModeText!Init
     \/ part = "members" /\ Members!Init
     \/ part = "rich" /\ Rich!Init
     \/ part = "line" /\ Line!Init
     \/ part = "retention" /\ Kept!Init
     \/ part = "layout" /\ Layout!Init
     \/ part = "pane" /\ Pane!Init
     \/ part = "list" /\ List!Init
     \/ part = "memory" /\ Memory!Init
     \/ part = "old" /\ Old!Init
     \/ part = "config" /\ Config!Init

PartsNext ==
  \/ part = "life" /\ Next /\ UNCHANGED <<part, s>>
  \/ PaceNext /\ UNCHANGED vars
  \/ part = "summary" /\ Summary!Next /\ UNCHANGED <<part, vars>>
  \/ part = "journal" /\ Journal!Next /\ UNCHANGED <<part, vars>>
  \/ part = "command" /\ Command!Next /\ UNCHANGED <<part, vars>>
  \/ part = "schema" /\ Schema!Next /\ UNCHANGED <<part, vars>>
  \/ part = "focus" /\ Focus!Next /\ UNCHANGED <<part, vars>>
  \/ part = "lines" /\ Lines!Next /\ UNCHANGED <<part, vars>>
  \/ part = "user" /\ User!Next /\ UNCHANGED <<part, vars>>
  \/ part = "modetext" /\ ModeText!Next /\ UNCHANGED <<part, vars>>
  \/ part = "members" /\ Members!Next /\ UNCHANGED <<part, vars>>
  \/ part = "rich" /\ Rich!Next /\ UNCHANGED <<part, vars>>
  \/ part = "line" /\ Line!Next /\ UNCHANGED <<part, vars>>
  \/ part = "retention" /\ Kept!Next /\ UNCHANGED <<part, vars>>
  \/ part = "layout" /\ Layout!Next /\ UNCHANGED <<part, vars>>
  \/ part = "pane" /\ Pane!Next /\ UNCHANGED <<part, vars>>
  \/ part = "list" /\ List!Next /\ UNCHANGED <<part, vars>>
  \/ part = "memory" /\ Memory!Next /\ UNCHANGED <<part, vars>>
  \/ part = "old" /\ Old!Next /\ UNCHANGED <<part, vars>>
  \/ part = "config" /\ Config!Next /\ UNCHANGED <<part, vars>>

PartsSpec == PartsInit /\ [][PartsNext]_<<part, s, vars>>

\* The two parts in which the code does not do what its comments say, alone.
SummarySpec == PartsSpec /\ part = "summary"
LineSpec == PartsSpec /\ part = "command"

\* The run also checks QuietAtClose and CleanUpKept of Lifecycle, and Pace's KeepsPace.
---------------------------------------------------------------------------
(* What a model is told of a conversation: a request shows every line of its
   transcript, unless the summary recounts it or it was dropped for want of one, and no
   summary is of another membership; while no compaction failed and the model has not
   replied, no line is summarised twice (context_compaction.go). What the operator is told of
   its turns: the journal is in order, and an entry is missing only where the count of
   drops or the log says so (turn_journal_queue.go). What the tables keep of all
   this when the store is opened: the newest rows, whatever is referred to, and nothing of
   what is gone (retention.go); a search of an instance's memories answers with what it
   remembers, whatever became of the index before (vector.go); and a store of any age is brought to
   the present form whole or left alone (migrations.go). *)
ContextKept ==
  /\ part = "summary" => /\ Summary!Recollects /\ Summary!NothingTwice
                         /\ Summary!OfThisStay /\ Summary!RoundsBounded
  /\ part = "journal" => /\ Journal!JournalInOrder /\ Journal!HolesTold
                         /\ Journal!ClosedByLossOnly
  /\ part = "retention" => /\ Kept!ReferencesHold /\ Kept!ReadsKept
                           /\ Kept!NothingLeft /\ Kept!FreshContext
  /\ part = "memory" => /\ Memory!SearchesHeal /\ Memory!OneModel
                        /\ Memory!RecallsTheKept /\ Memory!OpenedClean
  /\ part = "old" => Old!OpensWhole /\ Old!BackfillsTheStay /\ Old!RowsBroughtForward

(* A command is read as it was written: no token of a line is lost; both passes of the
   parser take an argument for the same thing, but for the two lines of Misread, which are
   refused; completion is for the argument the parser reads next, but where a word
   was left unread or a flag takes many (command.go, parse.go, completion.go). A tool's
   schemas admit what its command could be given and nothing it could not run with (set.go),
   and modes are read back as they are written (mode.go); the line is edited, recalled,
   completed and sent as its keys say (richtext, ircfmt, input.go, popover.go). A setting
   is stored as its command said, and run by unless two commands on it overlapped, one could
   not save, or a catalogue was being fetched when its provider changed (config.go,
   catalogue.go, main.go). *)
CommandsRead ==
  /\ part = "command" => /\ Command!TokensKept /\ Command!PassesAgree
                         /\ Command!CompletionAgrees
  /\ part = "schema" => /\ Schema!ProviderAdmitsAll /\ Schema!ValidIsComplete
                        /\ Schema!EveryChoice /\ Schema!StrictSaysTheSame
  /\ part = "modetext" => /\ ModeText!ReadIsAccepted /\ ModeText!TextMeansIt
                          /\ ModeText!SchemaIsRead /\ ModeText!LineReadsBack
  /\ part = "rich" => Rich!EditedAsText /\ Rich!MovesByWords /\ Rich!ReadBack
  /\ part = "line" => /\ Line!HistoryIsSent /\ Line!DraftKept /\ Line!CompletedInPlace
                      /\ Line!KillIsKept /\ Line!ChoiceInView
  /\ part = "config" => /\ Config!NoUpdateLost /\ Config!RunsAsStored
                        /\ Config!CheckedOrTold /\ Config!OneFetch /\ Config!Usable

(* The screen shows the window the user chose last, unless a channel was entered since or
   an earlier pick's command took its time later; every line once and in order, and counts
   and replies where they belong (chat_focus.go, chat_dm.go, chat_events.go);
   and who is in a channel, where it is not anonymous (fanout.go); what it keeps
   between draws is what drawing anew would give (message_list.go, sorted_sidebar.go),
   where each part was told it is (main_layout.go); and the next start brings back what was
   left, while no command came before the list of channels was read (userclient.go). *)
ScreenFollows ==
  /\ part = "focus" => /\ Focus!LastChoiceShown /\ Focus!LandsWhereLeft
                       /\ Focus!SavedAsLeft /\ Focus!ShownIsOpen
  /\ part = "lines" => /\ Lines!LinesKept /\ Lines!PacedMoves
                       /\ Lines!BadgeAfterVisit /\ Lines!RepliesHome
  /\ part = "user" => User!ListAsLeft /\ User!TailKept /\ User!QuitKeepsList
  /\ part = "pane" => Pane!DrawnAfresh /\ Pane!KeepsTheLast /\ Pane!NothingFolded
  /\ part = "list" => List!PositionsTrue /\ List!ListFollows
  /\ part = "layout" => Layout!DrawnWhereTold /\ Layout!Tiled
  /\ part = "members" => Members!ListAgrees /\ Members!NobodyNamed /\ Members!EachHasALine

(* "the next compaction would summarise and commit them a second time" is what
   summarizedPrefix is there to prevent (context_summary.go:60-64); a failed compaction or a
   reply of the model's brings it about. *)
NeverSummarisedTwice == part = "summary" => Summary!NeverTwice

(* "PassthroughModePartial validates flags until the passthrough positional receives its
   first value" (parse.go:83-85); with "--" it does not. *)
FlagsUntilFirstValue == part = "command" => Command!FlagsUntilFirstValue
=============================================================================
