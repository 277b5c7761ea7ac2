---------------------------- MODULE UserClient ----------------------------
(* The user's client from the connection screen to the way out
   (src/internal/userclient/userclient.go, src/internal/ui/screens/connection.go):
   the list of channels to join at the next start is rewritten after every command
   that may change it, left alone while it is replayed, and must survive whatever
   ends the program. *)
EXTENDS Naturals, Sequences, FiniteSets, FiniteSetsExt, SequencesExt

CONSTANTS
  Names,     \* channels
  MaxChunk,  \* protocol.MaxJoinTargets
  MaxActs    \* bound: commands and kicks

VARIABLE s  \* the whole state, a record:
  \* key: an API key is configured; steps: the gates left on the connection screen
  \* connected, modelsDone, autojoinDone: what gates wait for
  \* in: the channels of the user's instance; list: autojoin in the store
  \* replay: "idle", "joining", "ending" (restoring is cleared) or "over"; todo: what is
  \*   left of the list read
  \* running: commands between beginCommand and Done; closed: commandsClosed
  \* rev: autojoinRevision; wire: KICKs of the user, on their way to the screen
  \* persists: what ObserveKick returned, not run yet
  \* quit; left: history, the channels when QUIT came; busy: history, bookkeeping or the
  \*   replay was not over then; late: history, channels entered again before their KICK was seen
  \* start: history, the list found; early: history, the user or another was quicker than
  \*   the reading of the list; acts: bound

Init ==
  \E key \in BOOLEAN, list \in SUBSET Names :
    s = [key |-> key,
         steps |-> IF key THEN <<"connect", "none", "none", "models", "autojoin", "none">>
                   ELSE <<"connect", "none", "none">>,
         connected |-> FALSE, modelsDone |-> FALSE, autojoinDone |-> FALSE, in |-> {},
         list |-> list, replay |-> "idle", todo |-> {}, running |-> {}, closed |-> FALSE,
         rev |-> 0, wire |-> <<>>, persists |-> {}, quit |-> FALSE, left |-> {},
         busy |-> FALSE, late |-> {}, start |-> list, early |-> FALSE,
         acts |-> 0]

Restoring(t) == t.replay = "joining"
Open(t) == t.steps = <<>>  \* the chat screen has the keyboard
---------------------------------------------------------------------------
(* The connection screen: everything runs at once, and a step of its animation
   waits for its gate. *)

Satisfied(gate) ==
  CASE gate = "connect" -> s.connected
    [] gate = "models" -> s.modelsDone
    [] gate = "autojoin" -> s.autojoinDone
    [] gate = "none" -> TRUE

AdvanceTick ==
  /\ s.steps # <<>> /\ Satisfied(Head(s.steps))
  /\ s' = [s EXCEPT !.steps = Tail(@)]

Ready == ~s.connected /\ s' = [s EXCEPT !.connected = TRUE]
ModelsLoaded == ~s.modelsDone /\ s' = [s EXCEPT !.modelsDone = TRUE]
---------------------------------------------------------------------------
(* writeAutojoinList: under autojoinMu, of the channels as they are *)
Written(t, list) == [t EXCEPT !.rev = @ + 1, !.list = list]

(* JoinAutojoinChannels *)
BeginReplay ==
  /\ s.replay = "idle" /\ s.connected /\ ~s.closed
  /\ s' = [s EXCEPT !.replay = "joining", !.todo = s.list]

(* A chunk: the server admits some, none when the session has ended. *)
JoinChunk ==
  /\ Restoring(s) /\ s.todo # {}
  /\ \E chunk \in SUBSET s.todo :
       /\ Cardinality(chunk) = Min({MaxChunk, Cardinality(s.todo)})
       /\ \E admitted \in SUBSET (IF s.quit THEN {} ELSE chunk) :
            s' = [s EXCEPT !.todo = @ \ chunk, !.in = @ \cup admitted,
                           !.late = @ \cup (admitted \cap Range(s.wire))]

EndReplay ==
  /\ Restoring(s) /\ s.todo = {}
  /\ s' = [s EXCEPT !.replay = "ending"]

(* The deferred write; after QUIT the program's context may be cancelled. *)
WriteReplayed ==
  /\ s.replay = "ending"
  /\ \E list \in {s.in} \cup (IF s.quit THEN {s.list} ELSE {}) :
       s' = [Written(s, list) EXCEPT !.replay = "over", !.autojoinDone = TRUE]
---------------------------------------------------------------------------
(* Send: admission, the session's Handle, and the bookkeeping. *)

Begin(kind, c) ==
  /\ Open(s) /\ ~s.closed /\ ~s.quit /\ s.acts < MaxActs
  /\ \A r \in s.running : r.c # c
  /\ s' = [s EXCEPT !.acts = @ + 1,
                    !.running = @ \cup {[kind |-> kind, c |-> c, done |-> FALSE]}]

Handle ==
  \E r \in {q \in s.running : ~q.done} :
    LET t == [s EXCEPT !.running = @ \ {r}]
        kept == [t EXCEPT !.running = @ \cup {[r EXCEPT !.done = TRUE]}] IN
    \/ s' = t  \* refused: nothing to keep
    \/ /\ ~s.quit /\ r.kind = "join"
       /\ s' = [kept EXCEPT !.in = @ \cup {r.c},
                            !.late = @ \cup ({r.c} \cap Range(s.wire))]
    \/ /\ ~s.quit /\ r.kind = "part" /\ r.c \in s.in
       /\ s' = [kept EXCEPT !.in = @ \ {r.c}]

SavedAnyway(t) == Written(t, t.in)  \* a mutant: also while the list is replayed

(* saveAutojoinList *)
Saved(t) == IF Restoring(t) THEN t ELSE Written(t, t.in)

Early(t) == t.early \/ t.replay = "idle"

Keep ==
  \E r \in {q \in s.running : q.done} :
    s' = Saved([s EXCEPT !.running = @ \ {r}, !.early = Early(s)])

(* Another operator kicks the user. *)
Kick(c) ==
  /\ c \in s.in /\ s.acts < MaxActs
  /\ s' = [s EXCEPT !.acts = @ + 1, !.in = @ \ {c}, !.wire = Append(@, c),
                    !.late = @ \ {c}]

(* handleKickedEvent, ObserveKick: the list is settled now and written by a command. *)
Observed(t, c) ==
  IF Restoring(t) THEN t
  ELSE [t EXCEPT !.rev = @ + 1,
                 !.persists = @ \cup {[rev |-> t.rev + 1, list |-> t.in \ {c}]}]

Observe ==
  /\ s.wire # <<>>
  /\ s' = Observed([s EXCEPT !.wire = Tail(@), !.early = Early(s)], Head(s.wire))

PersistedAnyway(t, p) == Written(t, p.list)  \* a mutant: newer lists are overwritten
Persisted(t, p) == IF t.rev # p.rev THEN t ELSE Written(t, p.list)
Persist == \E p \in s.persists : s' = Persisted([s EXCEPT !.persists = @ \ {p}], p)
---------------------------------------------------------------------------
(* QUIT ends all memberships and writes no list; Drain admits no more commands and
   waits for those that run. *)
Busy == s.replay # "over" \/ s.running # {} \/ s.wire # <<>>

QuitSaved ==  \* a mutant: QUIT keeps the list like other commands
  /\ ~s.quit
  /\ s' = Saved([s EXCEPT !.quit = TRUE, !.left = s.in, !.in = {}, !.busy = Busy])

Quit ==
  /\ ~s.quit
  /\ s' = [s EXCEPT !.quit = TRUE, !.left = s.in, !.in = {}, !.busy = Busy]

Drain == s.quit /\ ~s.closed /\ s' = [s EXCEPT !.closed = TRUE]

Next ==
  \/ AdvanceTick \/ Ready \/ ModelsLoaded \/ BeginReplay \/ JoinChunk \/ EndReplay
  \/ WriteReplayed \/ Handle \/ Keep \/ Observe \/ Persist \/ Quit \/ Drain
  \/ \E c \in Names : Begin("join", c) \/ Begin("part", c) \/ Kick(c)
---------------------------------------------------------------------------
(* Between commands the list is the channels the user is in. A channel entered again
   before the screen saw the KICK out of it may be missing until the next change. *)
ListAsLeft ==
  s.replay = "over" /\ ~s.quit /\ s.running = {} /\ s.persists = {} /\ s.wire = <<>> =>
    s.list \subseteq s.in /\ s.in \ s.list \subseteq s.late

(* A program that dies while it replays the list comes back to all of it: what is
   not joined yet is never written out of it. Nothing makes the chat screen wait for the
   list to be read, and a command kept before that (`early`) has rewritten it. *)
TailKept == (s.replay = "idle" \/ Restoring(s)) /\ ~s.early => s.list = s.start

(* QUIT takes nothing off the list: the channels left with it come back, unless a
   command's bookkeeping or the replay was still under way. *)
QuitKeepsList ==
  s.quit /\ ~s.busy /\ s.persists = {} =>
    s.list \subseteq s.left /\ s.left \ s.list \subseteq s.late

=============================================================================
