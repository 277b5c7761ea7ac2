------------------------------ MODULE Dispatch ------------------------------
(* The dispatch loop of one model client (src/internal/modelclient): it reads
   the deliveries of its subscription in bursts, files them into a history per
   window, gathers what calls for an answer into one batch per window, and runs
   one turn with the provider per batch. A turn lost to a transient failure is
   run once more after a delay, which a scheduler goroutine waits out while the
   loop goes on reading; newer traffic of the window takes the place of the
   failed batch and inherits its delay.

   The server's side is what the loop can see of it: the client's memberships,
   with a number for each, its invitations and its connection. They change while
   deliveries about them wait to be read, and the model changes them itself, by
   the tools of a turn, which run on the loop's goroutine.

   A delivery is its place in the order in which the server queued it, which is
   the order in which the loop reads (SendQueue!InOrder), so the log and a
   counter stand for the queue. Windows are channels. Direct conversations, the
   trimming of histories and POKEs are left out. *)
EXTENDS Naturals, Sequences, SequencesExt

CONSTANTS
  Windows,  \* the channels
  None,     \* no turn, no batch
  MaxLog,   \* bound: deliveries
  Burst     \* modelHistorySize: deliveries of one burst

ASSUME DispatchAssumption ==
  /\ None \notin Windows
  /\ MaxLog \in Nat /\ Burst \in Nat \ {0}

VARIABLES
  member,     \* the channels the client is on
  invited,    \* the channels it is invited to
  stint,      \* how often the client has entered each channel
  gone,       \* the server has deactivated the connection
  interrupts, \* cancellations on their way, each the set of windows it is for
  log,        \* every delivery queued, in order
  read,       \* how many of them the loop has read
  hist,       \* the rolling transcript of each window
  pending,    \* the re-dispatch each window waits for (redispatchSet)
  timers,     \* the batches whose schedulers wait or offer them
  todo,       \* the batches of this burst not yet run
  turn,       \* the turn in progress
  loop,       \* "up" or "exited"
  released,   \* Release has run
  settled,    \* history: deliveries answered, or whose failure was reported
  sends,      \* history: requests made with a delivery not yet settled
  acted       \* history: triggers of finished turns that ran a tool

server == <<member, invited, stint, gone, interrupts, log>>
client == <<read, hist, pending, timers, todo, loop>>
history == <<settled, sends, acted>>
vars == <<server, client, turn, released, history>>

Ids == 1..MaxLog
---------------------------------------------------------------------------
(* Deliveries: "msg" calls for a turn, "topic" is any activity that does not,
   "part" and "join" are the client's own PART (or KICK) and JOIN. *)

Is(n, kind) == log[n].kind = kind
Trigger(n) == log[n].kind \in {"msg", "invite"}

InvitationBatch(b) == b.triggers # {} /\ \A n \in b.triggers : Is(n, "invite")
Covers(b) == b.history \cup b.events

(* The deliveries of one window in a burst. fileBatch empties a batch at the
   window's closing and drops its earlier history at its opening; the closing
   itself is not filed. *)
Of(D, w) == {n \in D : log[n].win = w}
AcrossTheClosing(D) == D

SinceClosing(D) == {n \in D : \A m \in D : Is(m, "part") => n > m}
Reopened(D) == \E n \in D : Is(n, "part") \/ Is(n, "join")
Closes(D) == \E m \in D : Is(m, "part") /\ \A n \in D : Is(n, "join") => n < m

File(D, transcript) ==
  IF Reopened(D)
  THEN {n \in SinceClosing(D) : \A m \in D : Is(m, "join") => n >= m}
  ELSE transcript \cup D

BatchOf(D, w) ==
  [win |-> w,
   history |-> IF Reopened(D) THEN {} ELSE hist[w],
   events |-> SinceClosing(D),
   triggers |-> {n \in SinceClosing(D) : Trigger(n)},
   retried |-> FALSE]

\* Batches are opened in the order of their first triggers (openBatches).
OpensBefore(D, E) ==
  \E m \in D : Trigger(m) /\ \A n \in E : Trigger(n) => m < n

Supersede(D, p) == IF \E n \in D : Is(n, "part") THEN None ELSE p
MergeAfresh(p, b) == [p EXCEPT !.batch = b]
MergeRenewed(p, b) == [token |-> b, batch |-> b]
MergeDropped(p, b) == p
Merge(p, b) == [p EXCEPT !.batch = [b EXCEPT !.retried = p.batch.retried \/ b.retried]]

Calls(D, w) ==
  /\ \E n \in Of(D, w) : Trigger(n)
  /\ Closes(Of(D, w)) => InvitationBatch(BatchOf(Of(D, w), w))

LoopFree == loop = "up" /\ turn = None /\ todo = <<>>

\* batchesForDeliveries: the first delivery and what drain finds queued.
ReadBurst(k) ==
  LET D == read + 1 .. read + k
      B(w) == BatchOf(Of(D, w), w)
      waiting == [w \in Windows |-> Supersede(Of(D, w), pending[w])]
      kept == {w \in Windows : Calls(D, w)}
      run == {w \in kept : waiting[w] = None /\ B(w).triggers # {}}
  IN
  /\ LoopFree /\ k <= Burst /\ read + k <= Len(log)
  /\ read' = read + k
  /\ hist' = [w \in Windows |-> File(Of(D, w), hist[w])]
  /\ pending' = [w \in Windows |->
       IF w \in kept /\ waiting[w] # None THEN Merge(waiting[w], B(w)) ELSE waiting[w]]
  /\ \E m \in 0..k : \E order \in [1..m -> run] :
       /\ run = {order[i] : i \in 1..m}
       /\ \A i, j \in 1..m : i < j => OpensBefore(Of(D, order[i]), Of(D, order[j]))
       /\ todo' = [i \in 1..m |-> B(order[i])]
  /\ UNCHANGED <<server, timers, turn, loop, released, history>>

(* The loop takes a batch a scheduler offers. The window runs the batch it waits
   for, if this is the token it waits under. *)
ClaimsAny(b) == pending[b.win] # None

Claims(b) == pending[b.win] # None /\ pending[b.win].token = b

Claim(b) ==
  /\ LoopFree /\ b \in timers
  /\ timers' = timers \ {b}
  /\ IF Claims(b)
     THEN /\ todo' = <<pending[b.win].batch>>
          /\ pending' = [pending EXCEPT ![b.win] = None]
     ELSE UNCHANGED <<todo, pending>>
  /\ UNCHANGED <<server, read, hist, turn, loop, released, history>>

\* The scheduler gives up once the loop's context is cancelled.
AbandonRetry(b) ==
  /\ b \in timers /\ released
  /\ timers' = timers \ {b}
  /\ UNCHANGED <<server, read, hist, pending, todo, turn, loop, released, history>>

Exit ==
  /\ loop = "up" /\ turn = None /\ released
  /\ loop' = "exited" /\ todo' = <<>>
  /\ UNCHANGED <<server, read, hist, pending, timers, turn, released, history>>
---------------------------------------------------------------------------
(* One turn. Its guard is captured when it starts, whatever the batch is about
   (captureWindowGuard), and is checked before each request and tool. *)

Authority(b) ==
  /\ ~gone /\ ~released
  /\ IF InvitationBatch(b) THEN b.win \in invited ELSE b.win \in member

Guarded(t) ==
  LET w == t.batch.win IN
  /\ ~gone
  /\ IF InvitationBatch(t.batch)
     THEN (w \in invited /\ stint[w] = t.stint) \/ (w \in member /\ stint[w] = t.stint + 1)
     ELSE w \in member /\ stint[w] = t.stint

StartTurn ==
  /\ loop = "up" /\ turn = None /\ todo # <<>> /\ ~released
  /\ turn' = [batch |-> Head(todo), at |-> "capture", stint |-> 0,
              cancelled |-> FALSE, acted |-> FALSE]
  /\ todo' = Tail(todo)
  /\ UNCHANGED <<server, read, hist, pending, timers, loop, released, history>>

Leaves == IF turn.acted THEN acted \cup turn.batch.triggers ELSE acted

\* The turn ends without an answer or a report: its window closed, or it was cancelled.
Dropped ==
  /\ turn' = None /\ acted' = Leaves
  /\ UNCHANGED <<server, client, released, settled, sends>>

Settles ==
  /\ turn' = None /\ acted' = Leaves
  /\ settled' = settled \cup Covers(turn.batch)
  /\ UNCHANGED <<server, client, released, sends>>

Capture ==
  /\ turn # None /\ turn.at = "capture"
  /\ IF Authority(turn.batch)
     THEN /\ turn' = [turn EXCEPT !.at = "begun", !.stint = stint[turn.batch.win]]
          /\ UNCHANGED <<server, client, released, history>>
     ELSE Dropped

Send ==
  /\ turn # None /\ turn.at = "begun"
  /\ IF Guarded(turn)
     THEN /\ turn' = [turn EXCEPT !.at = "sent"]
          /\ sends' = [n \in Ids |->
               IF n \in Covers(turn.batch) \ settled THEN sends[n] + 1 ELSE sends[n]]
          /\ UNCHANGED <<server, client, released, settled, acted>>
     ELSE Dropped

Sent == turn # None /\ turn.at = "sent"

Answer == Sent /\ Guarded(turn) /\ Settles

\* A revoked guard ends the turn, however its request went.
Closed == Sent /\ ~Guarded(turn) /\ Dropped

Cancelled ==
  /\ turn # None /\ turn.cancelled
  /\ Dropped

\* runBatch: a failure is retried once, and never after a tool ran.
ReplaysActed(t) == ~t.batch.retried

Replays(t) == ~t.batch.retried /\ ~t.acted

(* A failure that is reported: of the request or of the drawing of the delay. A
   turn that fails earlier, at its guard, its history or a summary, ends the same
   way, as if its request had failed. *)
FailFinally == Sent /\ Guarded(turn) /\ Settles

FailTransiently ==
  LET b == [turn.batch EXCEPT !.retried = TRUE] IN
  /\ Sent /\ Guarded(turn) /\ Replays(turn)
  /\ turn' = None /\ acted' = Leaves
  /\ timers' = timers \cup {b}
  /\ pending' = [pending EXCEPT ![b.win] = [token |-> b, batch |-> b]]
  /\ UNCHANGED <<server, read, hist, todo, loop, released, settled, sends>>

Queue(kind, w, s) ==
  /\ Len(log) < MaxLog
  /\ log' = Append(log, [kind |-> kind, win |-> w, stint |-> s])

(* The loop of commands runs one at a time: a JOIN or an INVITE is handled only
   once the KICK before it has interrupted the window's turn. *)
Writer == ~gone /\ interrupts = {}

\* A tool of the turn: it speaks, PARTs or JOINs; a `quit` is the action Quit.
RunTool ==
  /\ Sent /\ Guarded(turn) /\ Writer
  /\ turn' = [turn EXCEPT !.acted = TRUE]
  /\ \/ UNCHANGED server
     \/ \E w \in member :
          /\ Queue("part", w, stint[w])
          /\ member' = member \ {w}
          /\ UNCHANGED <<invited, stint, gone, interrupts>>
     \/ \E w \in Windows \ member :
          /\ Queue("join", w, stint[w] + 1)
          /\ member' = member \cup {w}
          /\ invited' = invited \ {w}
          /\ stint' = [stint EXCEPT ![w] = @ + 1]
          /\ UNCHANGED <<gone, interrupts>>
  /\ UNCHANGED <<client, released, history>>

Turn ==
  \/ StartTurn \/ Capture \/ Send \/ Answer \/ Cancelled
  \/ Closed \/ FailFinally \/ FailTransiently \/ RunTool
---------------------------------------------------------------------------
(* The server and the other clients *)

Say(w, kind) ==
  /\ Writer /\ w \in member
  /\ Queue(kind, w, stint[w])
  /\ UNCHANGED <<member, invited, stint, gone, interrupts, client, turn, released, history>>

Invite(w) ==
  /\ Writer /\ w \notin member \cup invited
  /\ Queue("invite", w, stint[w])
  /\ invited' = invited \cup {w}
  /\ UNCHANGED <<member, stint, gone, interrupts, client, turn, released, history>>

Kick(w) ==
  /\ Writer /\ w \in member
  /\ Queue("part", w, stint[w])
  /\ member' = member \ {w}
  /\ interrupts' = interrupts \cup {{w}}
  /\ UNCHANGED <<invited, stint, gone, client, turn, released, history>>

\* QUIT, by a tool of the turn too, or KILL: the connection ends first.
Quit ==
  /\ Writer
  /\ gone' = TRUE /\ interrupts' = {Windows}
  /\ UNCHANGED <<member, invited, stint, log, client, turn, released, history>>

Interrupted(t, W) ==
  IF t # None /\ t.batch.win \in W THEN [t EXCEPT !.cancelled = TRUE] ELSE t

\* InterruptWindow, or InterruptTurn for every window.
Interrupt(W) ==
  /\ W \in interrupts
  /\ interrupts' = interrupts \ {W}
  /\ turn' = Interrupted(turn, W)
  /\ UNCHANGED <<member, invited, stint, gone, log, client, released, history>>

\* Release, by the server's reaper or the shutdown, at any time.
Release ==
  /\ ~released
  /\ released' = TRUE
  /\ turn' = Interrupted(turn, Windows)
  /\ UNCHANGED <<server, client, history>>

Environment ==
  \/ \E w \in Windows : \E kind \in {"msg", "topic"} : Say(w, kind)
  \/ \E w \in Windows : Invite(w) \/ Kick(w)
  \/ Quit \/ Release
  \/ \E W \in interrupts : Interrupt(W)
---------------------------------------------------------------------------
Init ==
  /\ member \in SUBSET Windows
  /\ invited = {}
  /\ stint = [w \in Windows |-> IF w \in member THEN 1 ELSE 0]
  /\ gone = FALSE /\ interrupts = {} /\ log = <<>> /\ read = 0
  /\ hist = [w \in Windows |-> {}]
  /\ pending = [w \in Windows |-> None]
  /\ timers = {} /\ todo = <<>> /\ turn = None /\ loop = "up" /\ released = FALSE
  /\ settled = {} /\ sends = [n \in Ids |-> 0] /\ acted = {}

Loop ==
  \/ \E k \in 1..Burst : ReadBurst(k)
  \/ \E b \in timers : Claim(b) \/ AbandonRetry(b)
  \/ Exit

Next == Loop \/ Turn \/ Environment

Spec == Init /\ [][Next]_vars

(* The goroutines run: the loop takes what is ready, a scheduler's wait ends, a
   cancelled request returns, an interrupt is delivered. Nothing is assumed of
   the provider, which may never answer. *)
Fairness ==
  /\ WF_vars(\E k \in 1..Burst : ReadBurst(k))
  /\ SF_vars(\E b \in timers : Claim(b))
  /\ WF_vars(\E b \in timers : AbandonRetry(b))
  /\ WF_vars(Exit) /\ WF_vars(StartTurn) /\ WF_vars(Capture) /\ WF_vars(Send)
  /\ WF_vars(Cancelled) /\ WF_vars(\E W \in interrupts : Interrupt(W))

LiveSpec == Spec /\ Fairness
---------------------------------------------------------------------------
(* Properties *)

Batches == [win : Windows, history : SUBSET Ids, events : SUBSET Ids,
            triggers : SUBSET Ids, retried : BOOLEAN]
Turns == [batch : Batches, at : {"capture", "begun", "sent"}, stint : Nat,
          cancelled : BOOLEAN, acted : BOOLEAN]
Waits == [token : Batches, batch : Batches]
Deliveries == [kind : {"msg", "topic", "invite", "part", "join"}, win : Windows, stint : Nat]

ASSUME NoneAssumption == None \notin Turns /\ None \notin Waits

\* Every variable has its type.
TypeOK ==
  /\ member \subseteq Windows /\ invited \subseteq Windows
  /\ stint \in [Windows -> Nat]
  /\ gone \in BOOLEAN /\ interrupts \subseteq SUBSET Windows
  /\ log \in Seq(Deliveries) /\ Len(log) <= MaxLog
  /\ read \in 0..Len(log)
  /\ hist \in [Windows -> SUBSET Ids]
  /\ DOMAIN pending = Windows
  /\ \A w \in Windows : pending[w] = None \/ pending[w] \in Waits
  /\ timers \subseteq Batches
  /\ todo \in Seq(Batches)
  /\ turn = None \/ turn \in Turns
  /\ loop \in {"up", "exited"} /\ released \in BOOLEAN
  /\ settled \subseteq Ids /\ sends \in [Ids -> Nat] /\ acted \subseteq Ids

\* Every batch the loop may still run.
Live ==
  Range(todo) \cup {pending[w].batch : w \in {v \in Windows : pending[v] # None}}
  \cup IF turn = None THEN {} ELSE {turn.batch}

(* A prompt is one membership's conversation, whole and in order: its history
   precedes the burst's events, nothing is shown twice or left out between its
   first and its last line, and no line is of another membership than the rest
   (openBatches before fileBatch, resetClosedBatch, resetOpenedBatch). *)
PromptWhole ==
  \A b \in Live :
    LET lines == Covers(b) IN
    /\ b.triggers # {} /\ b.triggers \subseteq b.events
    /\ \A m \in b.history, n \in b.events : m < n
    /\ \A m, n \in lines :
         /\ log[m].win = b.win
         /\ ~Is(m, "invite") /\ ~Is(n, "invite") => log[m].stint = log[n].stint
         /\ m < n => \A i \in m..n : log[i].win = b.win /\ ~Is(i, "part") => i \in lines

\* The membership or the invitation that delivery n belongs to has ended.
Over(n) ==
  LET d == log[n] IN
  \/ gone \/ released
  \/ IF d.kind = "invite" THEN d.win \notin invited \/ stint[d.win] # d.stint
     ELSE d.win \notin member \/ stint[d.win] # d.stint

(* While the membership or the invitation a delivery belongs to lasts, at most two
   turns send it to the provider before it is answered or reported as failed, though
   newer batches that contain it replace the one that failed (redispatchSet.merge
   hands the failed attempt on). Once it is over, a line that was queued before its
   end may show it again to a turn of the next membership. *)
TwoAttempts == \A n \in 1..Len(log) : Over(n) \/ sends[n] <= 2

(* What a turn did by its tools is not done again: no trigger of a turn that ran
   a tool is the trigger of another turn that does (nonReplayableTurnError). *)
ActsOnce == turn # None /\ turn.acted => turn.batch.triggers \cap acted = {}

(* A window waits at most for one re-dispatch, and for as long as it does a
   scheduler is there to deliver it: a stale scheduler, whose window closed
   and opened again, neither wakes the newer wait nor ends it (claim's token). *)
WaitsOnItsOwnTimer ==
  \A w \in Windows :
    pending[w] # None => pending[w].token \in timers \/ released

(* The loop starts a waiting batch only when the wait of its own token ends: the
   scheduler of a wait that a PART ended does not cut short the delay of the next
   (claim compares the token, not the window). *)
OwnDelay ==
  [][\A w \in Windows :
       (pending[w] # None /\ todo = <<>> /\ todo' = <<pending[w].batch>>)
         => pending[w].token \in timers \ timers']_vars

Unsettled(n) == n <= read /\ Trigger(n) /\ n \notin settled /\ ~Over(n)

(* Every delivery that calls for an answer gets one, or a report of the failure,
   unless its membership or invitation is over, provided that turns end: none is
   forgotten in a batch that waits, is merged or is superseded. *)
TriggersSettle == []<>(turn = None) => \A n \in Ids : Unsettled(n) ~> ~Unsettled(n)

(* The teardown of a connection waits for its client to read what is queued, and
   that does not hang on the provider: whatever turn is running is cancelled and
   no other is begun (deactivateConnection before InterruptTurn). *)
DrainsAfterQuit == gone ~> (read = Len(log) \/ released)

(* Wait returns: after Release the loop and every scheduler end. *)
TeardownEnds == released ~> (loop = "exited" /\ timers = {})

(* runBatch's comment: the dispatch loop also cancels a pending batch when PART
   or KICK closes the window. No second attempt would be made in a later membership, but
   the loop may take a scheduler's offer before it reads the PART (see README). *)
RetryOfItsInterval ==
  turn # None /\ turn.at # "capture" /\ turn.batch.retried /\ ~InvitationBatch(turn.batch) =>
    \A n \in turn.batch.triggers : Is(n, "invite") \/ log[n].stint = turn.stint
=============================================================================
