------------------------------- MODULE MCLive -------------------------------
(* What must eventually happen: SendQueue, Dispatch, Lifecycle and Reflection
   on their small instances, one of them at a time. The part that
   moves is chosen at the start and the others stay in their initial states. *)
EXTENDS Naturals

CONSTANTS None, Windows, Instances, Stored, Workers

VARIABLES
  part,
  offered, outbox, events, received, wake, outClosed, outSealed, terminating,
  outDraining, outDrained, replayBlocked, disconnecting, done, stop, registered,
  subscribed, pump, held, pc, told, silent, refused, lost,
  member, invited, stint, gone, interrupts, log, read, hist, pending, timers, todo,
  turn, loop, released, settled, sends, acted,
  row, memory, marker, main, late, token, handle, sub, active, mc, goroutines,
  clients, deletes, drain, joining, add, ender, reaper, left, tried,
  lineage, inbox, revisions, experiences, amendments, transitions, committed, trimmed,
  births, mode, current, made, retiring, stopping, tracked, forgotten, worker, observed,
  waking, halting, command, index, cleanup, awaited, leftover, budget, overtaken

ofQueue ==
  <<offered, outbox, events, received, wake, outClosed, outSealed, terminating,
    outDraining, outDrained, replayBlocked, disconnecting, done, stop, registered,
    subscribed, pump, held, pc, told, silent, refused, lost>>
ofLoop ==
  <<member, invited, stint, gone, interrupts, log, read, hist, pending, timers, todo,
    turn, loop, released, settled, sends, acted>>
ofLife ==
  <<row, memory, marker, main, late, token, handle, sub, active, mc, goroutines,
    clients, deletes, drain, joining, add, ender, reaper, left, tried>>
ofRuns ==
  <<lineage, inbox, revisions, experiences, amendments, transitions, committed, trimmed,
    births, mode, current, made, retiring, stopping, tracked, forgotten, worker, observed,
    waking, halting, command, index, cleanup, awaited, leftover, budget, overtaken>>
vars == <<part, ofQueue, ofLoop, ofLife, ofRuns>>

Q == INSTANCE SendQueue WITH
       BufSize <- 1, Allowance <- 1, MaxSent <- 2, Quits <- {}, Kills <- {},
       Deads <- {}, SessionLifetime <- FALSE, ReplayHistory <- TRUE
D == INSTANCE Dispatch WITH MaxLog <- 2, Burst <- 3
L == INSTANCE Lifecycle WITH
       Ids <- Instances,
       MaxEnds <- 1, MaxRestarts <- 1, pending <- deletes, loop <- goroutines
R == INSTANCE Reflection WITH
       Descriptions <- {}, Baseline <- None, MaxEvents <- 2, MaxRevisions <- 1, MaxBorn <- 0,
       Page <- 1, InboxHeadroom <- 2, ExperienceHeadroom <- 0, TransitionHeadroom <- 1,
       HighBoost <- 2, Schedulers <- <<"s1", "s2">>, Modes <- {"disabled", "active"},
       Threshold <- 1, Cap <- 0, MaxSwitches <- 2, MaxFaults <- 0, MaxCommands <- 0,
       told <- observed, marker <- leftover, left <- budget

Init ==
  /\ part \in {"queue", "loop", "life", "runs"} /\ Q!Init /\ D!Init /\ L!Init /\ R!Init
  /\ part # "loop" => member = {} /\ invited = {}

\* The instance stays, and its events are of one episode: what the deletion and
\* the times change is in the run Reflection. Next to mode switches it has one event.
Reflects ==
  /\ R!Next /\ cleanup' = "none"
  /\ \A n \in DOMAIN inbox' : inbox'[n] = 0 /\ (n = 1 \/ budget'.switches = 2)

Next ==
  \/ part = "queue" /\ Q!Next /\ UNCHANGED <<part, ofLoop, ofLife, ofRuns>>
  \/ part = "loop" /\ D!Next /\ UNCHANGED <<part, ofQueue, ofLife, ofRuns>>
  \/ part = "life" /\ L!Next /\ UNCHANGED <<part, ofQueue, ofLoop, ofRuns>>
  \/ part = "runs" /\ Reflects /\ UNCHANGED <<part, ofQueue, ofLoop, ofLife>>

(* The fairness of each part (its module says why) while it moves. *)
Queues(A) == part = "queue" /\ A
Loops(A) == part = "loop" /\ A
Lives(A) == part = "life" /\ A
Runs(A) == part = "runs" /\ A

Fairness ==
  /\ WF_ofQueue(Queues(Q!Pump)) /\ WF_ofQueue(Queues(Q!Receive))
  /\ WF_ofQueue(Queues(Q!Activate))
  /\ WF_ofQueue(Queues(Q!BeginTermination(Q!Overflow)))
  /\ WF_ofQueue(Queues(Q!Proceed(Q!Overflow)))
  /\ WF_ofLoop(Loops(\E k \in 1..3 : D!ReadBurst(k)))
  /\ SF_ofLoop(Loops(\E b \in timers : D!Claim(b)))
  /\ WF_ofLoop(Loops(\E b \in timers : D!AbandonRetry(b)))
  /\ WF_ofLoop(Loops(D!Exit)) /\ WF_ofLoop(Loops(D!StartTurn))
  /\ WF_ofLoop(Loops(D!Capture)) /\ WF_ofLoop(Loops(D!Send))
  /\ WF_ofLoop(Loops(D!Cancelled))
  /\ WF_ofLoop(Loops(\E W \in interrupts : D!Interrupt(W)))
  /\ WF_ofLife(Lives(L!WayOut)) /\ WF_ofLife(Lives(L!Deadline))
  /\ \A w \in Workers : WF_ofRuns(Runs(R!Work(w)))
  /\ \A s \in {"s1", "s2"} : WF_ofRuns(Runs(R!Wake(s)))
  /\ WF_ofRuns(Runs(R!Notify)) /\ WF_ofRuns(Runs(R!StopReflections))

Spec == Init /\ [][Next]_vars /\ Fairness
---------------------------------------------------------------------------
(* The pump never sleeps on a backlog, and a queue past its allowance ends the
   connection (client.go's pump and queueLocked). *)
QueueMoves == Q!QueueMoves /\ Q!OverflowCloses

(* Every delivery that calls for an answer gets one, or a report of the failure,
   unless its membership is over, while turns end (modelclient/dispatch.go). *)
TriggersSettle == D!TriggersSettle

(* Unread events are reflected on, across mode switches that overlap and retired
   schedulers, while the manager has a scheduler (modelmanager/reflection.go). *)
BacklogAttempted == R!BacklogAttempted

(* Whatever is torn down ends, with a provider that may never answer: a drain and
   its reaper, the loop of a closed connection and its schedulers, and the
   program on its way out (disconnect.go, dispatch.go, main.go). *)
TeardownsEnd == Q!TeardownEnds /\ D!DrainsAfterQuit /\ D!TeardownEnds /\ L!ClosesInTime
=============================================================================
