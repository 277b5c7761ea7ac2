----------------------------- MODULE SendQueue -----------------------------
(***************************************************************************)
(* The outbound half of one subscription (src/internal/session/client.go,  *)
(* disconnect.go): producers hand deliveries to `queueLocked`, the `pump`  *)
(* goroutine moves the backlog into the buffered `events` channel, and the *)
(* client reads that channel.  A teardown (QUIT, KILL, a send-queue        *)
(* overflow, a dead consumer) runs against both.                           *)
(*                                                                         *)
(* Everything under `outMu` is one step.  The pump holds no lock while it  *)
(* sends, so peek, send and advance are three steps, and a teardown is a   *)
(* process of its own: another producer, or another teardown, can run      *)
(* between any two of its lines.                                           *)
(*                                                                         *)
(* A delivery is its position in the order the server offered deliveries   *)
(* to this subscription, and whether it is terminal (the client's own      *)
(* Quit, a KillNotice, a ConnectionError).                                 *)
(***************************************************************************)
EXTENDS Naturals, Sequences

CONSTANTS
  BufSize,          \* eventBufSize: capacity of the `events` channel
  Allowance,        \* sendQAllowance: ordinary deliveries the server will hold
  MaxSent,          \* bound on the deliveries offered (finiteness only)
  Quits,            \* QUIT commands in flight for this client (may fail)
  Kills,            \* KILL commands that resolved this client (never fail)
  Deads,            \* DisconnectDeadClient calls: the consumer is gone
  SessionLifetime,  \* the user's subscription, which has no send bound
  ReplayHistory     \* subscribed with SubscribeOptions.ReplayHistory

\* The disconnect that an overflow starts, at most once (`disconnecting`).
Overflow == "overflow"

Teardowns == Quits \cup Kills \cup Deads \cup {Overflow}

ASSUME SendQueueAssumption ==
  /\ BufSize \in Nat \ {0}
  /\ Allowance \in Nat \ {0}
  /\ MaxSent \in Nat
  /\ SessionLifetime \in BOOLEAN
  /\ ReplayHistory \in BOOLEAN
  /\ Quits \cap (Kills \cup Deads) = {} /\ Kills \cap Deads = {}
  /\ Overflow \notin Quits \cup Kills \cup Deads
  \* reapClient, Disconnect and disconnectOverflowed refuse the user, whose
  \* QUIT and KILL leave the subscription standing.
  /\ SessionLifetime => Quits \cup Kills \cup Deads = {}
  /\ SessionLifetime => ~ReplayHistory

Delivery == [n : Nat, terminal : BOOLEAN]
NoDelivery == [n |-> 0, terminal |-> FALSE]

VARIABLES
  offered,        \* deliveries offered so far
  outbox,         \* the send queue, in order
  events,         \* the buffered channel
  received,       \* history: what the client has read
  wake,           \* outWake holds its one coalesced signal
  outClosed, outSealed, terminating, outDraining, outDrained,
  replayBlocked,  \* attach-time replay not finished
  disconnecting,  \* the overflow disconnect has been claimed
  done,           \* the subscription's done channel is closed
  stop,           \* the session is shutting down
  registered,     \* the handle is in clientHandles
  subscribed,     \* the handle is in subscribers
  pump, held,     \* the pump's program counter and the head it peeked
  pc,             \* each teardown's program counter
  told,           \* history: how many of each teardown's events were accepted
  silent,         \* history: forced departures that recorded and sent no Quit
  refused,        \* history: ordinary deliveries the queue turned away
  lost            \* history: accepted deliveries released by closeOutbound

flags == <<outClosed, outSealed, terminating, outDraining, outDrained>>
registry == <<registered, subscribed, done>>
queue == <<offered, outbox, events, received, wake>>
session == <<replayBlocked, disconnecting, stop>>
history == <<told, silent, refused, lost>>
vars == <<queue, flags, session, registry, pump, held, pc, history>>

-----------------------------------------------------------------------------
Init ==
  /\ offered = 0
  /\ outbox = <<>> /\ events = <<>> /\ received = <<>>
  /\ wake = FALSE
  /\ outClosed = FALSE /\ outSealed = FALSE /\ terminating = FALSE
  /\ outDraining = FALSE /\ outDrained = FALSE
  /\ replayBlocked = ReplayHistory
  /\ disconnecting = FALSE /\ done = FALSE /\ stop = FALSE
  /\ registered = TRUE /\ subscribed = TRUE
  /\ pump = "peek" /\ held = NoDelivery
  /\ pc = [t \in Teardowns |-> "idle"]
  /\ told = [t \in Teardowns |-> 0]
  /\ silent = {} /\ refused = {} /\ lost = {}

-----------------------------------------------------------------------------
(* queueLocked, by outcome.  `d` is the delivery being offered.            *)

\* Mutants of the definition that follows them are named after the slip.
DiscardsTerminalToo(d) == outClosed \/ outDraining \/ outSealed

Discards(d) == outClosed \/ outDraining \/ (outSealed /\ ~d.terminal)

DirectPathIgnoresBacklog ==
  ~terminating /\ ~replayBlocked /\ Len(events) < BufSize

DirectPathIgnoresReplay ==
  ~terminating /\ outbox = <<>> /\ Len(events) < BufSize

\* The client keeps up: the delivery goes straight into the channel.
TakesDirectPath ==
  ~terminating /\ ~replayBlocked /\ outbox = <<>> /\ Len(events) < BufSize

OverflowsOneLate(d) ==
  Len(outbox) > Allowance /\ ~SessionLifetime /\ ~d.terminal

Overflows(d) ==
  Len(outbox) >= Allowance /\ ~SessionLifetime /\ ~d.terminal

DirectSend(d) ==
  /\ ~Discards(d) /\ TakesDirectPath
  /\ events' = Append(events, d)
  /\ UNCHANGED <<outbox, wake, outSealed, refused, disconnecting>>

OverflowedUnsealed(d) ==
  /\ ~Discards(d) /\ ~TakesDirectPath /\ Overflows(d)
  /\ disconnecting' = TRUE
  /\ refused' = refused \cup {d.n}
  /\ UNCHANGED <<outbox, events, wake, outSealed>>

\* The queue is at its allowance: seal it, and claim the one disconnect.
Overflowed(d) ==
  /\ ~Discards(d) /\ ~TakesDirectPath /\ Overflows(d)
  /\ outSealed' = TRUE
  /\ disconnecting' = TRUE
  /\ refused' = refused \cup {d.n}
  /\ UNCHANGED <<outbox, events, wake>>

AppendedSilently(d) ==
  /\ ~Discards(d) /\ ~TakesDirectPath /\ ~Overflows(d)
  /\ outbox' = Append(outbox, d)
  /\ UNCHANGED <<events, wake, outSealed, refused, disconnecting>>

Appended(d) ==
  /\ ~Discards(d) /\ ~TakesDirectPath /\ ~Overflows(d)
  /\ outbox' = Append(outbox, d)
  /\ wake' = TRUE
  /\ UNCHANGED <<events, outSealed, refused, disconnecting>>

Discarded(d) ==
  /\ Discards(d)
  /\ refused' = IF d.terminal THEN refused ELSE refused \cup {d.n}
  /\ UNCHANGED <<outbox, events, wake, outSealed, disconnecting>>

QueueLocked(d) ==
  /\ offered' = offered + 1
  /\ DirectSend(d) \/ Overflowed(d) \/ Appended(d) \/ Discarded(d)

Offering(terminal) == [n |-> offered + 1, terminal |-> terminal]

\* Some producer fans an ordinary event out to this subscription.
Enqueue ==
  /\ offered < MaxSent /\ subscribed
  /\ QueueLocked(Offering(FALSE))
  /\ UNCHANGED <<received, outClosed, terminating, outDraining, outDrained,
                 replayBlocked, stop, registry, pump, held, pc, told, silent,
                 lost>>

\* AppendChannelScrollback failed for a row projected to this client: the
\* delivery is dropped, the queue sealed and the connection closed instead.
SealUnreplayable ==
  /\ ReplayHistory /\ subscribed /\ offered < MaxSent
  /\ offered' = offered + 1
  /\ refused' = refused \cup {offered + 1}
  /\ outSealed' = TRUE
  /\ disconnecting' = TRUE
  /\ UNCHANGED <<outbox, events, received, wake, outClosed, terminating,
                 outDraining, outDrained, replayBlocked, stop, registry,
                 pump, held, pc, told, silent, lost>>

-----------------------------------------------------------------------------
(* The pump goroutine.                                                     *)

Peek ==
  /\ pump = "peek"
  /\ IF replayBlocked \/ outbox = <<>>
     THEN pump' = "wait" /\ UNCHANGED held
     ELSE pump' = "send" /\ held' = Head(outbox)
  /\ UNCHANGED <<queue, flags, session, registry, pc, history>>

Woken ==
  /\ pump = "wait" /\ wake
  /\ wake' = FALSE
  /\ pump' = "peek"
  /\ UNCHANGED <<offered, outbox, events, received, flags, session, registry,
                 held, pc, history>>

Send ==
  /\ pump = "send" /\ Len(events) < BufSize
  /\ events' = Append(events, held)
  /\ pump' = "advance"
  /\ UNCHANGED <<offered, outbox, received, wake, flags, session, registry,
                 held, pc, history>>

DrainedAtOnce(draining, q) == outDrained \/ draining

\* markOutboundDrainedLocked, given the queue as the caller leaves it.
Drained(draining, q) == outDrained \/ (draining /\ q = <<>>)

Advance ==
  /\ pump = "advance"
  /\ pump' = "peek"
  /\ outbox' = IF outbox = <<>> THEN <<>> ELSE Tail(outbox)
  /\ outDrained' = IF outbox = <<>> THEN outDrained
                   ELSE Drained(outDraining, Tail(outbox))
  /\ UNCHANGED <<offered, events, received, wake, outClosed, outSealed,
                 terminating, outDraining, session, registry, held, pc,
                 history>>

\* The deliveries an immediate close throws away: the head the pump already
\* put into the channel is not one of them.
Releasable == IF pump = "advance" /\ outbox # <<>> THEN Tail(outbox) ELSE outbox

CloseOutbound ==
  /\ outClosed' = TRUE
  /\ outbox' = <<>>
  /\ outDrained' = TRUE
  /\ lost' = lost \cup {Releasable[i].n : i \in 1..Len(Releasable)}
  /\ UNCHANGED <<outSealed, terminating, outDraining>>

\* The pump leaves through `done` or `stop`, closing the queue behind it.
PumpExit ==
  /\ pump \in {"wait", "send"}
  /\ done \/ stop
  /\ pump' = "exited"
  /\ CloseOutbound
  /\ UNCHANGED <<offered, events, received, wake, session, registry, held, pc,
                 told, silent, refused>>

-----------------------------------------------------------------------------
(* The client.                                                             *)

Receive ==
  /\ events # <<>>
  /\ received' = Append(received, Head(events))
  /\ events' = Tail(events)
  /\ UNCHANGED <<offered, outbox, wake, flags, session, registry, pump, held,
                 pc, history>>

\* The ways to keep some of a queue, in order.
Thinned(s) ==
  UNION {{[i \in 1..k |-> s[f[i]]] :
            f \in {g \in [1..k -> 1..Len(s)] :
                     \A i, j \in 1..k : i < j => g[i] < g[j]}} :
         k \in 0..Len(s)}

ActivateSilently ==
  /\ replayBlocked
  /\ \E kept \in Thinned(outbox) : outbox' = kept
  /\ replayBlocked' = FALSE
  /\ UNCHANGED <<offered, events, received, wake, flags, disconnecting, stop,
                 registry, pump, held, pc, history>>

\* End of attach-time replay: the queued deliveries the loaded scrollback
\* already showed are removed (module Replay says which), the rest released.
Activate ==
  /\ replayBlocked
  /\ \E kept \in Thinned(outbox) : outbox' = kept
  /\ replayBlocked' = FALSE
  /\ wake' = TRUE
  /\ UNCHANGED <<offered, events, received, flags, disconnecting, stop,
                 registry, pump, held, pc, history>>

-----------------------------------------------------------------------------
(* Teardowns: disconnectClient, handleQuit, handleKill and the reaper.     *)

Goto(t, from, to) == pc[t] = from /\ pc' = [pc EXCEPT ![t] = to]

\* No departure has committed, so connectionActive still holds.
ConnectionActive ==
  \A t \in Teardowns : pc[t] \in {"idle", "begun", "noticed", "aborted"}

\* A KILL resolves, notices and quits its target in one writer-loop job.
LoopFree(t) == \A k \in Kills \ {t} : pc[k] \notin {"begun", "noticed"}

\* beginTermination, on the handle the teardown looked up.
BeginTermination(t) ==
  /\ registered
  /\ t = Overflow => disconnecting
  /\ t = Overflow \/ t \in Deads => ~stop                \* beginHandler
  /\ t \in Kills => ConnectionActive /\ LoopFree(t)       \* resolveConnectedNick
  /\ Goto(t, "idle", "begun")
  /\ terminating' = IF outClosed \/ outDraining THEN terminating ELSE TRUE
  /\ UNCHANGED <<queue, outClosed, outSealed, outDraining, outDrained, session,
                 registry, pump, held, history>>

\* The departure did not commit: a QUIT whose deletion failed, or work the
\* writer loop refused because it has stopped.
AbortTermination(t) ==
  /\ t \in Quits \/ (stop /\ t \notin Kills)
  /\ Goto(t, "begun", "aborted")
  /\ IF outClosed \/ outDraining
     THEN UNCHANGED <<terminating, wake>>
     ELSE terminating' = FALSE /\ wake' = TRUE
  /\ UNCHANGED <<offered, outbox, events, received, outClosed, outSealed,
                 outDraining, outDrained, session, registry, pump, held,
                 history>>

\* Offers teardown t's terminal delivery, if its recipient can be found.
OfferTerminal(t, found) ==
  LET d == Offering(TRUE) IN
  IF found
  THEN /\ QueueLocked(d)
       /\ told' = [told EXCEPT ![t] = IF Discards(d) THEN @ ELSE @ + 1]
  ELSE UNCHANGED <<offered, outbox, events, wake, outSealed, refused,
                   disconnecting, told>>

\* KILL's KillNotice precedes the QUIT.
KillNotice(t) ==
  /\ t \in Kills
  /\ Goto(t, "begun", "noticed")
  /\ OfferTerminal(t, registered)
  /\ UNCHANGED <<received, outClosed, terminating, outDraining, outDrained,
                 replayBlocked, stop, registry, pump, held, silent, lost>>

\* A departure commits on the writer loop.
Departs(t) ==
  /\ LoopFree(t)
  /\ t \in Quits => ConnectionActive                      \* resolveClientActor
  /\ Goto(t, IF t \in Kills THEN "noticed" ELSE "begun", "committed")

\* The QUIT committed and was queued for its own client.
CommitQuit(t) ==
  /\ Departs(t)
  /\ OfferTerminal(t, registered)
  /\ UNCHANGED <<received, outClosed, terminating, outDraining, outDrained,
                 replayBlocked, stop, registry, pump, held, silent, lost>>

\* A forced departure whose deletion and every append of the QUIT to its
\* channels failed: emitQuit withholds what it could not record, from the
\* client itself too.
CommitSilently(t) ==
  /\ t \notin Quits                                       \* quitForced
  /\ Departs(t)
  /\ silent' = silent \cup {t}
  /\ UNCHANGED <<queue, flags, session, registry, pump, held, told, refused,
                 lost>>

SealOutbound(t) ==
  /\ Goto(t, "committed", "sealed")
  /\ outSealed' = TRUE
  /\ UNCHANGED <<queue, outClosed, terminating, outDraining, outDrained,
                 session, registry, pump, held, history>>

\* emitScoped(ConnectionError) reaches the handle while it is a subscriber.
ConnectionError(t) ==
  /\ Goto(t, "sealed", "notified")
  /\ OfferTerminal(t, subscribed)
  /\ UNCHANGED <<received, outClosed, terminating, outDraining, outDrained,
                 replayBlocked, stop, registry, pump, held, silent, lost>>

\* takeModelSubscription: one teardown gets the handle; the others are done.
LoseSubscription(t) ==
  /\ ~registered
  /\ Goto(t, "notified", "finished")
  /\ UNCHANGED <<queue, flags, session, registry, pump, held, history>>

\* reapModelConnection: take the handle and drain what was accepted.
DrainOutbound(t) ==
  /\ t \notin Deads /\ registered
  /\ Goto(t, "notified", "draining")
  /\ registered' = FALSE
  /\ terminating' = FALSE
  /\ outDraining' = TRUE
  /\ replayBlocked' = FALSE
  /\ outDrained' = Drained(TRUE, outbox)
  /\ wake' = TRUE
  /\ UNCHANGED <<offered, outbox, events, received, outClosed, outSealed,
                 disconnecting, stop, subscribed, done, pump, held,
                 history>>

\* reapDeadModelConnection: take the handle, wait for nothing.
TakeDead(t) ==
  /\ t \in Deads /\ registered
  /\ Goto(t, "notified", "closing")
  /\ registered' = FALSE
  /\ UNCHANGED <<queue, flags, session, subscribed, done, pump, held, history>>

\* The reaper goroutine waits for the drain, then releases the model client.
ReaperDrained(t) ==
  /\ outDrained
  /\ Goto(t, "draining", "closing")
  /\ UNCHANGED <<queue, flags, session, registry, pump, held, history>>

\* reapClient's registry removal and unsubOnce.
Reap ==
  /\ subscribed /\ ~SessionLifetime
  /\ subscribed' = FALSE /\ registered' = FALSE /\ done' = TRUE
  /\ CloseOutbound
  /\ UNCHANGED <<offered, events, received, wake, session, pump, held, told,
                 silent, refused>>

ReapClient(t) ==
  \/ Goto(t, "closing", "joining") /\ Reap
  \/ /\ ~subscribed
     /\ Goto(t, "closing", "finished")
     /\ UNCHANGED <<queue, flags, session, registry, pump, held, history>>

\* reapClient returns once the pump has gone.
JoinPump(t) ==
  /\ pump = "exited"
  /\ Goto(t, "joining", "finished")
  /\ UNCHANGED <<queue, flags, session, registry, pump, held, history>>

\* The client drops its own subscription (Attach failed, or it was released).
Unsubscribe == Reap /\ UNCHANGED pc

\* DrainHandlers closes the session's stop channel.
Shutdown ==
  /\ ~stop
  /\ stop' = TRUE
  /\ UNCHANGED <<queue, flags, replayBlocked, disconnecting, registry, pump,
                 held, pc, history>>

-----------------------------------------------------------------------------
Pump == Peek \/ Woken \/ Send \/ Advance \/ PumpExit

\* The steps of a teardown that has begun.
Proceed(t) ==
  \/ KillNotice(t) \/ CommitQuit(t) \/ CommitSilently(t)
  \/ AbortTermination(t) \/ SealOutbound(t) \/ ConnectionError(t)
  \/ LoseSubscription(t) \/ DrainOutbound(t)
  \/ TakeDead(t) \/ ReaperDrained(t) \/ ReapClient(t) \/ JoinPump(t)

Next ==
  \/ Enqueue \/ SealUnreplayable
  \/ Pump
  \/ Receive \/ Activate \/ Unsubscribe
  \/ \E t \in Teardowns : BeginTermination(t) \/ Proceed(t)
  \/ Shutdown

Spec == Init /\ [][Next]_vars

\* The pump runs, the client keeps reading, the attach completes, a claimed
\* overflow disconnect is scheduled and a teardown that began goes on.
Fairness ==
  /\ WF_vars(Pump) /\ WF_vars(Receive) /\ WF_vars(Activate)
  /\ WF_vars(BeginTermination(Overflow))
  /\ \A t \in Teardowns : WF_vars(Proceed(t))

LiveSpec == Spec /\ Fairness

-----------------------------------------------------------------------------
PumpStates == {"peek", "wait", "send", "advance", "exited"}
TeardownStates == {"idle", "begun", "noticed", "committed", "sealed",
                   "notified", "draining", "closing", "joining", "finished",
                   "aborted"}

TypeOK ==
  /\ offered \in Nat
  /\ outbox \in Seq(Delivery) /\ events \in Seq(Delivery)
  /\ received \in Seq(Delivery)
  /\ Len(events) <= BufSize
  /\ wake \in BOOLEAN /\ outClosed \in BOOLEAN /\ outSealed \in BOOLEAN
  /\ terminating \in BOOLEAN /\ outDraining \in BOOLEAN
  /\ outDrained \in BOOLEAN /\ replayBlocked \in BOOLEAN
  /\ disconnecting \in BOOLEAN /\ done \in BOOLEAN /\ stop \in BOOLEAN
  /\ registered \in BOOLEAN /\ subscribed \in BOOLEAN
  /\ pump \in PumpStates /\ held \in Delivery
  /\ pc \in [Teardowns -> TeardownStates]
  /\ told \in [Teardowns -> Nat] /\ silent \subseteq Teardowns
  /\ refused \subseteq Nat /\ lost \subseteq Nat

\* What is still on its way to the client once the channel is read dry.
Pending ==
  IF outClosed THEN IF pump = "send" THEN <<held>> ELSE <<>>
  ELSE IF pump = "advance" THEN Tail(outbox) ELSE outbox

\* Everything the server accepted for this client and has not withdrawn.
Pipeline == received \o events \o Pending

\* Deliveries reach the client in the order the server offered them: the
\* direct path never overtakes a head the pump is still sending, and no
\* teardown, abort or replay reorders the queue.
InOrder ==
  \A i, j \in 1..Len(Pipeline) : i < j => Pipeline[i].n < Pipeline[j].n

\* The subscription implements the stream it promises: the queue, the channel
\* and the pump between them are one ordered stream, closed at most once.
Stream == INSTANCE DeliveryStream
            WITH Item <- Delivery, stream <- Pipeline,
                 got <- Len(received), open <- ~outClosed

ImplementsStream == Stream!Spec

\* "what a client receives is a prefix of what the server sent, never a
\* version of it with holes": once one ordinary delivery has been turned
\* away or thrown away, no later ordinary one is accepted.
NoHoles ==
  \A i \in 1..Len(Pipeline) : \A m \in refused \cup lost :
    m < Pipeline[i].n => Pipeline[i].terminal

\* Ordinary traffic waits within the allowance; only the closing events of a
\* teardown extend the queue past it.
Bounded ==
  ~SessionLifetime =>
    \A i \in 1..Len(outbox) : i > Allowance => outbox[i].terminal

\* A graceful close throws nothing away: when the reaper that waited for the
\* drain closes the subscription, every accepted delivery has been sent.
DrainLosesNothing ==
  [][\A t \in Teardowns \ Deads :
       pc[t] = "closing" /\ pc'[t] = "joining" => lost' = lost]_vars

\* The closing events teardown t owes its client: the KillNotice of a KILL,
\* the Quit unless none could be recorded, and the ConnectionError.
Owed(t) == 1 + (IF t \in Kills THEN 1 ELSE 0) + (IF t \in silent THEN 0 ELSE 1)

\* The teardown whose drain closes the connection got every closing event it
\* sent (the Quit, and the ConnectionError after it) onto the queue first.
\* "A client is told what happened to its own connection" (emitQuit), but for
\* a forced quit that no storage took: then the ConnectionError is all.
ClosingClientTold ==
  \A t \in Teardowns : pc[t] = "draining" /\ ~stop /\ subscribed =>
    told[t] = Owed(t)

\* The user's queue has no allowance: nothing is ever turned away from it
\* while the session runs, however far its client falls behind.
UserMissesNothing == SessionLifetime => refused = {} \/ stop

\* The pump never sleeps on a backlog: what is queued leaves the queue.
QueueMoves ==
  \A n \in 1..MaxSent :
    (\E i \in 1..Len(outbox) : outbox[i].n = n)
      ~> (\A i \in 1..Len(outbox) : outbox[i].n # n)

\* A send queue past its allowance ends the connection (RFC 1459 8.10), or
\* the session is shutting down.
OverflowCloses == disconnecting ~> (done \/ stop)

\* No teardown waits for ever: a drain, a reap and the pump join complete.
TeardownEnds ==
  \A t \in Teardowns : pc[t] = "begun" ~> pc[t] \in {"finished", "aborted"}
=============================================================================
