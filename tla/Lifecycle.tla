----------------------------- MODULE Lifecycle -----------------------------
(* The life of model clients across three owners: the session (identities,
   subscriptions, handlers, reapers), the model manager (attached and draining
   clients, deferred clean-up of their memories) and main, which starts them and
   leaves under one deadline. A client is attached at start or by an ADDMODEL
   that may be discarded; it is ended by a KILL, a QUIT or a server disconnect,
   each on goroutines of their own, and any of this may meet the shutdown.

   Deliveries are SendQueue's, channel records are Channels'; here a stored
   instance is its row, whether it has memories, and the pending_memory_deletions
   row that a deletion leaves. *)
EXTENDS Naturals, FiniteSets

CONSTANTS
  Ids,         \* instance ids
  Stored,      \* those with a row when the program first starts
  MaxEnds,     \* bound: handlers that end a client
  MaxRestarts  \* bound: starts after the first

VARIABLES
  row,       \* instances: "none", "live", "pending" (pending_deletion) or "gone"
  memory,    \* the instance has memories, indexed or stored
  marker,    \* pending_memory_deletions
  main,      \* how far the program has come
  late,      \* drainCtx has expired
  token,     \* Session.attachments
  handle,    \* Session.clientHandles
  sub,       \* the subscription: "none", "open", "draining" or "closed"
  active,    \* serverClient.connectionActive
  mc,        \* ModelClient: "none", "new", "subscribed", "released"
  loop,      \* its dispatch goroutines: "none", "running" or "ended"
  clients,   \* Manager.clients
  pending,   \* Manager.pendingMemoryDeletes
  drain,     \* Manager.draining with the goroutine of finishDrain
  joining,   \* the drains DetachAll waits for
  add,       \* the attachment of an instance, by main or by an ADDMODEL handler
  ender,     \* the handler that ends a client
  reaper,    \* Session.reapers
  left,      \* bounds: what is left of ends and restarts
  tried      \* history: the instances whose clean-up was tried

stored == <<row, memory, marker, tried>>
program == <<main, late>>
session == <<token, handle, sub, active>>
client == <<mc, loop>>
manager == <<clients, pending, drain, joining>>
handlers == <<add, ender>>
vars == <<stored, program, session, client, manager, handlers, reaper, left>>

NoDrain == [pc |-> "none", forget |-> FALSE, abandoned |-> FALSE]
Waiting(forget) == [pc |-> "waiting", forget |-> forget, abandoned |-> FALSE]
Idle == {"none", "done"}
Subscribed(i) == sub[i] \in {"open", "draining"}
Serving == main = "running"
Leaving == main \in {"leaving", "draining", "releasing", "closing"}
Started == main = "boot" \/ Serving \/ Leaving
stopping == main \in {"releasing", "closing", "closed"}
shuttingDown == main \in {"draining", "releasing", "closing", "closed"}
---------------------------------------------------------------------------
(* Pieces of the session and the manager, as effects on their variables. *)

\* reapClient, by id: whoever holds the subscription.
Reaped(i) ==
  IF Subscribed(i)
  THEN /\ sub' = [sub EXCEPT ![i] = "closed"]
       /\ handle' = [handle EXCEPT ![i] = FALSE]
       /\ token' = [token EXCEPT ![i] = FALSE]
  ELSE UNCHANGED <<sub, handle, token>>

\* takeModelSubscription: the first teardown gets it.
Taken(i, next) ==
  /\ handle' = [handle EXCEPT ![i] = FALSE]
  /\ token' = [token EXCEPT ![i] = IF handle[i] THEN FALSE ELSE @]
  /\ sub' = [sub EXCEPT ![i] = IF handle[i] /\ @ = "open" THEN next ELSE @]

\* Release: the client's own half, and Unsubscribe when it was subscribed.
Released(i) ==
  /\ mc' = [mc EXCEPT ![i] = "released"]
  /\ IF mc[i] = "subscribed" THEN Reaped(i) ELSE UNCHANGED <<sub, handle, token>>

\* detach: an attached client begins to drain, a draining one is only marked.
NeverOwed(i) == FALSE
Owed(i) == i \in pending
Detached(i) ==
  /\ pending' = pending \ {i}
  /\ IF i \in clients
     THEN /\ clients' = clients \ {i}
          /\ drain' = [drain EXCEPT ![i] = Waiting(Owed(i))]
     ELSE /\ UNCHANGED clients
          /\ drain' = [drain EXCEPT ![i].forget = @ \/ (Owed(i) /\ drain[i].pc # "none")]

\* Manager.InstanceDeleted: remembered for a client that still runs.
Unattached(i) == i \notin clients
ForgetNow(i) == i \notin clients /\ drain[i].pc = "none"
Deleted(i) ==
  /\ pending' = IF i \in clients THEN pending \cup {i} ELSE pending
  /\ drain' = [drain EXCEPT ![i].forget =
                 @ \/ (i \notin clients /\ drain[i].pc # "none")]

\* finishMemoryDeletion: under the manager's lifecycle, and it may fail.
Forgotten(i) ==
  /\ tried' = tried \cup {i}
  /\ \/ /\ main # "closing" /\ main # "closed"
        /\ memory' = [memory EXCEPT ![i] = FALSE]
        /\ marker' = [marker EXCEPT ![i] = FALSE]
     \/ UNCHANGED <<memory, marker>>

\* CommitInstanceDeletion: the clean-up that is due is recorded with it.
RowGone(i) ==
  /\ row' = [row EXCEPT ![i] = "gone"]
  /\ marker' = [marker EXCEPT ![i] = TRUE]
  /\ UNCHANGED <<memory, tried>>
---------------------------------------------------------------------------
(* Start. *)

\* Manager.Start: pending rows, then pending memory, each of which may fail.
Start ==
  /\ main = "start"
  /\ \E failedRows \in SUBSET {i \in Ids : row[i] = "pending"} :
     \E failedMemory \in SUBSET {i \in Ids : marker[i] \/ row[i] = "pending"} :
       LET deleted == {i \in Ids : row[i] = "pending"} \ failedRows
           due == {i \in Ids : marker[i]} \cup deleted
       IN
       /\ row' = [i \in Ids |-> IF i \in deleted THEN "gone" ELSE row[i]]
       /\ marker' = [i \in Ids |-> i \in due \cap failedMemory]
       /\ memory' = [i \in Ids |-> memory[i] /\ i \notin due \ failedMemory]
       /\ tried' = tried \cup due
  /\ main' = "boot"
  /\ add' = [i \in Ids |-> IF row'[i] = "live" THEN "begin" ELSE "none"]
  /\ UNCHANGED <<late, session, client, manager, ender, reaper, left>>

\* The attachments of StartModelClients have been tried; main goes on if all hold.
Booted ==
  /\ main = "boot" /\ \A i \in Ids : add[i] \in {"none", "done", "failed"}
  /\ main' = IF \E i \in Ids : add[i] = "failed" THEN "closed" ELSE "running"
  /\ late' = (main' = "closed")
  /\ UNCHANGED <<stored, session, client, manager, handlers, reaper, left>>
---------------------------------------------------------------------------
(* ADDMODEL, and the attachment it shares with the start. *)

AddTo(i, pc) == add' = [add EXCEPT ![i] = pc]

AddModel(i) ==
  /\ main \in {"running", "leaving"} /\ row[i] = "none" /\ add[i] = "none"
  /\ \/ row' = [row EXCEPT ![i] = "live"] /\ AddTo(i, "begin")
     \/ UNCHANGED row /\ AddTo(i, "done")
  /\ UNCHANGED <<memory, marker, tried, program, session, client, manager, ender, reaper, left>>

\* A failed attachment gives the token back unless a subscription uses it.
AfterFailure(i) == IF main = "boot" THEN "failed" ELSE "mark"
Revoked(i) == token' = [token EXCEPT ![i] = @ /\ Subscribed(i)]

\* startModelClient and the first locked part of Manager.Attach
AttachBegin(i) ==
  /\ add[i] = "begin"
  /\ IF stopping
     THEN AddTo(i, AfterFailure(i)) /\ UNCHANGED <<token, clients, mc>>
     ELSE /\ token' = [token EXCEPT ![i] = TRUE]
          /\ clients' = clients \cup {i}
          /\ mc' = [mc EXCEPT ![i] = "new"]
          /\ AddTo(i, "subscribe")
  /\ UNCHANGED <<stored, program, handle, sub, active, loop, pending, drain, joining, ender,
                 reaper, left>>

\* ModelClient.Attach up to the subscription; the identity is free, the token valid.
AttachSubscribe(i) ==
  /\ add[i] = "subscribe"
  /\ \/ /\ mc[i] = "new" /\ ~shuttingDown
        /\ mc' = [mc EXCEPT ![i] = "subscribed"]
        /\ sub' = [sub EXCEPT ![i] = "open"]
        /\ handle' = [handle EXCEPT ![i] = TRUE]
        /\ active' = [active EXCEPT ![i] = TRUE]
        /\ loop' = [loop EXCEPT ![i] = "running"]
        /\ AddTo(i, "load")
     \/ AddTo(i, "refused") /\ UNCHANGED <<mc, sub, handle, active, loop>>
  /\ UNCHANGED <<stored, program, token, manager, ender, reaper, left>>

\* loadHistory: a failure ends the client here, and waits for its goroutine,
\* which had not begun to dispatch.
AttachLoad(i) ==
  /\ add[i] = "load"
  /\ IF mc[i] = "released"
     THEN AddTo(i, "refused") /\ UNCHANGED <<mc, loop, sub, handle, token>>
     ELSE \/ AddTo(i, "settle") /\ UNCHANGED <<mc, loop, sub, handle, token>>
          \/ /\ Released(i)
             /\ loop' = [loop EXCEPT ![i] = "ended"]
             /\ AddTo(i, "refused")
  /\ UNCHANGED <<stored, program, active, manager, ender, reaper, left>>

\* The second locked part of Manager.Attach.
AttachSettle(i) ==
  /\ add[i] \in {"settle", "refused"}
  /\ IF ~stopping /\ i \in clients /\ add[i] = "refused"
     THEN /\ clients' = clients \ {i}
          /\ pending' = pending \ {i}
          /\ AddTo(i, IF i \in pending THEN "forget" ELSE AfterFailure(i))
          /\ (IF i \in pending THEN UNCHANGED token ELSE Revoked(i))
     ELSE /\ UNCHANGED <<clients, pending>>
          /\ IF stopping \/ i \notin clients
             THEN AddTo(i, AfterFailure(i)) /\ Revoked(i)
             ELSE AddTo(i, IF main = "boot" THEN "done" ELSE "admit") /\ UNCHANGED token
  /\ UNCHANGED <<stored, program, handle, sub, active, client, drain, joining, ender, reaper, left>>

AttachForget(i) ==
  /\ add[i] = "forget" /\ Forgotten(i)
  /\ AddTo(i, AfterFailure(i)) /\ Revoked(i)
  /\ UNCHANGED <<row, program, handle, sub, active, client, manager, ender, reaper, left>>

\* admitModelAs on the loop, or any of its refusals
AddAdmit(i) ==
  /\ add[i] = "admit"
  /\ \/ active[i] /\ AddTo(i, "done")
     \/ AddTo(i, "mark")
  /\ UNCHANGED <<stored, program, session, client, manager, ender, reaper, left>>

\* discardModel, up to the mark
DiscardMark(i) ==
  /\ add[i] = "mark"
  /\ active' = [active EXCEPT ![i] = @ /\ ~handle[i]]
  /\ \/ row' = [row EXCEPT ![i] = IF @ = "live" THEN "pending" ELSE @]
     \/ UNCHANGED row
  /\ AddTo(i, "remove")
  /\ UNCHANGED <<memory, marker, tried, program, token, handle, sub, client, manager, ender, reaper, left>>

\* Its job on the loop; a failure marks the row again.
DiscardRemove(i) ==
  /\ add[i] = "remove"
  /\ \/ RowGone(i) /\ AddTo(i, "tell")
     \/ /\ row' = [row EXCEPT ![i] = IF @ = "live" THEN "pending" ELSE @]
        /\ UNCHANGED <<memory, marker, tried>> /\ AddTo(i, "take")
     \/ UNCHANGED stored /\ AddTo(i, "take")
  /\ UNCHANGED <<program, session, client, manager, ender, reaper, left>>

DiscardTell(i) ==
  /\ add[i] = "tell" /\ Deleted(i)
  /\ AddTo(i, IF ForgetNow(i) THEN "drop" ELSE "take")
  /\ UNCHANGED <<stored, program, session, client, clients, joining, ender, reaper, left>>

DiscardForget(i) ==
  /\ add[i] = "drop" /\ Forgotten(i) /\ AddTo(i, "take")
  /\ UNCHANGED <<row, program, session, client, manager, ender, reaper, left>>

\* reapDeadModelConnection: take, detach, release and reap
DiscardTake(i) ==
  /\ add[i] = "take"
  /\ IF ~handle[i]
     THEN UNCHANGED <<token, handle, sub, mc, clients, pending, drain>>
     ELSE /\ Detached(i)
          /\ sub' = [sub EXCEPT ![i] = "closed"]
          /\ handle' = [handle EXCEPT ![i] = FALSE] /\ token' = [token EXCEPT ![i] = FALSE]
          /\ mc' = [mc EXCEPT ![i] = "released"]
  /\ AddTo(i, "done")
  /\ UNCHANGED <<stored, program, active, loop, joining, ender, reaper, left>>
---------------------------------------------------------------------------
(* KILL, QUIT and server disconnects: a handler and the reaper it leaves. *)

EndTo(i, pc) == ender' = [ender EXCEPT ![i] = pc]

\* The forced quit on the loop: the row goes, is marked, or stays.
EndCommit(i) ==
  /\ main \in {"boot", "running", "leaving"} /\ ender[i] \in Idle
  /\ active[i] /\ handle[i]
  /\ left.ends > 0 /\ left' = [left EXCEPT !.ends = @ - 1]
  /\ active' = [active EXCEPT ![i] = FALSE]
  /\ \/ RowGone(i) /\ EndTo(i, "tell")
     \/ /\ row' = [row EXCEPT ![i] = IF @ = "live" THEN "pending" ELSE @]
        /\ UNCHANGED <<memory, marker, tried>> /\ EndTo(i, "take")
  /\ UNCHANGED <<program, token, handle, sub, client, manager, add, reaper>>

EndTell(i) ==
  /\ ender[i] = "tell" /\ Deleted(i)
  /\ EndTo(i, IF ForgetNow(i) THEN "drop" ELSE "take")
  /\ UNCHANGED <<stored, program, session, client, clients, joining, add, reaper, left>>

EndForget(i) ==
  /\ ender[i] = "drop" /\ Forgotten(i) /\ EndTo(i, "take")
  /\ UNCHANGED <<row, program, session, client, manager, add, reaper, left>>

\* reapModelConnection: the handler leaves the draining to a reaper.
EndTake(i) ==
  /\ ender[i] = "take" /\ EndTo(i, "done")
  /\ Taken(i, "draining")
  /\ reaper' = [reaper EXCEPT ![i] = IF handle[i] THEN "drained" ELSE @]
  /\ UNCHANGED <<stored, program, active, client, manager, add, left>>

\* Its reaper: the queue is read out, or the pump stops with the session.
ReaperDetach(i) ==
  /\ reaper[i] = "drained" /\ Detached(i)
  /\ reaper' = [reaper EXCEPT ![i] = "reap"]
  /\ (IF i \in clients THEN Released(i) ELSE UNCHANGED <<mc, sub, handle, token>>)
  /\ UNCHANGED <<stored, program, active, loop, joining, handlers, left>>

ReaperReap(i) ==
  /\ reaper[i] = "reap" /\ Reaped(i)
  /\ reaper' = [reaper EXCEPT ![i] = "none"]
  /\ UNCHANGED <<stored, program, active, client, manager, handlers, left>>
---------------------------------------------------------------------------
(* The client's goroutines and the drains that wait for them. *)

\* A turn's tools remember something; what is in flight when it is cancelled too.
Remember(i) ==
  /\ loop[i] = "running" /\ add[i] # "load" /\ main # "closed"
  /\ memory' = [memory EXCEPT ![i] = TRUE]
  /\ UNCHANGED <<row, marker, tried, program, session, client, manager, handlers, reaper, left>>

LoopEnds(i) ==
  /\ loop[i] = "running" /\ mc[i] = "released" /\ add[i] # "load"
  /\ loop' = [loop EXCEPT ![i] = "ended"]
  /\ UNCHANGED <<stored, program, session, mc, manager, handlers, reaper, left>>

DrainTo(i, d) == drain' = [drain EXCEPT ![i] = d]

\* finishDrain, when ModelClient.Wait has returned
FinishDrain(i) ==
  /\ drain[i].pc = "waiting" /\ loop[i] # "running"
  /\ IF drain[i].forget /\ ~drain[i].abandoned
     THEN DrainTo(i, [drain[i] EXCEPT !.pc = "forgetting"]) /\ UNCHANGED joining
     ELSE DrainTo(i, NoDrain) /\ joining' = joining \ {i}
  /\ UNCHANGED <<stored, program, session, client, clients, pending, handlers, reaper, left>>

DrainForget(i) ==
  /\ drain[i].pc = "forgetting" /\ Forgotten(i)
  /\ DrainTo(i, [drain[i] EXCEPT !.pc = "forgotten"])
  /\ UNCHANGED <<row, program, session, client, clients, pending, joining, handlers, reaper, left>>

DrainEnds(i) ==
  /\ drain[i].pc = "forgotten" /\ DrainTo(i, NoDrain)
  /\ joining' = joining \ {i}
  /\ UNCHANGED <<stored, program, session, client, clients, pending, handlers, reaper, left>>
---------------------------------------------------------------------------
(* The way out. *)

\* p.Run returns and cancelApp follows.
Leave ==
  /\ main = "running" /\ main' = "leaving"
  /\ UNCHANGED <<stored, late, session, client, manager, handlers, reaper, left>>

\* The drain's deadline passes, in any of its phases.
Deadline ==
  /\ Leaving /\ ~late /\ late' = TRUE
  /\ UNCHANGED <<stored, main, session, client, manager, handlers, reaper, left>>

\* DrainHandlers closes admission and the session's shuttingDown channel, ...
DrainHandlers ==
  /\ main = "leaving" /\ main' = "draining"
  /\ UNCHANGED <<stored, late, session, client, manager, handlers, reaper, left>>

HandlersDone == \A i \in Ids : add[i] \in Idle /\ ender[i] \in Idle

\* ... waits for the handlers or the deadline; then DetachAll releases everyone.
StartedDrains == clients
Drains == clients \cup {i \in Ids : drain[i].pc # "none" /\ ~drain[i].abandoned}
DetachAll ==
  /\ main = "draining" /\ (HandlersDone \/ late)
  /\ main' = "releasing"
  /\ joining' = Drains
  /\ drain' = [i \in Ids |-> IF i \in clients THEN Waiting(i \in pending) ELSE drain[i]]
  /\ clients' = {} /\ pending' = {}
  /\ mc' = [i \in Ids |-> IF i \in clients THEN "released" ELSE mc[i]]
  /\ LET unsubscribed == {i \in clients : mc[i] = "subscribed"} IN
     /\ sub' = [i \in Ids |-> IF i \in unsubscribed /\ Subscribed(i) THEN "closed" ELSE sub[i]]
     /\ handle' = [i \in Ids |-> handle[i] /\ i \notin unsubscribed]
     /\ token' = [i \in Ids |-> token[i] /\ i \notin unsubscribed]
  /\ \E done \in SUBSET (pending \ clients) :
       /\ memory' = [i \in Ids |-> memory[i] /\ i \notin done]
       /\ marker' = [i \in Ids |-> marker[i] /\ i \notin done]
       /\ tried' = tried \cup (pending \ clients)
  /\ UNCHANGED <<row, late, active, loop, handlers, reaper, left>>

\* It joins them, or abandons those that are left; then the lifecycle is cancelled.
JoinedAll == joining = {}
JoinedOrLate == joining = {} \/ late
Joined ==
  /\ main = "releasing" /\ JoinedOrLate
  /\ main' = "closing"
  /\ drain' = [i \in Ids |-> IF i \in joining THEN [drain[i] EXCEPT !.abandoned = TRUE] ELSE drain[i]]
  /\ joining' = {}
  /\ UNCHANGED <<stored, late, session, client, clients, pending, handlers, reaper, left>>

\* Session.Shutdown: handlers again, reapers, pumps; then main closes the store.
ReapersDone == \A i \in Ids : reaper[i] = "none" /\ ~Subscribed(i)
Close ==
  /\ main = "closing" /\ (late \/ (HandlersDone /\ ReapersDone))
  /\ main' = "closed"
  /\ UNCHANGED <<stored, late, session, client, manager, handlers, reaper, left>>

\* A stop at any point, or a new start after the end: only the store is left.
Restart ==
  /\ main # "start"
  /\ left.restarts > 0 /\ left' = [left EXCEPT !.restarts = @ - 1]
  /\ main' = "start" /\ late' = FALSE
  /\ token' = [i \in Ids |-> FALSE] /\ handle' = token' /\ active' = token'
  /\ sub' = [i \in Ids |-> "none"] /\ mc' = sub' /\ loop' = sub'
  /\ clients' = {} /\ pending' = {} /\ joining' = {}
  /\ drain' = [i \in Ids |-> NoDrain]
  /\ add' = sub' /\ ender' = sub' /\ reaper' = sub'
  /\ UNCHANGED stored

Init ==
  /\ row = [i \in Ids |-> IF i \in Stored THEN "live" ELSE "none"]
  /\ memory = [i \in Ids |-> FALSE] /\ marker = memory
  /\ tried = {} /\ main = "start" /\ late = FALSE
  /\ token = memory /\ handle = memory /\ active = memory
  /\ sub = [i \in Ids |-> "none"] /\ mc = sub /\ loop = sub
  /\ clients = {} /\ pending = {} /\ joining = {}
  /\ drain = [i \in Ids |-> NoDrain]
  /\ add = sub /\ ender = sub /\ reaper = sub
  /\ left = [ends |-> MaxEnds, restarts |-> MaxRestarts]

Adding(i) ==
  \/ AttachBegin(i) \/ AttachSubscribe(i) \/ AttachLoad(i) \/ AttachSettle(i) \/ AttachForget(i)
  \/ AddAdmit(i) \/ DiscardMark(i) \/ DiscardRemove(i) \/ DiscardTell(i) \/ DiscardForget(i)
  \/ DiscardTake(i)
Ending(i) == EndTell(i) \/ EndForget(i) \/ EndTake(i)
Reaping(i) == ReaperDetach(i) \/ ReaperReap(i)
Draining(i) == FinishDrain(i) \/ DrainForget(i) \/ DrainEnds(i)
WayOut == DrainHandlers \/ DetachAll \/ Joined \/ Close

Next ==
  \/ Start \/ Booted \/ Leave \/ Deadline \/ WayOut \/ Restart
  \/ \E i \in Ids : \/ AddModel(i) \/ Adding(i) \/ EndCommit(i) \/ Ending(i) \/ Reaping(i)
                    \/ Remember(i) \/ LoopEnds(i) \/ Draining(i)

\* The deadline comes, and main's goroutine goes on when it can. Nothing is
\* assumed of handlers, drains or providers.
Fairness == WF_vars(WayOut) /\ WF_vars(Deadline)
Spec == Init /\ [][Next]_vars /\ Fairness
---------------------------------------------------------------------------
(* Properties *)

(* When every wait of the way out ended before its deadline, nothing of the
   program is left that could use the store main closes: no handler, reaper,
   drain, clean-up, dispatch goroutine or subscription (main.go's account of its
   shutdown). *)
QuietAtClose ==
  main = "closed" /\ ~late =>
    \A i \in Ids : /\ add[i] \in Idle /\ ender[i] \in Idle /\ reaper[i] = "none"
                   /\ drain[i].pc = "none" /\ loop[i] # "running" /\ ~Subscribed(i)

(* A deleted instance whose memories are still there has the row that makes the
   next start remove them: no turn that was still running writes new ones after
   the clean-up, wherever the program stops. *)
CleanUpDue == \A i \in Ids : row[i] = "gone" /\ memory[i] => marker[i]

Settled(i) ==
  /\ add[i] \in Idle /\ ender[i] \in Idle /\ reaper[i] = "none"
  /\ i \notin clients /\ drain[i].pc = "none"

(* The clean-up of a deleted instance is not lost on its way from the deletion to
   the goroutine that ends the client, whichever of attachment, disposal, KILL,
   reaper and DetachAll overtake one another: while the program runs, memories
   are left only of an instance whose clean-up was tried. *)
CleanUpTried ==
  (Serving \/ Leaving) /\ ~late =>
    \A i \in Ids : row[i] = "gone" /\ memory[i] /\ Settled(i) => i \in tried

(* The memories of a deleted instance are not kept: while the program runs, its
   clean-up was tried, and wherever it stops, the next start will try it
   (Manager.InstanceDeleted, Manager.Forget). *)
CleanUpKept == CleanUpDue /\ CleanUpTried

(* The program ends: nothing on the way out waits past the deadline, not even for
   a provider that never answers. *)
ClosesInTime == main = "leaving" ~> main \in {"closed", "start"}
=============================================================================
