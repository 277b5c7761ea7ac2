----------------------------- MODULE Reflection -----------------------------
(* The reflection of one model instance (src/internal/modelmanager): a worker
   reads a snapshot of the inbox and the persona, asks the provider for a
   proposal, validates it, looks at the mode again and commits it against what
   the snapshot saw. Meanwhile events arrive, an operator moves the persona,
   retention prunes it, the mode is switched off and on, which retires a
   scheduler with its workers still running, and the instance is deleted.

   A worker's slot stands for its goroutine and for its `finished` channel: a
   wait for the worker in a slot ends when the slot is emptied. Time is left
   out: a cooldown ends when Timer says so. *)
EXTENDS Persona

CONSTANTS
  Schedulers,   \* reflectionScheduler values, in the order of their making
  Workers,      \* slots for their goroutines
  Modes,        \* the modes an operator sets, among "disabled", "shadow", "active"
  Threshold,    \* reflectionSubstantiveThreshold
  Cap,          \* maxActivePersonaAmendments
  MaxSwitches,  \* bound: commands that set the mode
  MaxFaults,    \* bound: failed index writes
  MaxCommands   \* bound: the operator's persona commands

ASSUME ReflectionAssumption ==
  /\ Schedulers \in Seq(Range(Schedulers)) /\ Schedulers # <<>>
  /\ None \notin Workers \cup Range(Schedulers)

VARIABLES
  mode,        \* Manager.reflectionMode
  current,     \* Manager.reflections
  made,        \* the schedulers made so far
  retiring,    \* Manager.retiringReflections
  stopping,    \* the schedulers whose stop has begun
  tracked,     \* reflectionScheduler.workers: scheduler -> slot
  forgotten,   \* reflectionScheduler.forgotten: scheduler -> slot
  worker,      \* the goroutines
  told,        \* appended events whose notify is still to come
  waking,      \* scheduler -> wakeStoredInstances calls about to notify it
  halting,     \* "disabled" commands between the mode and stopReflections
  command,     \* the operator's persona command between its two transactions
  index,       \* the semantic index: document id -> the experience it describes
  cleanup,     \* how far the deletion of the instance has come
  awaited,     \* the workers that clean-up still waits for
  marker,      \* a row of pending_memory_deletions
  left,        \* bounds: what is left of switches, faults and commands
  overtaken    \* history: "late" when clean-up stopped waiting, "lost" when a second
               \* worker's finish signal took the place of the first one's

schedulers == <<mode, current, made, retiring, stopping>>
goroutines == <<tracked, forgotten, worker>>
deletion == <<cleanup, awaited, marker, overtaken>>
commands == <<waking, halting, command>>
vars == <<store, schedulers, goroutines, told, commands, index, deletion, left>>

Spends(what) == left[what] > 0 /\ left' = [left EXCEPT ![what] = @ - 1]

\* f over g (TLC's @@, which the proof system cannot expand)
Over(f, g) ==
  [x \in DOMAIN f \cup DOMAIN g |-> IF x \in DOMAIN f THEN f[x] ELSE g[x]]

Idle == [pc |-> "none"]
At(w, pc) == worker[w].pc = pc
Running(w) == worker[w].pc # "none"
---------------------------------------------------------------------------
(* Wake-ups. *)

Fresh(s) ==
  [pc |-> "read", sched |-> s, cancelled |-> FALSE, woken |-> TRUE, rested |-> FALSE]

\* notify: starts the worker when there is none; a stopping scheduler ignores it.
Notified(s) ==
  IF s = None \/ s \in stopping THEN UNCHANGED goroutines
  ELSE IF tracked[s] # None
       THEN /\ worker' = [worker EXCEPT ![tracked[s]].woken = TRUE]
            /\ UNCHANGED <<tracked, forgotten>>
       ELSE \E w \in Workers :
              /\ ~Running(w)
              /\ tracked' = [tracked EXCEPT ![s] = w]
              /\ worker' = [worker EXCEPT ![w] = Fresh(s)]
              /\ UNCHANGED forgotten

Observe(gap) ==
  /\ AppendEvent(gap) /\ told' = TRUE
  /\ UNCHANGED <<schedulers, goroutines, commands, index, deletion, left>>

\* AppendReflectionEvents reads the scheduler after its transaction.
Notify ==
  /\ told /\ told' = FALSE
  /\ Notified(current)
  /\ UNCHANGED <<store, schedulers, commands, index, deletion, left>>

\* wakeStoredInstances, after it listed the instance.
Wake(s) ==
  /\ waking[s] > 0 /\ waking' = [waking EXCEPT ![s] = @ - 1]
  /\ Notified(s)
  /\ UNCHANGED <<store, schedulers, told, halting, command, index, deletion, left>>
---------------------------------------------------------------------------
(* SetReflectionMode. Every command that sets the mode is a goroutine of its own
   (setReflectionModeCmd): one may set the mode between another's lines. *)

ToWakeNobody(s) == waking
ToWake(s) == IF Existing THEN [waking EXCEPT ![s] = @ + 1] ELSE waking

\* "disabled": the mode changes first, and stopReflections follows.
Disable ==
  /\ "disabled" \in Modes /\ Spends("switches")
  /\ mode' = "disabled" /\ halting' = halting + 1
  /\ UNCHANGED <<store, current, made, retiring, stopping, goroutines, told, waking,
                 command, index, deletion>>

\* Any other mode: it makes a scheduler when there is none, and wakes its workers.
Enable(m) ==
  /\ m # "disabled" /\ Spends("switches")
  /\ mode' = m
  /\ IF current # None
     THEN UNCHANGED <<current, made>>
     ELSE /\ Len(made) < Len(Schedulers)
          /\ current' = Schedulers[Len(made) + 1]
          /\ made' = Append(made, current')
  /\ waking' = ToWake(current')
  /\ UNCHANGED <<store, retiring, stopping, goroutines, told, halting, command, index, deletion>>

Cancelled(ws) ==
  [w \in Workers |-> IF w \in ws /\ Running(w) THEN [worker[w] EXCEPT !.cancelled = TRUE]
                     ELSE worker[w]]
WorkersOf(s) == {w \in Workers : Running(w) /\ worker[w].sched = s}

\* stopReflections retires the scheduler there is now, whatever the mode is by
\* then; it may give up waiting, the workers go on to their ends.
StopReflections ==
  /\ halting > 0 /\ halting' = halting - 1
  /\ current' = None
  /\ retiring' = retiring \cup ({current} \ {None})
  /\ stopping' = stopping \cup ({current} \ {None})
  /\ worker' = Cancelled(WorkersOf(current))
  /\ UNCHANGED <<store, mode, made, tracked, forgotten, told, waking, command, index,
                 deletion, left>>

\* The goroutine stopReflections leaves behind.
Drained(s) ==
  /\ s \in retiring /\ WorkersOf(s) = {}
  /\ retiring' = retiring \ {s}
  /\ UNCHANGED <<store, mode, current, made, stopping, goroutines, told, commands, index, deletion, left>>
---------------------------------------------------------------------------
(* One worker. *)

Goes(w, r) ==
  /\ worker' = [worker EXCEPT ![w] = r]
  /\ UNCHANGED <<tracked, forgotten>>

\* work returns: the entry goes if it is still this worker's, waits for it end.
Ends(w) ==
  /\ worker' = [worker EXCEPT ![w] = Idle]
  /\ tracked' = [s \in DOMAIN tracked |-> IF tracked[s] = w THEN None ELSE tracked[s]]
  /\ forgotten' = [s \in DOMAIN forgotten |-> IF forgotten[s] = w THEN None ELSE forgotten[s]]
  /\ awaited' = awaited \ {w}
  /\ UNCHANGED <<store, schedulers, told, commands, index, cleanup, marker, overtaken, left>>

Kept == UNCHANGED <<store, schedulers, told, commands, index, deletion, left>>

\* The snapshot fails for want of a lineage, or because the worker is cancelled.
GiveUp(w) ==
  /\ At(w, "read") /\ (~Existing \/ worker[w].cancelled)
  /\ Ends(w)

\* reflectionScheduleFor: a full page or a rest decide; without either it waits.
Ready(w) ==
  /\ At(w, "read") /\ Existing /\ ~worker[w].cancelled
  /\ Snapshot.substantive >= Threshold
  /\ Goes(w, Over([pc |-> "explore", snap |-> Snapshot], worker[w]))
  /\ Kept

Park(w) ==
  /\ At(w, "read") /\ Existing /\ ~worker[w].cancelled
  /\ Snapshot.substantive < Threshold
  /\ Goes(w, [worker[w] EXCEPT !.pc = "parked"])
  /\ Kept

Cool(w) ==
  /\ At(w, "read") /\ Existing /\ ~worker[w].cancelled
  /\ Snapshot.substantive >= Threshold /\ ~worker[w].rested
  /\ Goes(w, [worker[w] EXCEPT !.pc = "cooling"])
  /\ Kept

\* waitForWake and waitUntilReady
Woken(w) ==
  /\ worker[w].pc \in {"parked", "cooling"} /\ worker[w].woken
  /\ Goes(w, [worker[w] EXCEPT !.pc = "read", !.woken = FALSE])
  /\ Kept

Timer(w) ==
  /\ At(w, "cooling")
  /\ Goes(w, [worker[w] EXCEPT !.pc = "read", !.rested = TRUE])
  /\ Kept

Dismissed(w) ==
  /\ worker[w].pc \in {"parked", "cooling"} /\ worker[w].cancelled
  /\ Ends(w)

Again(w) ==
  [pc |-> "read", sched |-> worker[w].sched, cancelled |-> worker[w].cancelled,
   woken |-> worker[w].woken, rested |-> FALSE]

\* reconciledIndex: a collection with a document for every experience is healthy.
Healthy(held) == DOMAIN index = DOMAIN held
Rebuilt(held) == IF Healthy(held) THEN index ELSE held

Explore(w) ==
  /\ At(w, "explore")
  /\ \/ index' = Rebuilt(worker[w].snap.held) /\ left' = left
     \/ Spends("faults") /\ ~Healthy(worker[w].snap.held) /\ index' = <<>>
     \/ worker[w].cancelled /\ UNCHANGED <<index, left>>
  /\ Goes(w, Over([pc |-> "ask", start |-> mode], worker[w]))
  /\ UNCHANGED <<store, schedulers, told, commands, deletion>>

\* spansEpisodes: times of different episodes lie a gap apart.
SpansEpisodes(events, sources) == \E m, n \in sources : events[m] # events[n]

\* validateReflectionProposal, without its checks of texts and of participants
Valid(p, snap) ==
  LET sources == UNION {x.sources : x \in p.drafts}
      removed == Cardinality(Removed(p))
  IN
  /\ \A x \in p.drafts : x.sources # {} /\ x.sources \subseteq DOMAIN snap.events
  /\ p.amends => p.drafts # {} /\ (p.global => SpansEpisodes(snap.events, sources))
  /\ p.supersedes # None => p.amends
  /\ Removed(p) \subseteq snap.active
  /\ removed = Cardinality(p.retract) + Cardinality(p.consolidate)
               + (IF p.supersedes = None THEN 0 ELSE 1)
  /\ IF p.description = None THEN p.consolidate = {}
     ELSE p.drafts # {} /\ SpansEpisodes(snap.events, sources)
  /\ Cardinality(snap.active) - removed + (IF p.amends THEN 1 ELSE 0) <= Cap

\* What a model may propose: nothing, or one experience with what rests on it.
Drafts(snap) == {[sources |-> S, high |-> h] : S \in SUBSET DOMAIN snap.events, h \in BOOLEAN}
Proposals(snap) ==
  {p \in [drafts : {{}} \cup {{x} : x \in Drafts(snap)}, amends : BOOLEAN, global : BOOLEAN,
          supersedes : {None} \cup snap.active, retract : SUBSET snap.active,
          consolidate : SUBSET snap.active, description : {None} \cup Descriptions] :
     Valid(p, snap)}

Acceptance(p, snap, recalled) ==
  Over([base |-> snap.base, prior |-> snap.prior, high |-> snap.high, recalled |-> recalled,
        read |-> DOMAIN snap.events], p)

\* runReflection up to the second look at the mode. Refused and failed runs
\* only leave a record, and the worker reads again.
Answer(w) ==
  /\ At(w, "ask") /\ ~worker[w].cancelled
  /\ \E p \in Proposals(worker[w].snap) : \E recalled \in {{}, Cited} :
       Goes(w, Over([pc |-> "answered", start |-> worker[w].start,
                     plan |-> Acceptance(p, worker[w].snap, recalled)], Again(w)))
  /\ Kept

Fail(w) ==
  /\ worker[w].pc \in {"ask", "commit"}
  /\ Goes(w, Again(w))
  /\ Kept

Decide(w) ==
  /\ At(w, "answered")
  /\ IF worker[w].start = "active" /\ mode = "active"
     THEN Goes(w, [worker[w] EXCEPT !.pc = "commit"])
     ELSE Goes(w, Again(w))
  /\ Kept

\* A commit whose transaction began before the cancellation may still succeed.
Accept(w) ==
  /\ At(w, "commit")
  /\ Commit(worker[w].plan)
  /\ Goes(w, Over([pc |-> "index", held |-> [e \in revisions'[lineage'.current].experiences |->
                                               experiences'[e].born]], Again(w)))
  /\ UNCHANGED <<schedulers, told, commands, index, deletion, left>>

Stale(w) ==
  /\ At(w, "commit") /\ Loses(worker[w].plan)
  /\ Goes(w, Again(w))
  /\ Kept

\* indexExperiences, best effort: AddDocuments adds or replaces.
Index(w) ==
  /\ At(w, "index")
  /\ \/ index' = Over(worker[w].held, index) /\ left' = left
     \/ worker[w].cancelled /\ UNCHANGED <<index, left>>
     \/ Spends("faults") /\ UNCHANGED index
  /\ Goes(w, Again(w))
  /\ UNCHANGED <<store, schedulers, told, commands, deletion>>
---------------------------------------------------------------------------
(* The operator, retention, and the deletion of the instance. *)

Command(kind) ==
  /\ Existing /\ command = None /\ Spends("commands")
  /\ command' = [kind |-> kind, expected |-> lineage.current]
  /\ UNCHANGED <<store, schedulers, goroutines, told, waking, halting, index, deletion>>

Execute ==
  /\ command # None /\ command' = None
  /\ \/ command.kind = "reset" /\ ResetPersona(command.expected)
     \/ Existing /\ command.kind = "rollback"
        /\ \E r \in DOMAIN revisions : RollbackPersona(command.expected, r)
     \/ command.kind = "describe"
        /\ \E d \in Descriptions : WritePersonaDescription(command.expected, d)
     \/ (Existing => lineage.current # command.expected) /\ UNCHANGED store
  /\ UNCHANGED <<schedulers, goroutines, told, waking, halting, index, deletion, left>>

Retain ==
  /\ PruneExperiences \/ PruneTransitions
  /\ UNCHANGED <<schedulers, goroutines, told, commands, index, deletion, left>>

Delete ==
  /\ cleanup = "none" /\ DeleteRows
  /\ cleanup' = "deleted" /\ marker' = TRUE
  /\ UNCHANGED <<schedulers, goroutines, told, commands, index, awaited, overtaken, left>>

\* forget, on every scheduler the manager knows
Known == retiring \cup ({current} \ {None})
Watched == {s \in Known : tracked[s] # None}
Forget ==
  /\ worker' = Cancelled({tracked[s] : s \in Watched})
  /\ tracked' = [s \in DOMAIN tracked |-> IF s \in Known THEN None ELSE tracked[s]]
  /\ forgotten' = [s \in DOMAIN forgotten |-> IF s \in Watched THEN tracked[s] ELSE forgotten[s]]

InstanceDeleted ==
  /\ cleanup = "deleted" /\ cleanup' = "draining"
  /\ Forget
  /\ UNCHANGED <<store, schedulers, told, commands, index, awaited, marker, overtaken, left>>

\* Manager.Forget, once the client's dispatch loop has ended
ManagerForget ==
  /\ cleanup = "draining" /\ cleanup' = "forgetting"
  /\ Forget
  /\ overtaken' = IF \E s \in Watched : forgotten[s] # None THEN "lost" ELSE overtaken
  /\ UNCHANGED <<store, schedulers, told, commands, index, awaited, marker, left>>

AwaitedNever == {}
Awaited == {forgotten[s] : s \in Known} \ {None}

AwaitForgotten ==
  /\ cleanup = "forgetting" /\ cleanup' = "awaiting"
  /\ awaited' = Awaited
  /\ forgotten' = [s \in DOMAIN forgotten |-> IF s \in Known THEN None ELSE forgotten[s]]
  /\ UNCHANGED <<store, schedulers, tracked, worker, told, commands, index, marker,
                 overtaken, left>>

\* finishMemoryDeletion, when the workers have ended or the deadline has passed
FinishMemoryDeletion(late) ==
  /\ cleanup = "awaiting" /\ cleanup' = "done"
  /\ late = (awaited # {})
  /\ overtaken' = IF late THEN "late" ELSE overtaken
  /\ awaited' = {} /\ marker' = FALSE /\ index' = <<>>
  /\ UNCHANGED <<store, schedulers, goroutines, told, commands, left>>

Init ==
  /\ PersonaInit
  /\ mode = "active" /\ made = SubSeq(Schedulers, 1, 1) /\ current = Schedulers[1]
  /\ retiring = {} /\ stopping = {} /\ left = [switches |-> MaxSwitches, faults |-> MaxFaults, commands |-> MaxCommands]
  /\ tracked = [s \in Range(Schedulers) |-> None] /\ forgotten = tracked
  /\ worker = [w \in Workers |-> Idle]
  /\ told = FALSE /\ waking = [s \in Range(Schedulers) |-> 0] /\ halting = 0 /\ command = None /\ index = <<>>
  /\ cleanup = "none" /\ awaited = {} /\ marker = FALSE /\ overtaken = "no"

Work(w) ==
  \/ GiveUp(w) \/ Ready(w) \/ Park(w) \/ Cool(w) \/ Woken(w) \/ Timer(w) \/ Dismissed(w)
  \/ Explore(w) \/ Answer(w) \/ Fail(w) \/ Decide(w) \/ Accept(w) \/ Stale(w) \/ Index(w)

Next ==
  \/ \E gap \in {0, 1} : Observe(gap)
  \/ Notify \/ Disable \/ StopReflections \/ Retain \/ Execute
  \/ \E m \in Modes : Enable(m)
  \/ \E s \in Range(Schedulers) : Wake(s) \/ Drained(s)
  \/ \E w \in Workers : Work(w)
  \/ \E kind \in {"reset", "rollback", "describe"} : Command(kind)
  \/ Delete \/ InstanceDeleted \/ ManagerForget \/ AwaitForgotten
  \/ \E late \in BOOLEAN : FinishMemoryDeletion(late)

\* The goroutines run; an appended event is told; nothing is assumed of the
\* operator, of retention, or of how long the clean-up waits.
Fairness ==
  /\ \A w \in Workers : WF_vars(Work(w))
  /\ \A s \in Range(Schedulers) : WF_vars(Wake(s))
  /\ WF_vars(Notify) /\ WF_vars(StopReflections)
Spec == Init /\ [][Next]_vars /\ Fairness
---------------------------------------------------------------------------
Backlog ==
  Existing /\ mode = "active" /\ current # None /\ Cardinality(Pending) >= Threshold
InARun == \E w \in Workers : worker[w].pc \in {"explore", "ask", "answered", "commit", "index"}
\* Enough unread events do not lie there for ever while a scheduler is up: a
\* worker comes to run a reflection on them, unless the mode, the scheduler or
\* the instance goes away first.
BacklogAttempted == Backlog ~> InARun \/ ~Backlog
=============================================================================
