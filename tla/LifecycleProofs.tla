-------------------------- MODULE LifecycleProofs --------------------------
(* Theorems about Lifecycle, for any set of instances, any number of restarts and
   of handlers that end a client: a way out whose waits all ended leaves nothing
   running, and the clean-up of a deleted instance's memories is never lost. *)
EXTENDS Lifecycle, TLAPS

Rows == {"none", "live", "pending", "gone"}
Mains == {"start", "boot", "running", "leaving", "draining", "releasing", "closing", "closed"}
Subs == {"none", "open", "draining", "closed"}
Loops == {"none", "running", "ended"}
Drainings == [pc : {"none", "waiting", "forgetting", "forgotten"}, forget : BOOLEAN, abandoned : BOOLEAN]
Adds ==
  {"none", "begin", "subscribe", "load", "settle", "refused", "forget", "admit",
   "mark", "remove", "tell", "drop", "take", "done", "failed"}
Enders == {"none", "tell", "drop", "take", "done"}
Reapers == {"none", "drained", "reap"}

StoreType ==
  /\ row \in [Ids -> Rows] /\ memory \in [Ids -> BOOLEAN] /\ marker \in [Ids -> BOOLEAN]
  /\ tried \subseteq Ids
  /\ main \in Mains /\ late \in BOOLEAN

SessionType ==
  /\ token \in [Ids -> BOOLEAN] /\ handle \in [Ids -> BOOLEAN]
  /\ sub \in [Ids -> Subs] /\ active \in [Ids -> BOOLEAN]

ClientType ==
  /\ mc \in [Ids -> {"none", "new", "subscribed", "released"}] /\ loop \in [Ids -> Loops]
  /\ clients \subseteq Ids /\ pending \subseteq clients /\ joining \subseteq Ids
  /\ drain \in [Ids -> Drainings]

HandlerType ==
  /\ add \in [Ids -> Adds] /\ ender \in [Ids -> Enders] /\ reaper \in [Ids -> Reapers]

TypeOK == StoreType /\ SessionType /\ ClientType /\ HandlerType

\* Nothing of an instance is attached before its attachment begins, of which a
\* start of the program has one.
Ahead(i) ==
  /\ add[i] \in {"none", "begin"} => i \notin clients /\ mc[i] = "none"
  /\ add[i] \in {"begin", "subscribe"} => row[i] = "live"
  /\ add[i] \in {"none", "begin", "subscribe"} =>
       /\ loop[i] = "none" /\ sub[i] = "none" /\ ender[i] = "none" /\ reaper[i] = "none"
       /\ ~handle[i] /\ ~active[i]

\* A client runs its loop while the manager has it or drains it: it is released
\* where it is detached, or was refused and its loop has ended.
Owned(i) ==
  /\ i \in clients => drain[i].pc = "none"
  /\ add[i] \in {"none", "begin"} => drain[i].pc = "none"
  /\ add[i] = "subscribe" /\ mc[i] = "new" => i \in clients
  /\ loop[i] = "running" => i \in clients \/ drain[i].pc = "waiting"
  /\ i \in clients /\ mc[i] = "released" => add[i] = "refused"
  /\ i \in clients /\ add[i] = "refused" => loop[i] # "running"

\* The way out: nobody is attached after DetachAll (only a start that failed leaves
\* at once), which joins every drain, and those it gives up at the deadline go on.
WayOutRight(i) ==
  /\ stopping /\ i \in clients => main = "closed" /\ late /\ add[i] \in {"none", "done", "failed"}
  /\ main = "releasing" /\ drain[i].pc # "none" => i \in joining
  /\ main \in {"closing", "closed"} /\ ~late => drain[i].pc = "none"
  /\ main = "closed" /\ ~late =>
       /\ add[i] \in Idle /\ ender[i] \in Idle /\ reaper[i] = "none" /\ ~Subscribed(i)
  /\ drain[i].abandoned => late /\ main \in {"closing", "closed"}
  /\ main = "start" => add[i] = "none"
  /\ main \in {"start", "boot"} => ~late

\* Memories are removed, and their marker with them, when the loop that could
\* write new ones has ended.
Cleaned(i) ==
  /\ add[i] \in {"forget", "drop"} \/ ender[i] = "drop" \/ drain[i].pc \in {"forgetting", "forgotten"}
       => loop[i] # "running"
  /\ row[i] = "gone" /\ (memory[i] \/ loop[i] = "running") => marker[i]

\* Who still has to clean up after the deletion of an instance.
Owing(i) ==
  \/ add[i] \in {"tell", "drop", "forget"}
  \/ ender[i] \in {"tell", "drop"}
  \/ i \in pending
  \/ drain[i].pc = "waiting" /\ drain[i].forget
  \/ drain[i].pc = "forgetting"

Accounted(i) ==
  /\ row[i] = "gone" => marker[i] \/ i \in tried
  /\ drain[i].pc = "forgotten" => i \in tried
  /\ Started /\ ~late /\ row[i] = "gone" => i \in tried \/ Owing(i)

Right(i) == Ahead(i) /\ Owned(i) /\ WayOutRight(i) /\ Cleaned(i) /\ Accounted(i)
Inv == TypeOK /\ \A i \in Ids : Right(i)

---------------------------------------------------------------------------
(* A step about one instance leaves the others alone. *)
Apart(j) ==
  /\ row'[j] = row[j] /\ memory'[j] = memory[j] /\ marker'[j] = marker[j]
  /\ handle'[j] = handle[j] /\ sub'[j] = sub[j] /\ active'[j] = active[j]
  /\ mc'[j] = mc[j] /\ loop'[j] = loop[j] /\ drain'[j] = drain[j]
  /\ add'[j] = add[j] /\ ender'[j] = ender[j] /\ reaper'[j] = reaper[j]
  /\ j \in clients' <=> j \in clients
  /\ j \in pending' <=> j \in pending
  /\ j \in joining => j \in joining'
  /\ j \in tried => j \in tried'

LEMMA ApartKeeps ==
  ASSUME NEW j \in Ids, Right(j), Apart(j), UNCHANGED <<main, late>>
  PROVE  Right(j)'
<1>1. Ahead(j)'
  BY DEF Right, Ahead, Apart
<1>2. Owned(j)'
  BY DEF Right, Owned, Apart
<1>3. WayOutRight(j)'
  BY DEF Right, WayOutRight, Apart, stopping, Subscribed
<1>4. Cleaned(j)'
  BY DEF Right, Cleaned, Apart
<1>5. Accounted(j)'
  BY DEF Right, Accounted, Owing, Apart, Started, Serving, Leaving
<1>. QED BY <1>1, <1>2, <1>3, <1>4, <1>5 DEF Right

LEMMA OneMoves ==
  ASSUME Inv, NEW i \in Ids, TypeOK', UNCHANGED <<main, late>>, Right(i)',
         \A j \in Ids \ {i} : Apart(j)
  PROVE  Inv'
<1>1. \A j \in Ids \ {i} : Right(j)'
  BY ApartKeeps DEF Inv
<1>. QED BY <1>1 DEF Inv
---------------------------------------------------------------------------
(* detach and finishDrain, on the manager's maps. *)
LEMMA WaitingIsOne ==
  \A forget \in BOOLEAN : /\ Waiting(forget) \in Drainings
                          /\ Waiting(forget).pc = "waiting"
                          /\ Waiting(forget).forget = forget
                          /\ ~Waiting(forget).abandoned
BY DEF Waiting, Drainings

LEMMA MovedOn ==
  ASSUME NEW d \in Drainings, NEW pc \in {"forgetting", "forgotten"}
  PROVE  /\ [d EXCEPT !.pc = pc] \in Drainings
         /\ [d EXCEPT !.pc = pc].pc = pc
         /\ [d EXCEPT !.pc = pc].abandoned = d.abandoned
BY DEF Drainings

LEMMA DetachedDrains ==
  ASSUME Inv, NEW i \in Ids, Detached(i)
  PROVE  /\ drain' \in [Ids -> Drainings]
         /\ \A j \in Ids \ {i} : drain'[j] = drain[j]
         /\ clients' = clients \ {i} /\ pending' = pending \ {i}
         /\ i \in clients => /\ drain'[i].pc = "waiting"
                             /\ ~drain'[i].abandoned
                             /\ drain'[i].forget <=> i \in pending
         /\ i \notin clients => /\ drain'[i].pc = drain[i].pc
                                /\ drain'[i].abandoned = drain[i].abandoned
                                /\ drain[i].forget => drain'[i].forget
<1>1. CASE i \in clients
  <2> DEFINE forget == Owed(i)
  <2>1. /\ drain' = [drain EXCEPT ![i] = Waiting(forget)]
        /\ clients' = clients \ {i} /\ pending' = pending \ {i}
    BY <1>1 DEF Detached
  <2>2. forget \in BOOLEAN /\ (forget <=> i \in pending)
    BY DEF Owed
  <2>. HIDE DEF forget
  <2>3. Waiting(forget) \in Drainings
    BY <2>2, WaitingIsOne
  <2>4. /\ drain' \in [Ids -> Drainings]
        /\ \A j \in Ids \ {i} : drain'[j] = drain[j]
        /\ drain'[i] = Waiting(forget)
    BY <2>1, <2>3 DEF Inv, TypeOK, ClientType
  <2>5. drain'[i].pc = "waiting" /\ ~drain'[i].abandoned /\ (drain'[i].forget <=> i \in pending)
    BY <2>2, <2>4, WaitingIsOne
  <2>. QED BY <1>1, <2>1, <2>4, <2>5
<1>2. CASE i \notin clients
  <2> DEFINE forget == drain[i].forget \/ (Owed(i) /\ drain[i].pc # "none")
  <2>1. drain' = [drain EXCEPT ![i] = [drain[i] EXCEPT !.forget = forget]]
    BY <1>2 DEF Detached
  <2>2. forget \in BOOLEAN /\ drain[i] \in Drainings /\ (drain[i].forget => forget)
    BY DEF Inv, TypeOK, ClientType, Drainings
  <2>. HIDE DEF forget
  <2>3. [drain[i] EXCEPT !.forget = forget] \in Drainings
    BY <2>2 DEF Drainings
  <2>4. /\ [drain[i] EXCEPT !.forget = forget].pc = drain[i].pc
        /\ [drain[i] EXCEPT !.forget = forget].abandoned = drain[i].abandoned
        /\ [drain[i] EXCEPT !.forget = forget].forget = forget
    BY <2>2 DEF Drainings
  <2>5. clients' = clients \ {i} /\ pending' = pending \ {i}
    BY <1>2 DEF Detached
  <2>. QED BY <1>2, <2>1, <2>2, <2>3, <2>4, <2>5 DEF Inv, TypeOK, ClientType
<1>. QED BY <1>1, <1>2

(* The attachment, and its disposal. *)

\* startModelClient: nothing of the instance was there before.
LEMMA AttachBeginKeeps == ASSUME Inv, NEW i \in Ids, AttachBegin(i) PROVE Inv'
<1>1. StoreType'
  BY DEF Inv, TypeOK, StoreType, Rows, Mains, AttachBegin, AfterFailure, stored, program
<1>2. SessionType'
  BY DEF Inv, TypeOK, SessionType, Subs, AttachBegin, AfterFailure
<1>3. ClientType'
  BY DEF Inv, TypeOK, ClientType, Loops, Drainings, AttachBegin, AfterFailure
<1>4. HandlerType'
  BY DEF Inv, TypeOK, HandlerType, Adds, Enders, Reapers, AttachBegin, AddTo, AfterFailure
<1>5. \A j \in Ids \ {i} : Apart(j)
  BY DEF Inv, TypeOK, ClientType, HandlerType, Apart, AttachBegin, AddTo, AfterFailure, stored
<1>6. UNCHANGED <<main, late>>
  BY DEF AttachBegin, AfterFailure, program
<1>7. Ahead(i)'
  BY DEF Inv, Right, TypeOK, ClientType, HandlerType, Ahead, AttachBegin, stopping, AddTo,
     AfterFailure, stored
<1>8. Owned(i)'
  BY DEF Inv, Right, TypeOK, ClientType, HandlerType, Ahead, Owned, WayOutRight, AttachBegin,
     stopping, AddTo, AfterFailure
<1>9. WayOutRight(i)'
  BY DEF Inv, Right, TypeOK, ClientType, HandlerType, WayOutRight, AttachBegin, stopping, AddTo,
     AfterFailure, program, Subscribed, Idle
<1>10. Cleaned(i)'
  BY DEF Inv, Right, TypeOK, HandlerType, Ahead, Owned, Cleaned, AttachBegin, stopping, AddTo,
     AfterFailure, stored
<1>11. Accounted(i)'
  BY DEF Inv, Right, TypeOK, HandlerType, Owned, WayOutRight, Accounted, Owing, AttachBegin,
     stopping, AddTo, AfterFailure, stored, program, Started, Serving, Leaving
<1>. QED BY <1>1, <1>2, <1>3, <1>4, <1>5, <1>6, <1>7, <1>8, <1>9, <1>10, <1>11, OneMoves DEF Right,
   TypeOK

LEMMA AttachSubscribeKeeps == ASSUME Inv, NEW i \in Ids, AttachSubscribe(i) PROVE Inv'
<1>1. StoreType'
  BY DEF Inv, TypeOK, StoreType, Rows, Mains, AttachSubscribe, stored, program
<1>2. SessionType'
  BY DEF Inv, TypeOK, SessionType, Subs, AttachSubscribe
<1>3. ClientType'
  BY DEF Inv, TypeOK, ClientType, Loops, Drainings, AttachSubscribe, manager
<1>4. HandlerType'
  BY DEF Inv, TypeOK, HandlerType, Adds, Enders, Reapers, AttachSubscribe, AddTo
<1>5. \A j \in Ids \ {i} : Apart(j)
  BY DEF Inv, TypeOK, SessionType, ClientType, HandlerType, Apart, AttachSubscribe, manager, AddTo,
     stored
<1>6. UNCHANGED <<main, late>>
  BY DEF AttachSubscribe, program
<1>7. Ahead(i)'
  BY DEF Inv, Right, TypeOK, SessionType, ClientType, HandlerType, Ahead, AttachSubscribe,
     shuttingDown, manager, AddTo, stored
<1>8. Owned(i)'
  BY DEF Inv, Right, TypeOK, ClientType, HandlerType, Ahead, Owned, WayOutRight, AttachSubscribe,
     shuttingDown, manager, AddTo
<1>9. WayOutRight(i)'
  BY DEF Inv, Right, TypeOK, SessionType, HandlerType, WayOutRight, AttachSubscribe, shuttingDown,
     manager, AddTo, program, Subscribed, stopping, Idle
<1>10. Cleaned(i)'
  BY DEF Inv, Right, TypeOK, ClientType, HandlerType, Ahead, Owned, Cleaned, AttachSubscribe,
     shuttingDown, manager, AddTo, stored
<1>11. Accounted(i)'
  BY DEF Inv, Right, TypeOK, HandlerType, Owned, WayOutRight, Accounted, Owing, AttachSubscribe,
     shuttingDown, manager, AddTo, stored, program, Started, Serving, Leaving
<1>. QED BY <1>1, <1>2, <1>3, <1>4, <1>5, <1>6, <1>7, <1>8, <1>9, <1>10, <1>11, OneMoves DEF Right,
   TypeOK

LEMMA AttachLoadKeeps == ASSUME Inv, NEW i \in Ids, AttachLoad(i) PROVE Inv'
<1>1. StoreType'
  BY DEF Inv, TypeOK, StoreType, Rows, Mains, AttachLoad, stored, program
<1>2. SessionType'
  BY DEF Inv, TypeOK, SessionType, Subs, AttachLoad, Released, Reaped, Subscribed
<1>3. ClientType'
  BY DEF Inv, TypeOK, ClientType, Loops, Drainings, AttachLoad, Released, manager
<1>4. HandlerType'
  BY DEF Inv, TypeOK, HandlerType, Adds, Enders, Reapers, AttachLoad, AddTo
<1>5. \A j \in Ids \ {i} : Apart(j)
  BY DEF Inv, TypeOK, SessionType, ClientType, HandlerType, Apart, AttachLoad, AddTo, Released,
     Reaped, Subscribed, stored, manager
<1>6. UNCHANGED <<main, late>>
  BY DEF AttachLoad, program
<1>7. Ahead(i)'
  BY DEF Inv, Right, TypeOK, SessionType, ClientType, HandlerType, Ahead, AttachLoad, AddTo,
     Released, Reaped, Subscribed, stored, manager
<1>8. Owned(i)'
  BY DEF Inv, Right, TypeOK, ClientType, HandlerType, Ahead, Owned, WayOutRight, AttachLoad, AddTo,
     Released, manager
<1>9. WayOutRight(i)'
  BY DEF Inv, Right, TypeOK, SessionType, HandlerType, WayOutRight, AttachLoad, AddTo, Released,
     Reaped, Subscribed, program, manager, stopping, Idle
<1>10. Cleaned(i)'
  BY DEF Inv, Right, TypeOK, ClientType, HandlerType, Ahead, Owned, Cleaned, AttachLoad, AddTo,
     stored, manager
<1>11. Accounted(i)'
  BY DEF Inv, Right, TypeOK, HandlerType, Owned, WayOutRight, Accounted, Owing, AttachLoad, AddTo,
     stored, program, manager, Started, Serving, Leaving
<1>. QED BY <1>1, <1>2, <1>3, <1>4, <1>5, <1>6, <1>7, <1>8, <1>9, <1>10, <1>11, OneMoves DEF Right,
   TypeOK

\* A refused client leaves the manager's map when its loop has ended; a deletion
\* that came meanwhile becomes the attachment's to clean up.
LEMMA AttachSettleKeeps == ASSUME Inv, NEW i \in Ids, AttachSettle(i) PROVE Inv'
<1>1. StoreType'
  BY DEF Inv, TypeOK, StoreType, Rows, Mains, AttachSettle, AfterFailure, stored, program
<1>2. SessionType'
  BY DEF Inv, TypeOK, SessionType, Subs, AttachSettle, AfterFailure, Revoked, Subscribed
<1>3. ClientType'
  BY DEF Inv, TypeOK, ClientType, Loops, Drainings, AttachSettle, AfterFailure, client
<1>4. HandlerType'
  BY DEF Inv, TypeOK, HandlerType, Adds, Enders, Reapers, AttachSettle, AddTo, AfterFailure
<1>5. \A j \in Ids \ {i} : Apart(j)
  BY DEF Inv, TypeOK, ClientType, HandlerType, Apart, AttachSettle, AddTo, AfterFailure, stored,
     client
<1>6. UNCHANGED <<main, late>>
  BY DEF AttachSettle, AfterFailure, program
<1>7. Ahead(i)'
  BY DEF Inv, Right, TypeOK, ClientType, HandlerType, Ahead, AttachSettle, stopping, AddTo,
     AfterFailure, stored, client
<1>8. Owned(i)'
  BY DEF Inv, Right, TypeOK, ClientType, HandlerType, Ahead, Owned, WayOutRight, AttachSettle,
     stopping, AddTo, AfterFailure, client
<1>9. WayOutRight(i)'
  BY DEF Inv, Right, TypeOK, ClientType, HandlerType, WayOutRight, AttachSettle, stopping, AddTo,
     AfterFailure, program, Subscribed, Idle
<1>10. Cleaned(i)'
  BY DEF Inv, Right, TypeOK, HandlerType, Ahead, Owned, Cleaned, AttachSettle, stopping, AddTo,
     AfterFailure, stored, client
<1>11. Accounted(i)'
  BY DEF Inv, Right, TypeOK, ClientType, HandlerType, Owned, WayOutRight, Accounted, Owing,
     AttachSettle, stopping, AddTo, AfterFailure, stored, program, Started, Serving, Leaving
<1>. QED BY <1>1, <1>2, <1>3, <1>4, <1>5, <1>6, <1>7, <1>8, <1>9, <1>10, <1>11, OneMoves DEF Right,
   TypeOK

\* The loop of the client it forgets has ended, so no new memory follows.
LEMMA AttachForgetKeeps == ASSUME Inv, NEW i \in Ids, AttachForget(i) PROVE Inv'
<1>1. StoreType'
  BY DEF Inv, TypeOK, StoreType, Rows, Mains, AttachForget, Forgotten, AfterFailure, program
<1>2. SessionType'
  BY DEF Inv, TypeOK, SessionType, Subs, AttachForget, AfterFailure, Revoked, Subscribed
<1>3. ClientType'
  BY DEF Inv, TypeOK, ClientType, Loops, Drainings, AttachForget, AfterFailure, client, manager
<1>4. HandlerType'
  BY DEF Inv, TypeOK, HandlerType, Adds, Enders, Reapers, AttachForget, AddTo, AfterFailure
<1>5. \A j \in Ids \ {i} : Apart(j)
  BY DEF Inv, TypeOK, StoreType, HandlerType, Apart, AttachForget, Forgotten, AddTo, AfterFailure,
     client, manager
<1>6. UNCHANGED <<main, late>>
  BY DEF AttachForget, AfterFailure, program
<1>7. Ahead(i)'
  BY DEF Inv, Right, TypeOK, HandlerType, Ahead, AttachForget, AddTo, AfterFailure, client, manager
<1>8. Owned(i)'
  BY DEF Inv, Right, TypeOK, HandlerType, Ahead, Owned, WayOutRight, AttachForget, AddTo,
     AfterFailure, client, manager
<1>9. WayOutRight(i)'
  BY DEF Inv, Right, TypeOK, HandlerType, WayOutRight, AttachForget, AddTo, AfterFailure, program,
     manager, Subscribed, stopping, Idle
<1>10. Cleaned(i)'
  BY DEF Inv, Right, TypeOK, StoreType, HandlerType, Ahead, Owned, Cleaned, AttachForget, Forgotten,
     AddTo, AfterFailure, client, manager
<1>11. Accounted(i)'
  BY DEF Inv, Right, TypeOK, StoreType, HandlerType, Owned, WayOutRight, Accounted, Owing,
     AttachForget, Forgotten, AddTo, AfterFailure, program, manager, Started, Serving, Leaving
<1>. QED BY <1>1, <1>2, <1>3, <1>4, <1>5, <1>6, <1>7, <1>8, <1>9, <1>10, <1>11, OneMoves DEF Right,
   TypeOK

LEMMA AddAdmitKeeps == ASSUME Inv, NEW i \in Ids, AddAdmit(i) PROVE Inv'
<1>1. StoreType'
  BY DEF Inv, TypeOK, StoreType, Rows, Mains, AddAdmit, stored, program
<1>2. SessionType'
  BY DEF Inv, TypeOK, SessionType, Subs, AddAdmit, session
<1>3. ClientType'
  BY DEF Inv, TypeOK, ClientType, Loops, Drainings, AddAdmit, client, manager
<1>4. HandlerType'
  BY DEF Inv, TypeOK, HandlerType, Adds, Enders, Reapers, AddAdmit, AddTo
<1>5. \A j \in Ids \ {i} : Apart(j)
  BY DEF Inv, TypeOK, HandlerType, Apart, AddAdmit, AddTo, stored, session, client, manager
<1>6. UNCHANGED <<main, late>>
  BY DEF AddAdmit, program
<1>7. Ahead(i)'
  BY DEF Inv, Right, TypeOK, HandlerType, Ahead, AddAdmit, AddTo, stored, session, client, manager
<1>8. Owned(i)'
  BY DEF Inv, Right, TypeOK, HandlerType, Ahead, Owned, WayOutRight, AddAdmit, AddTo, client,
     manager
<1>9. WayOutRight(i)'
  BY DEF Inv, Right, TypeOK, HandlerType, WayOutRight, AddAdmit, AddTo, program, session, manager,
     Subscribed, stopping, Idle
<1>10. Cleaned(i)'
  BY DEF Inv, Right, TypeOK, HandlerType, Ahead, Owned, Cleaned, AddAdmit, AddTo, stored, client,
     manager
<1>11. Accounted(i)'
  BY DEF Inv, Right, TypeOK, HandlerType, Owned, WayOutRight, Accounted, Owing, AddAdmit, AddTo,
     stored, program, manager, Started, Serving, Leaving
<1>. QED BY <1>1, <1>2, <1>3, <1>4, <1>5, <1>6, <1>7, <1>8, <1>9, <1>10, <1>11, OneMoves DEF Right,
   TypeOK

LEMMA AddModelKeeps == ASSUME Inv, NEW i \in Ids, AddModel(i) PROVE Inv'
<1>1. StoreType'
  BY DEF Inv, TypeOK, StoreType, Rows, Mains, AddModel, program
<1>2. SessionType'
  BY DEF Inv, TypeOK, SessionType, Subs, AddModel, session
<1>3. ClientType'
  BY DEF Inv, TypeOK, ClientType, Loops, Drainings, AddModel, client, manager
<1>4. HandlerType'
  BY DEF Inv, TypeOK, HandlerType, Adds, Enders, Reapers, AddModel, AddTo
<1>5. \A j \in Ids \ {i} : Apart(j)
  BY DEF Inv, TypeOK, StoreType, HandlerType, Apart, AddModel, AddTo, session, client, manager
<1>6. UNCHANGED <<main, late>>
  BY DEF AddModel, program
<1>7. Ahead(i)'
  BY DEF Inv, Right, TypeOK, StoreType, HandlerType, Ahead, AddModel, AddTo, session, client,
     manager
<1>8. Owned(i)'
  BY DEF Inv, Right, TypeOK, HandlerType, Ahead, Owned, WayOutRight, AddModel, AddTo, client,
     manager
<1>9. WayOutRight(i)'
  BY DEF Inv, Right, TypeOK, HandlerType, WayOutRight, AddModel, AddTo, program, session, manager,
     Subscribed, stopping, Idle
<1>10. Cleaned(i)'
  BY DEF Inv, Right, TypeOK, StoreType, HandlerType, Ahead, Owned, Cleaned, AddModel, AddTo, client,
     manager
<1>11. Accounted(i)'
  BY DEF Inv, Right, TypeOK, StoreType, HandlerType, Owned, WayOutRight, Accounted, Owing, AddModel,
     AddTo, program, manager, Started, Serving, Leaving
<1>. QED BY <1>1, <1>2, <1>3, <1>4, <1>5, <1>6, <1>7, <1>8, <1>9, <1>10, <1>11, OneMoves DEF Right,
   TypeOK

LEMMA DiscardMarkKeeps == ASSUME Inv, NEW i \in Ids, DiscardMark(i) PROVE Inv'
<1>1. StoreType'
  BY DEF Inv, TypeOK, StoreType, Rows, Mains, DiscardMark, program
<1>2. SessionType'
  BY DEF Inv, TypeOK, SessionType, Subs, DiscardMark
<1>3. ClientType'
  BY DEF Inv, TypeOK, ClientType, Loops, Drainings, DiscardMark, client, manager
<1>4. HandlerType'
  BY DEF Inv, TypeOK, HandlerType, Adds, Enders, Reapers, DiscardMark, AddTo
<1>5. \A j \in Ids \ {i} : Apart(j)
  BY DEF Inv, TypeOK, StoreType, SessionType, HandlerType, Apart, DiscardMark, AddTo, client,
     manager
<1>6. UNCHANGED <<main, late>>
  BY DEF DiscardMark, program
<1>7. Ahead(i)'
  BY DEF Inv, Right, TypeOK, StoreType, SessionType, HandlerType, Ahead, DiscardMark, AddTo, client,
     manager
<1>8. Owned(i)'
  BY DEF Inv, Right, TypeOK, HandlerType, Ahead, Owned, WayOutRight, DiscardMark, AddTo, client,
     manager
<1>9. WayOutRight(i)'
  BY DEF Inv, Right, TypeOK, HandlerType, WayOutRight, DiscardMark, AddTo, program, manager,
     Subscribed, stopping, Idle
<1>10. Cleaned(i)'
  BY DEF Inv, Right, TypeOK, StoreType, HandlerType, Ahead, Owned, Cleaned, DiscardMark, AddTo,
     client, manager
<1>11. Accounted(i)'
  BY DEF Inv, Right, TypeOK, StoreType, HandlerType, Owned, WayOutRight, Accounted, Owing,
     DiscardMark, AddTo, program, manager, Started, Serving, Leaving
<1>. QED BY <1>1, <1>2, <1>3, <1>4, <1>5, <1>6, <1>7, <1>8, <1>9, <1>10, <1>11, OneMoves DEF Right,
   TypeOK

LEMMA DiscardRemoveKeeps == ASSUME Inv, NEW i \in Ids, DiscardRemove(i) PROVE Inv'
<1>1. StoreType'
  BY DEF Inv, TypeOK, StoreType, Rows, Mains, DiscardRemove, RowGone, Start, stored, program
<1>2. SessionType'
  BY DEF Inv, TypeOK, SessionType, Subs, DiscardRemove, session
<1>3. ClientType'
  BY DEF Inv, TypeOK, ClientType, Loops, Drainings, DiscardRemove, client, manager
<1>4. HandlerType'
  BY DEF Inv, TypeOK, HandlerType, Adds, Enders, Reapers, DiscardRemove, RowGone, Start, AddTo
<1>5. \A j \in Ids \ {i} : Apart(j)
  BY DEF Inv, TypeOK, StoreType, HandlerType, Apart, DiscardRemove, RowGone, Start, session, client,
     manager, AddTo, stored
<1>6. UNCHANGED <<main, late>>
  BY DEF DiscardRemove, RowGone, Start, program
<1>7. Ahead(i)'
  BY DEF Inv, Right, TypeOK, StoreType, HandlerType, Ahead, DiscardRemove, RowGone, Start, session,
     client, manager, AddTo, stored
<1>8. Owned(i)'
  BY DEF Inv, Right, TypeOK, HandlerType, Ahead, Owned, WayOutRight, DiscardRemove, RowGone, Start,
     client, manager, AddTo
<1>9. WayOutRight(i)'
  BY DEF Inv, Right, TypeOK, StoreType, HandlerType, WayOutRight, DiscardRemove, RowGone, Start,
     session, manager, AddTo, program, Subscribed, stopping, Idle
<1>10. Cleaned(i)'
  BY DEF Inv, Right, TypeOK, StoreType, HandlerType, Ahead, Owned, Cleaned, DiscardRemove, RowGone,
     Start, client, manager, AddTo, stored
<1>11. Accounted(i)'
  BY DEF Inv, Right, TypeOK, StoreType, HandlerType, Owned, WayOutRight, Accounted, Owing,
     DiscardRemove, RowGone, Start, manager, AddTo, stored, program, Started, Serving, Leaving
<1>. QED BY <1>1, <1>2, <1>3, <1>4, <1>5, <1>6, <1>7, <1>8, <1>9, <1>10, <1>11, OneMoves DEF Right,
   TypeOK

\* InstanceDeleted finds the client attached, draining or gone: pending, the
\* drain or the caller owes the clean-up then.
LEMMA DiscardTellKeeps == ASSUME Inv, NEW i \in Ids, DiscardTell(i) PROVE Inv'
<1>1. StoreType'
  BY DEF Inv, TypeOK, StoreType, Rows, Mains, DiscardTell, stored, program
<1>2. SessionType'
  BY DEF Inv, TypeOK, SessionType, Subs, DiscardTell, session
<1>3. ClientType'
  BY DEF Inv, TypeOK, ClientType, Loops, Drainings, DiscardTell, Deleted, client
<1>4. HandlerType'
  BY DEF Inv, TypeOK, HandlerType, Adds, Enders, Reapers, DiscardTell, AddTo
<1>5. \A j \in Ids \ {i} : Apart(j)
  BY DEF Inv, TypeOK, ClientType, HandlerType, Apart, Drainings, DiscardTell, Deleted, AddTo,
     stored, session, client
<1>6. UNCHANGED <<main, late>>
  BY DEF DiscardTell, program
<1>7. Ahead(i)'
  BY DEF Inv, Right, TypeOK, HandlerType, Ahead, DiscardTell, AddTo, ForgetNow, stored, session,
     client
<1>8. Owned(i)'
  BY DEF Inv, Right, TypeOK, ClientType, HandlerType, Drainings, Ahead, Owned, WayOutRight,
     DiscardTell, Deleted, AddTo, ForgetNow, client
<1>9. WayOutRight(i)'
  BY DEF Inv, Right, TypeOK, ClientType, HandlerType, Drainings, WayOutRight, DiscardTell, Deleted,
     AddTo, ForgetNow, program, session, Subscribed, stopping, Idle
<1>10. Cleaned(i)'
  BY DEF Inv, Right, TypeOK, ClientType, HandlerType, Drainings, Ahead, Owned, Cleaned, DiscardTell,
     Deleted, AddTo, ForgetNow, stored, client
<1>11. Accounted(i)'
  BY DEF Inv, Right, TypeOK, ClientType, HandlerType, Drainings, Owned, WayOutRight, Accounted,
     Owing, DiscardTell, Deleted, AddTo, ForgetNow, stored, program, Started, Serving, Leaving
<1>. QED BY <1>1, <1>2, <1>3, <1>4, <1>5, <1>6, <1>7, <1>8, <1>9, <1>10, <1>11, OneMoves DEF Right,
   TypeOK

LEMMA DiscardForgetKeeps == ASSUME Inv, NEW i \in Ids, DiscardForget(i) PROVE Inv'
<1>1. StoreType'
  BY DEF Inv, TypeOK, StoreType, Rows, Mains, DiscardForget, Forgotten, program
<1>2. SessionType'
  BY DEF Inv, TypeOK, SessionType, Subs, DiscardForget, session
<1>3. ClientType'
  BY DEF Inv, TypeOK, ClientType, Loops, Drainings, DiscardForget, client, manager
<1>4. HandlerType'
  BY DEF Inv, TypeOK, HandlerType, Adds, Enders, Reapers, DiscardForget, AddTo
<1>5. \A j \in Ids \ {i} : Apart(j)
  BY DEF Inv, TypeOK, StoreType, HandlerType, Apart, DiscardForget, Forgotten, AddTo, session,
     client, manager
<1>6. UNCHANGED <<main, late>>
  BY DEF DiscardForget, program
<1>7. Ahead(i)'
  BY DEF Inv, Right, TypeOK, HandlerType, Ahead, DiscardForget, AddTo, session, client, manager
<1>8. Owned(i)'
  BY DEF Inv, Right, TypeOK, HandlerType, Ahead, Owned, WayOutRight, DiscardForget, AddTo, client,
     manager
<1>9. WayOutRight(i)'
  BY DEF Inv, Right, TypeOK, HandlerType, WayOutRight, DiscardForget, AddTo, program, session,
     manager, Subscribed, stopping, Idle
<1>10. Cleaned(i)'
  BY DEF Inv, Right, TypeOK, StoreType, HandlerType, Ahead, Owned, Cleaned, DiscardForget,
     Forgotten, AddTo, client, manager
<1>11. Accounted(i)'
  BY DEF Inv, Right, TypeOK, StoreType, HandlerType, Owned, WayOutRight, Accounted, Owing,
     DiscardForget, Forgotten, AddTo, program, manager, Started, Serving, Leaving
<1>. QED BY <1>1, <1>2, <1>3, <1>4, <1>5, <1>6, <1>7, <1>8, <1>9, <1>10, <1>11, OneMoves DEF Right,
   TypeOK

\* What was pending of an attached client goes with it to its drain.
LEMMA DiscardTakeKeeps == ASSUME Inv, NEW i \in Ids, DiscardTake(i) PROVE Inv'
<1>1. StoreType'
  BY DEF Inv, TypeOK, StoreType, Rows, Mains, DiscardTake, stored, program
<1>2. SessionType'
  BY DEF Inv, TypeOK, SessionType, Subs, DiscardTake
<1>3. ClientType'
  <2>1. loop' = loop /\ joining' = joining /\ mc' \in [Ids -> {"none", "new", "subscribed", "released"}]
    BY DEF DiscardTake, Inv, TypeOK, ClientType
  <2>2. CASE ~handle[i]
    BY <2>1, <2>2 DEF DiscardTake, Inv, TypeOK, ClientType
  <2>3. CASE handle[i]
    BY <2>1, <2>3, DetachedDrains DEF DiscardTake, Inv, TypeOK, ClientType
  <2>. QED BY <2>2, <2>3
<1>4. HandlerType'
  BY DEF Inv, TypeOK, HandlerType, Adds, Enders, Reapers, DiscardTake, AddTo
<1>5. \A j \in Ids \ {i} : Apart(j)
  BY DEF Inv, TypeOK, SessionType, ClientType, HandlerType, Apart, Drainings, DiscardTake, Detached,
     Waiting, AddTo, stored
<1>6. UNCHANGED <<main, late>>
  BY DEF DiscardTake, program
<1>7. Ahead(i)'
  BY DEF Inv, Right, TypeOK, SessionType, ClientType, HandlerType, Ahead, DiscardTake, Detached,
     Waiting, Owed, AddTo, stored
<1>8. Owned(i)'
  BY DEF Inv, Right, TypeOK, ClientType, HandlerType, Drainings, Ahead, Owned, WayOutRight,
     DiscardTake, Detached, Waiting, Owed, AddTo
<1>9. WayOutRight(i)'
  BY DEF Inv, Right, TypeOK, SessionType, ClientType, HandlerType, Drainings, WayOutRight,
     DiscardTake, Detached, Waiting, Owed, AddTo, program, Subscribed, stopping, Idle
<1>10. Cleaned(i)'
  BY DEF Inv, Right, TypeOK, ClientType, HandlerType, Drainings, Ahead, Owned, Cleaned, DiscardTake,
     Detached, Waiting, Owed, AddTo, stored
<1>11. Accounted(i)'
  <2>1. /\ UNCHANGED <<row, marker, tried, main, late, ender>> /\ add[i] = "take"
    BY DEF DiscardTake, stored, program
  <2>2. CASE ~handle[i]
    BY <2>1, <2>2 DEF DiscardTake, Inv, Right, Accounted, Owing, Started, Serving, Leaving
  <2>3. CASE handle[i]
    <3>1. Detached(i)
      BY <2>3 DEF DiscardTake
    <3>2. Owing(i) => Owing(i)'
      BY <2>1, <3>1, DetachedDrains DEF Owing, Inv, Right, Owned, TypeOK, ClientType
    <3>3. drain'[i].pc = "forgotten" => drain[i].pc = "forgotten"
      BY <3>1, DetachedDrains
    <3>. QED BY <2>1, <3>2, <3>3 DEF Inv, Right, Accounted, Started, Serving, Leaving
  <2>. QED BY <2>2, <2>3

<1>. QED BY <1>1, <1>2, <1>3, <1>4, <1>5, <1>6, <1>7, <1>8, <1>9, <1>10, <1>11, OneMoves DEF Right,
   TypeOK

---------------------------------------------------------------------------
(* The end of a client by a handler, and its reaper. *)

\* The row goes and its marker comes in one transaction.
LEMMA EndCommitKeeps == ASSUME Inv, NEW i \in Ids, EndCommit(i) PROVE Inv'
<1>1. StoreType'
  BY DEF Inv, TypeOK, StoreType, Rows, Mains, EndCommit, RowGone, Start, program
<1>2. SessionType'
  BY DEF Inv, TypeOK, SessionType, Subs, EndCommit, session
<1>3. ClientType'
  BY DEF Inv, TypeOK, ClientType, Loops, Drainings, EndCommit, client, manager
<1>4. HandlerType'
  BY DEF Inv, TypeOK, HandlerType, Adds, Enders, Reapers, EndCommit, RowGone, Start, EndTo
<1>5. \A j \in Ids \ {i} : Apart(j)
  BY DEF Inv, TypeOK, StoreType, SessionType, HandlerType, Apart, EndCommit, RowGone, Start,
     session, client, manager, EndTo
<1>6. UNCHANGED <<main, late>>
  BY DEF EndCommit, RowGone, Start, program
<1>7. Ahead(i)'
  BY DEF Inv, Right, TypeOK, StoreType, SessionType, HandlerType, Ahead, EndCommit, Idle, RowGone,
     Start, session, client, manager, EndTo
<1>8. Owned(i)'
  BY DEF Inv, Right, TypeOK, HandlerType, Ahead, Owned, WayOutRight, EndCommit, Idle, RowGone,
     Start, client, manager
<1>9. WayOutRight(i)'
  BY DEF Inv, Right, TypeOK, StoreType, HandlerType, WayOutRight, EndCommit, Idle, RowGone, Start,
     session, manager, EndTo, program, Subscribed, stopping
<1>10. Cleaned(i)'
  BY DEF Inv, Right, TypeOK, StoreType, HandlerType, Ahead, Owned, Cleaned, EndCommit, Idle,
     RowGone, Start, client, manager, EndTo
<1>11. Accounted(i)'
  BY DEF Inv, Right, TypeOK, StoreType, HandlerType, Owned, WayOutRight, Accounted, Owing,
     EndCommit, Idle, RowGone, Start, manager, EndTo, program, Started, Serving, Leaving
<1>. QED BY <1>1, <1>2, <1>3, <1>4, <1>5, <1>6, <1>7, <1>8, <1>9, <1>10, <1>11, OneMoves DEF Right,
   TypeOK

\* As DiscardTell.
LEMMA EndTellKeeps == ASSUME Inv, NEW i \in Ids, EndTell(i) PROVE Inv'
<1>1. StoreType'
  BY DEF Inv, TypeOK, StoreType, Rows, Mains, EndTell, stored, program
<1>2. SessionType'
  BY DEF Inv, TypeOK, SessionType, Subs, EndTell, session
<1>3. ClientType'
  BY DEF Inv, TypeOK, ClientType, Loops, Drainings, EndTell, Deleted, client
<1>4. HandlerType'
  BY DEF Inv, TypeOK, HandlerType, Adds, Enders, Reapers, EndTell, EndTo
<1>5. \A j \in Ids \ {i} : Apart(j)
  BY DEF Inv, TypeOK, ClientType, HandlerType, Apart, Drainings, EndTell, Deleted, EndTo, stored,
     session, client
<1>6. UNCHANGED <<main, late>>
  BY DEF EndTell, program
<1>7. Ahead(i)'
  BY DEF Inv, Right, TypeOK, HandlerType, Ahead, EndTell, EndTo, ForgetNow, stored, session, client
<1>8. Owned(i)'
  BY DEF Inv, Right, TypeOK, ClientType, Drainings, Ahead, Owned, WayOutRight, EndTell, Deleted,
     ForgetNow, client
<1>9. WayOutRight(i)'
  BY DEF Inv, Right, TypeOK, ClientType, HandlerType, Drainings, WayOutRight, EndTell, Deleted,
     EndTo, ForgetNow, program, session, Subscribed, stopping, Idle
<1>10. Cleaned(i)'
  BY DEF Inv, Right, TypeOK, ClientType, HandlerType, Drainings, Ahead, Owned, Cleaned, EndTell,
     Deleted, EndTo, ForgetNow, stored, client
<1>11. Accounted(i)'
  BY DEF Inv, Right, TypeOK, ClientType, HandlerType, Drainings, Owned, WayOutRight, Accounted,
     Owing, EndTell, Deleted, EndTo, ForgetNow, stored, program, Started, Serving, Leaving
<1>. QED BY <1>1, <1>2, <1>3, <1>4, <1>5, <1>6, <1>7, <1>8, <1>9, <1>10, <1>11, OneMoves DEF Right,
   TypeOK

LEMMA EndForgetKeeps == ASSUME Inv, NEW i \in Ids, EndForget(i) PROVE Inv'
<1>1. StoreType'
  BY DEF Inv, TypeOK, StoreType, Rows, Mains, EndForget, Forgotten, program
<1>2. SessionType'
  BY DEF Inv, TypeOK, SessionType, Subs, EndForget, session
<1>3. ClientType'
  BY DEF Inv, TypeOK, ClientType, Loops, Drainings, EndForget, client, manager
<1>4. HandlerType'
  BY DEF Inv, TypeOK, HandlerType, Adds, Enders, Reapers, EndForget, EndTo
<1>5. \A j \in Ids \ {i} : Apart(j)
  BY DEF Inv, TypeOK, StoreType, HandlerType, Apart, EndForget, Forgotten, EndTo, session, client,
     manager
<1>6. UNCHANGED <<main, late>>
  BY DEF EndForget, program
<1>7. Ahead(i)'
  BY DEF Inv, Right, TypeOK, HandlerType, Ahead, EndForget, EndTo, session, client, manager
<1>8. Owned(i)'
  BY DEF Inv, Right, Ahead, Owned, WayOutRight, EndForget, client, manager
<1>9. WayOutRight(i)'
  BY DEF Inv, Right, TypeOK, HandlerType, WayOutRight, EndForget, EndTo, program, session, manager,
     Subscribed, stopping, Idle
<1>10. Cleaned(i)'
  BY DEF Inv, Right, TypeOK, StoreType, HandlerType, Ahead, Owned, Cleaned, EndForget, Forgotten,
     EndTo, client, manager
<1>11. Accounted(i)'
  BY DEF Inv, Right, TypeOK, StoreType, HandlerType, Owned, WayOutRight, Accounted, Owing,
     EndForget, Forgotten, EndTo, program, manager, Started, Serving, Leaving
<1>. QED BY <1>1, <1>2, <1>3, <1>4, <1>5, <1>6, <1>7, <1>8, <1>9, <1>10, <1>11, OneMoves DEF Right,
   TypeOK

LEMMA EndTakeKeeps == ASSUME Inv, NEW i \in Ids, EndTake(i) PROVE Inv'
<1>1. StoreType'
  BY DEF Inv, TypeOK, StoreType, Rows, Mains, EndTake, stored, program
<1>2. SessionType'
  BY DEF Inv, TypeOK, SessionType, Subs, EndTake, Taken
<1>3. ClientType'
  BY DEF Inv, TypeOK, ClientType, Loops, Drainings, EndTake, client, manager
<1>4. HandlerType'
  BY DEF Inv, TypeOK, HandlerType, Adds, Enders, Reapers, EndTake, EndTo
<1>5. \A j \in Ids \ {i} : Apart(j)
  BY DEF Inv, TypeOK, SessionType, HandlerType, Apart, EndTake, EndTo, Taken, stored, client,
     manager
<1>6. UNCHANGED <<main, late>>
  BY DEF EndTake, program
<1>7. Ahead(i)'
  BY DEF Inv, Right, TypeOK, SessionType, HandlerType, Ahead, EndTake, EndTo, Taken, stored, client,
     manager
<1>8. Owned(i)'
  BY DEF Inv, Right, Ahead, Owned, WayOutRight, EndTake, client, manager
<1>9. WayOutRight(i)'
  BY DEF Inv, Right, TypeOK, SessionType, HandlerType, WayOutRight, EndTake, EndTo, Taken, program,
     manager, Subscribed, stopping, Idle
<1>10. Cleaned(i)'
  BY DEF Inv, Right, TypeOK, HandlerType, Ahead, Owned, Cleaned, EndTake, EndTo, stored, client,
     manager
<1>11. Accounted(i)'
  BY DEF Inv, Right, TypeOK, HandlerType, Owned, WayOutRight, Accounted, Owing, EndTake, EndTo,
     stored, program, manager, Started, Serving, Leaving
<1>. QED BY <1>1, <1>2, <1>3, <1>4, <1>5, <1>6, <1>7, <1>8, <1>9, <1>10, <1>11, OneMoves DEF Right,
   TypeOK

\* As DiscardTake, from the reaper.
LEMMA ReaperDetachKeeps == ASSUME Inv, NEW i \in Ids, ReaperDetach(i) PROVE Inv'
<1>1. StoreType'
  BY DEF Inv, TypeOK, StoreType, Rows, Mains, ReaperDetach, stored, program
<1>2. SessionType'
  BY DEF Inv, TypeOK, SessionType, Subs, ReaperDetach, Released, Reaped, Subscribed
<1>3. ClientType'
  <2>1. loop' = loop /\ joining' = joining /\ mc' \in [Ids -> {"none", "new", "subscribed", "released"}]
    BY DEF ReaperDetach, Released, Inv, TypeOK, ClientType
  <2>. QED BY <2>1, DetachedDrains DEF ReaperDetach, Inv, TypeOK, ClientType
<1>4. HandlerType'
  BY DEF Inv, TypeOK, HandlerType, Adds, Enders, Reapers, ReaperDetach, handlers
<1>5. \A j \in Ids \ {i} : Apart(j)
  BY DEF Inv, TypeOK, SessionType, ClientType, HandlerType, Apart, Drainings, ReaperDetach,
     Detached, Waiting, Released, Reaped, Subscribed, stored, handlers
<1>6. UNCHANGED <<main, late>>
  BY DEF ReaperDetach, program
<1>7. Ahead(i)'
  BY DEF Inv, Right, TypeOK, SessionType, ClientType, HandlerType, Ahead, ReaperDetach, Detached,
     Waiting, Owed, Released, Reaped, Subscribed, stored, handlers
<1>8. Owned(i)'
  BY DEF Inv, Right, TypeOK, ClientType, Drainings, Ahead, Owned, WayOutRight, ReaperDetach,
     Detached, Waiting, Owed, Released, handlers
<1>9. WayOutRight(i)'
  BY DEF Inv, Right, TypeOK, SessionType, ClientType, HandlerType, Drainings, WayOutRight,
     ReaperDetach, Detached, Waiting, Owed, Released, Reaped, Subscribed, program, handlers,
     stopping, Idle
<1>10. Cleaned(i)'
  BY DEF Inv, Right, TypeOK, ClientType, Drainings, Ahead, Owned, Cleaned, ReaperDetach, Detached,
     Waiting, Owed, stored, handlers
<1>11. Accounted(i)'
  <2>1. /\ UNCHANGED <<row, marker, tried, main, late, add, ender>> /\ Detached(i)
    BY DEF ReaperDetach, stored, program, handlers
  <2>2. Owing(i) => Owing(i)'
    BY <2>1, DetachedDrains DEF Owing, Inv, Right, Owned, TypeOK, ClientType
  <2>3. drain'[i].pc = "forgotten" => drain[i].pc = "forgotten"
    BY <2>1, DetachedDrains
  <2>. QED BY <2>1, <2>2, <2>3 DEF Inv, Right, Accounted, Started, Serving, Leaving

<1>. QED BY <1>1, <1>2, <1>3, <1>4, <1>5, <1>6, <1>7, <1>8, <1>9, <1>10, <1>11, OneMoves DEF Right,
   TypeOK

LEMMA ReaperReapKeeps == ASSUME Inv, NEW i \in Ids, ReaperReap(i) PROVE Inv'
<1>1. StoreType'
  BY DEF Inv, TypeOK, StoreType, Rows, Mains, ReaperReap, stored, program
<1>2. SessionType'
  BY DEF Inv, TypeOK, SessionType, Subs, ReaperReap, Reaped, Subscribed
<1>3. ClientType'
  BY DEF Inv, TypeOK, ClientType, Loops, Drainings, ReaperReap, client, manager
<1>4. HandlerType'
  BY DEF Inv, TypeOK, HandlerType, Adds, Enders, Reapers, ReaperReap, handlers
<1>5. \A j \in Ids \ {i} : Apart(j)
  BY DEF Inv, TypeOK, SessionType, HandlerType, Apart, ReaperReap, Reaped, Subscribed, stored,
     client, manager, handlers
<1>6. UNCHANGED <<main, late>>
  BY DEF ReaperReap, program
<1>7. Ahead(i)'
  BY DEF Inv, Right, TypeOK, SessionType, HandlerType, Ahead, ReaperReap, Reaped, Subscribed,
     stored, client, manager, handlers
<1>8. Owned(i)'
  BY DEF Inv, Right, Ahead, Owned, WayOutRight, ReaperReap, client, manager, handlers
<1>9. WayOutRight(i)'
  BY DEF Inv, Right, TypeOK, SessionType, HandlerType, WayOutRight, ReaperReap, Reaped, Subscribed,
     program, manager, handlers, stopping, Idle
<1>10. Cleaned(i)'
  BY DEF Inv, Right, Ahead, Owned, Cleaned, ReaperReap, stored, client, manager, handlers
<1>11. Accounted(i)'
  BY DEF Inv, Right, Owned, WayOutRight, Accounted, Owing, ReaperReap, stored, program, manager,
     handlers, Started, Serving, Leaving
<1>. QED BY <1>1, <1>2, <1>3, <1>4, <1>5, <1>6, <1>7, <1>8, <1>9, <1>10, <1>11, OneMoves DEF Right,
   TypeOK

---------------------------------------------------------------------------
(* The client's loop and its drain. *)

\* A loop that runs on after the deletion writes while the marker is there.
LEMMA RememberKeeps == ASSUME Inv, NEW i \in Ids, Remember(i) PROVE Inv'
<1>1. StoreType'
  BY DEF Inv, TypeOK, StoreType, Rows, Mains, Remember, program
<1>2. SessionType'
  BY DEF Inv, TypeOK, SessionType, Subs, Remember, session
<1>3. ClientType'
  BY DEF Inv, TypeOK, ClientType, Loops, Drainings, Remember, client, manager
<1>4. HandlerType'
  BY DEF Inv, TypeOK, HandlerType, Adds, Enders, Reapers, Remember, handlers
<1>5. \A j \in Ids \ {i} : Apart(j)
  BY DEF Inv, TypeOK, StoreType, Apart, Remember, session, client, manager, handlers
<1>6. UNCHANGED <<main, late>>
  BY DEF Remember, program
<1>7. Ahead(i)'
  BY DEF Inv, Right, Ahead, Remember, session, client, manager, handlers
<1>8. Owned(i)'
  BY DEF Inv, Right, Ahead, Owned, WayOutRight, Remember, client, manager, handlers
<1>9. WayOutRight(i)'
  BY DEF Inv, Right, WayOutRight, Remember, program, session, manager, handlers, Subscribed,
     stopping, Idle
<1>10. Cleaned(i)'
  BY DEF Inv, Right, TypeOK, StoreType, Ahead, Owned, Cleaned, Remember, client, manager, handlers
<1>11. Accounted(i)'
  BY DEF Inv, Right, Owned, WayOutRight, Accounted, Owing, Remember, program, manager, handlers,
     Started, Serving, Leaving
<1>. QED BY <1>1, <1>2, <1>3, <1>4, <1>5, <1>6, <1>7, <1>8, <1>9, <1>10, <1>11, OneMoves DEF Right,
   TypeOK

LEMMA LoopEndsKeeps == ASSUME Inv, NEW i \in Ids, LoopEnds(i) PROVE Inv'
<1>1. StoreType'
  BY DEF Inv, TypeOK, StoreType, Rows, Mains, LoopEnds, stored, program
<1>2. SessionType'
  BY DEF Inv, TypeOK, SessionType, Subs, LoopEnds, session
<1>3. ClientType'
  BY DEF Inv, TypeOK, ClientType, Loops, Drainings, LoopEnds, manager
<1>4. HandlerType'
  BY DEF Inv, TypeOK, HandlerType, Adds, Enders, Reapers, LoopEnds, handlers
<1>5. \A j \in Ids \ {i} : Apart(j)
  BY DEF Inv, TypeOK, ClientType, Apart, LoopEnds, stored, session, manager, handlers
<1>6. UNCHANGED <<main, late>>
  BY DEF LoopEnds, program
<1>7. Ahead(i)'
  BY DEF Inv, Right, TypeOK, ClientType, Ahead, LoopEnds, stored, session, manager, handlers
<1>8. Owned(i)'
  BY DEF Inv, Right, TypeOK, ClientType, Ahead, Owned, WayOutRight, LoopEnds, manager, handlers
<1>9. WayOutRight(i)'
  BY DEF Inv, Right, WayOutRight, LoopEnds, program, session, manager, handlers, Subscribed,
     stopping, Idle
<1>10. Cleaned(i)'
  BY DEF Inv, Right, TypeOK, ClientType, Ahead, Owned, Cleaned, LoopEnds, stored, manager, handlers
<1>11. Accounted(i)'
  BY DEF Inv, Right, Owned, WayOutRight, Accounted, Owing, LoopEnds, stored, program, manager,
     handlers, Started, Serving, Leaving
<1>. QED BY <1>1, <1>2, <1>3, <1>4, <1>5, <1>6, <1>7, <1>8, <1>9, <1>10, <1>11, OneMoves DEF Right,
   TypeOK

\* Wait has returned: who cleans up now does it after the loop's end.
LEMMA FinishDrainKeeps == ASSUME Inv, NEW i \in Ids, FinishDrain(i) PROVE Inv'
<1>1. StoreType'
  BY DEF Inv, TypeOK, StoreType, Rows, Mains, FinishDrain, NoDrain, stored, program
<1>2. SessionType'
  BY DEF Inv, TypeOK, SessionType, Subs, FinishDrain, NoDrain, session
<1>3. ClientType'
  <2>1. drain' \in [Ids -> Drainings]
    <3>1. NoDrain \in Drainings /\ [drain[i] EXCEPT !.pc = "forgetting"] \in Drainings
      BY MovedOn DEF NoDrain, Inv, TypeOK, ClientType, Drainings
    <3>2. \E d \in Drainings : drain' = [drain EXCEPT ![i] = d]
      BY <3>1 DEF FinishDrain, DrainTo
    <3>. QED BY <3>2 DEF Inv, TypeOK, ClientType
  <2>2. UNCHANGED <<mc, loop, clients, pending>> /\ joining' \subseteq Ids
    BY DEF FinishDrain, client, Inv, TypeOK, ClientType
  <2>. QED BY <2>1, <2>2 DEF Inv, TypeOK, ClientType
<1>4. HandlerType'
  BY DEF Inv, TypeOK, HandlerType, Adds, Enders, Reapers, FinishDrain, NoDrain, handlers
<1>5. \A j \in Ids \ {i} : Apart(j)
  BY DEF Inv, TypeOK, ClientType, Apart, Drainings, FinishDrain, DrainTo, NoDrain, stored, session,
     client, handlers
<1>6. UNCHANGED <<main, late>>
  BY DEF FinishDrain, NoDrain, program
<1>7. Ahead(i)'
  BY DEF Inv, Right, Ahead, FinishDrain, NoDrain, stored, session, client, handlers
<1>8. Owned(i)'
  BY DEF Inv, Right, TypeOK, ClientType, Drainings, Ahead, Owned, WayOutRight, FinishDrain, DrainTo,
     NoDrain, client, handlers
<1>9. WayOutRight(i)'
  BY DEF Inv, Right, TypeOK, ClientType, Drainings, WayOutRight, FinishDrain, DrainTo, NoDrain,
     stored, program, session, client, handlers, Subscribed, stopping, Idle
<1>10. Cleaned(i)'
  BY DEF Inv, Right, TypeOK, ClientType, Drainings, Ahead, Owned, Cleaned, FinishDrain, DrainTo,
     NoDrain, stored, client, handlers
<1>11. Accounted(i)'
  BY DEF Inv, Right, TypeOK, ClientType, Drainings, Owned, WayOutRight, Accounted, Owing,
     FinishDrain, DrainTo, NoDrain, stored, program, handlers, Started, Serving, Leaving
<1>. QED BY <1>1, <1>2, <1>3, <1>4, <1>5, <1>6, <1>7, <1>8, <1>9, <1>10, <1>11, OneMoves DEF Right,
   TypeOK

LEMMA DrainForgetKeeps == ASSUME Inv, NEW i \in Ids, DrainForget(i) PROVE Inv'
<1>1. StoreType'
  BY DEF Inv, TypeOK, StoreType, Rows, Mains, DrainForget, Forgotten, program
<1>2. SessionType'
  BY DEF Inv, TypeOK, SessionType, Subs, DrainForget, session
<1>3. ClientType'
  BY DEF Inv, TypeOK, ClientType, Loops, Drainings, DrainForget, DrainTo, client
<1>4. HandlerType'
  BY DEF Inv, TypeOK, HandlerType, Adds, Enders, Reapers, DrainForget, handlers
<1>5. \A j \in Ids \ {i} : Apart(j)
  BY DEF Inv, TypeOK, StoreType, ClientType, Apart, Drainings, DrainForget, Forgotten, DrainTo,
     session, client, handlers
<1>6. UNCHANGED <<main, late>>
  BY DEF DrainForget, program
<1>7. Ahead(i)'
  BY DEF Inv, Right, Ahead, DrainForget, session, client, handlers
<1>8. Owned(i)'
  BY DEF Inv, Right, TypeOK, ClientType, Drainings, Ahead, Owned, WayOutRight, DrainForget, DrainTo,
     client, handlers
<1>9. WayOutRight(i)'
  BY DEF Inv, Right, TypeOK, ClientType, Drainings, WayOutRight, DrainForget, DrainTo, program,
     session, handlers, Subscribed, stopping, Idle
<1>10. Cleaned(i)'
  BY DEF Inv, Right, TypeOK, StoreType, ClientType, Drainings, Ahead, Owned, Cleaned, DrainForget,
     Forgotten, DrainTo, client, handlers
<1>11. Accounted(i)'
  BY DEF Inv, Right, TypeOK, StoreType, ClientType, Drainings, Owned, WayOutRight, Accounted, Owing,
     DrainForget, Forgotten, DrainTo, program, handlers, Started, Serving, Leaving
<1>. QED BY <1>1, <1>2, <1>3, <1>4, <1>5, <1>6, <1>7, <1>8, <1>9, <1>10, <1>11, OneMoves DEF Right,
   TypeOK

LEMMA DrainEndsKeeps == ASSUME Inv, NEW i \in Ids, DrainEnds(i) PROVE Inv'
<1>1. StoreType'
  BY DEF Inv, TypeOK, StoreType, Rows, Mains, DrainEnds, NoDrain, stored, program
<1>2. SessionType'
  BY DEF Inv, TypeOK, SessionType, Subs, DrainEnds, NoDrain, session
<1>3. ClientType'
  BY DEF Inv, TypeOK, ClientType, Loops, Drainings, DrainEnds, DrainTo, NoDrain, client
<1>4. HandlerType'
  BY DEF Inv, TypeOK, HandlerType, Adds, Enders, Reapers, DrainEnds, NoDrain, handlers
<1>5. \A j \in Ids \ {i} : Apart(j)
  BY DEF Inv, TypeOK, ClientType, Apart, Drainings, DrainEnds, DrainTo, NoDrain, stored, session,
     client, handlers
<1>6. UNCHANGED <<main, late>>
  BY DEF DrainEnds, NoDrain, program
<1>7. Ahead(i)'
  BY DEF Inv, Right, Ahead, DrainEnds, NoDrain, stored, session, client, handlers
<1>8. Owned(i)'
  BY DEF Inv, Right, TypeOK, ClientType, Drainings, Ahead, Owned, WayOutRight, DrainEnds, DrainTo,
     NoDrain, client, handlers
<1>9. WayOutRight(i)'
  BY DEF Inv, Right, TypeOK, ClientType, Drainings, WayOutRight, DrainEnds, DrainTo, NoDrain,
     program, session, handlers, Subscribed, stopping, Idle
<1>10. Cleaned(i)'
  BY DEF Inv, Right, TypeOK, ClientType, Drainings, Ahead, Owned, Cleaned, DrainEnds, DrainTo,
     NoDrain, stored, client, handlers
<1>11. Accounted(i)'
  BY DEF Inv, Right, TypeOK, ClientType, Drainings, Owned, WayOutRight, Accounted, Owing, DrainEnds,
     DrainTo, NoDrain, stored, program, handlers, Started, Serving, Leaving
<1>. QED BY <1>1, <1>2, <1>3, <1>4, <1>5, <1>6, <1>7, <1>8, <1>9, <1>10, <1>11, OneMoves DEF Right,
   TypeOK

---------------------------------------------------------------------------
(* The program: its start, its way out, and a stop at any point. *)
LEMMA StartKeeps == ASSUME Inv, Start PROVE Inv'
<1>1. TypeOK'
  BY DEF Inv, TypeOK, StoreType, SessionType, ClientType, HandlerType, Rows, Mains, Adds, Start,
     session, client, manager
<1>2. ASSUME NEW i \in Ids PROVE Right(i)'
  <2>1. Ahead(i)'
    BY <1>2 DEF Inv, Right, TypeOK, Ahead, WayOutRight, Start, session, client, manager
  <2>2. Owned(i)'
    BY <1>2 DEF Inv, Right, TypeOK, Ahead, Owned, WayOutRight, Start, session, client, manager
  <2>3. WayOutRight(i)'
    BY <1>2 DEF Inv, Right, TypeOK, WayOutRight, Start, session, client, manager, stopping
  <2>4. Cleaned(i)'
    <3>1. PICK failedRows \in SUBSET {j \in Ids : row[j] = "pending"},
               failedMemory \in SUBSET {j \in Ids : marker[j] \/ row[j] = "pending"} :
            LET deleted == {j \in Ids : row[j] = "pending"} \ failedRows
                due == {j \in Ids : marker[j]} \cup deleted
            IN  /\ row' = [j \in Ids |-> IF j \in deleted THEN "gone" ELSE row[j]]
                /\ marker' = [j \in Ids |-> j \in due \cap failedMemory]
                /\ memory' = [j \in Ids |-> memory[j] /\ j \notin due \ failedMemory]
      BY DEF Start
    <3> DEFINE deleted == {j \in Ids : row[j] = "pending"} \ failedRows
               due == {j \in Ids : marker[j]} \cup deleted
    <3>2. /\ row'[i] = "gone" => row[i] = "gone" \/ i \in deleted
          /\ marker'[i] <=> i \in due \cap failedMemory
          /\ memory'[i] => memory[i] /\ i \notin due \ failedMemory
      BY <1>2, <3>1
    <3>3. loop[i] = "none" /\ ender[i] = "none" /\ drain[i].pc = "none"
      BY <1>2 DEF Inv, Right, Ahead, Owned, WayOutRight, Start
    <3>4. loop'[i] = "none" /\ ender'[i] = "none" /\ drain'[i].pc = "none"
      BY <3>3 DEF Start, client, manager
    <3>5. row'[i] = "gone" /\ memory'[i] => marker'[i]
      BY <1>2, <3>2 DEF Inv, Right, Cleaned
    <3>. QED BY <3>4, <3>5 DEF Cleaned
  <2>5. Accounted(i)'
    BY <1>2 DEF Inv, Right, TypeOK, Accounted, Owned, WayOutRight, Start, session, client, manager
  <2>. QED BY <2>1, <2>2, <2>3, <2>4, <2>5 DEF Right
<1>. QED BY <1>1, <1>2 DEF Inv

\* Where only main's own state changes, what each instance has stays.
LEMMA MainMoves ==
  ASSUME Inv, UNCHANGED <<stored, session, client, manager, handlers, reaper>>,
         main' \in Mains, late' \in BOOLEAN,
         \A i \in Ids : WayOutRight(i)', late => late' \/ Ids = {},
         Started' /\ ~late' => Started
  PROVE  Inv'
<1>1. TypeOK'
  BY DEF Inv, TypeOK, StoreType, SessionType, ClientType, HandlerType, stored, session, client,
     manager, handlers
<1>2. ASSUME NEW i \in Ids PROVE Right(i)'
  <2>1. Ahead(i)' /\ Owned(i)' /\ Cleaned(i)'
    BY <1>2 DEF Inv, Right, Ahead, Owned, Cleaned, stored, session, client, manager, handlers
  <2>2. Accounted(i)'
    <3>1. Owing(i)' <=> Owing(i)
      BY DEF Owing, manager, handlers
    <3>. QED BY <3>1 DEF Inv, Right, Accounted, stored, manager
  <2>. QED BY <2>1, <2>2 DEF Right
<1>. QED BY <1>1, <1>2 DEF Inv

LEMMA BootedKeeps == ASSUME Inv, Booted PROVE Inv'
<1>1. /\ main = "boot" /\ main' \in {"closed", "running"} /\ late' \in BOOLEAN
      /\ main' = "closed" <=> late'
      /\ UNCHANGED <<stored, session, client, manager, handlers, reaper>>
  BY DEF Booted
<1>2. ASSUME NEW i \in Ids PROVE WayOutRight(i)'
  <2>1. ~late /\ ~drain[i].abandoned /\ drain' = drain
    BY <1>1, <1>2 DEF Inv, Right, WayOutRight, manager
  <2>2. add'[i] \in {"none", "done", "failed"}
    BY <1>2 DEF Booted, handlers
  <2>. QED BY <1>1, <2>1, <2>2 DEF WayOutRight, stopping
<1>3. ~late \/ Ids = {}
  BY <1>1 DEF Inv, Right, WayOutRight
<1>. QED BY <1>1, <1>2, <1>3, MainMoves DEF Mains, Started

LEMMA LeaveKeeps == ASSUME Inv, Leave PROVE Inv'
<1>1. ASSUME NEW i \in Ids PROVE WayOutRight(i)'
  BY <1>1 DEF Leave, Inv, Right, WayOutRight, stopping, manager, handlers
<1>. QED BY <1>1, MainMoves DEF Leave, Inv, TypeOK, StoreType, Mains, Started, Serving, Leaving

LEMMA DeadlineKeeps == ASSUME Inv, Deadline PROVE Inv'
<1>1. ASSUME NEW i \in Ids PROVE WayOutRight(i)'
  BY <1>1 DEF Deadline, Inv, Right, WayOutRight, stopping, Leaving, manager, handlers
<1>. QED BY <1>1, MainMoves DEF Deadline, Inv, TypeOK, StoreType, Mains, Started, Serving, Leaving

LEMMA DrainHandlersKeeps == ASSUME Inv, DrainHandlers PROVE Inv'
<1>1. ASSUME NEW i \in Ids PROVE WayOutRight(i)'
  BY <1>1 DEF DrainHandlers, Inv, Right, WayOutRight, stopping, manager, handlers
<1>. QED BY <1>1, MainMoves DEF DrainHandlers, Inv, TypeOK, StoreType, Mains, Started, Serving,
   Leaving

LEMMA CloseKeeps == ASSUME Inv, Close PROVE Inv'
<1>1. ASSUME NEW i \in Ids PROVE WayOutRight(i)'
  <2>1. /\ main = "closing" /\ main' = "closed" /\ late' = late
        /\ UNCHANGED <<session, manager, handlers, reaper>>
        /\ late \/ (HandlersDone /\ ReapersDone)
    BY DEF Close
  <2>2. i \notin clients /\ (~late => drain[i].pc = "none") /\ (drain[i].abandoned => late)
    BY <2>1 DEF Inv, Right, WayOutRight, stopping
  <2>3. ~late => add[i] \in Idle /\ ender[i] \in Idle /\ reaper[i] = "none" /\ ~Subscribed(i)
    BY <2>1 DEF HandlersDone, ReapersDone
  <2>. QED BY <2>1, <2>2, <2>3 DEF WayOutRight, stopping, session, manager, handlers, Subscribed,
     Idle
<1>. QED BY <1>1, MainMoves DEF Close, Inv, TypeOK, StoreType, Mains, Started, Serving, Leaving

\* DetachAll is every client's detach at once; it has no deletion left to make up
\* for, since only attached clients have one pending.
LEMMA DetachAllKeeps == ASSUME Inv, DetachAll PROVE Inv'
<1>1. /\ main = "draining" /\ main' = "releasing"
      /\ UNCHANGED <<row, late, active, loop, handlers, reaper>>
      /\ clients' = {} /\ pending' = {} /\ joining' = Drains
  BY DEF DetachAll
<1>2. UNCHANGED <<memory, marker, tried>>
  <2>1. pending \ clients = {} /\ memory \in [Ids -> BOOLEAN] /\ marker \in [Ids -> BOOLEAN]
    BY DEF Inv, TypeOK, ClientType, StoreType
  <2>2. PICK done \in SUBSET (pending \ clients) :
          /\ memory' = [i \in Ids |-> memory[i] /\ i \notin done]
          /\ marker' = [i \in Ids |-> marker[i] /\ i \notin done]
          /\ tried' = tried \cup (pending \ clients)
    BY DEF DetachAll
  <2>3. done = {}
    BY <2>1, <2>2
  <2>4. \A i \in Ids : (memory[i] /\ i \notin done) = memory[i] /\ (marker[i] /\ i \notin done) = marker[i]
    BY <2>1, <2>3
  <2>5. memory' = [i \in Ids |-> memory[i]] /\ marker' = [i \in Ids |-> marker[i]]
    BY <2>2, <2>4
  <2>. QED BY <2>1, <2>2, <2>5
<1>3. /\ drain' \in [Ids -> Drainings]
      /\ \A i \in clients : /\ drain'[i].pc = "waiting" /\ ~drain'[i].abandoned
                            /\ drain'[i].forget <=> i \in pending
      /\ \A i \in Ids \ clients : drain'[i] = drain[i]
  <2>1. drain' = [i \in Ids |-> IF i \in clients THEN Waiting(i \in pending) ELSE drain[i]]
    BY DEF DetachAll
  <2>2. \A i \in Ids : drain'[i] = IF i \in clients THEN Waiting(i \in pending) ELSE drain[i]
    BY <2>1
  <2>3. ASSUME NEW i \in Ids, NEW b \in BOOLEAN, b <=> i \in pending, i \in clients
        PROVE  /\ Waiting(i \in pending) \in Drainings
               /\ drain'[i].pc = "waiting" /\ ~drain'[i].abandoned
               /\ drain'[i].forget <=> i \in pending
    <3>1. (i \in pending) = b
      BY <2>3
    <3>2. drain'[i] = Waiting(b)
      BY <2>2, <2>3, <3>1
    <3>. QED BY <2>3, <3>1, <3>2, WaitingIsOne
  <2>. QED BY <2>1, <2>2, <2>3 DEF Inv, TypeOK, ClientType
<1>4. /\ sub' \in [Ids -> Subs] /\ handle' \in [Ids -> BOOLEAN] /\ token' \in [Ids -> BOOLEAN]
      /\ mc' \in [Ids -> {"none", "new", "subscribed", "released"}]
  BY DEF DetachAll, Inv, TypeOK, SessionType, ClientType, Subs
<1>5. TypeOK'
  <2>1. joining' \subseteq Ids
    BY <1>1 DEF Drains, Inv, TypeOK, ClientType
  <2>2. main' \in Mains
    BY <1>1 DEF Mains
  <2>. QED BY <1>1, <1>2, <1>3, <1>4, <2>1, <2>2
           DEF Inv, TypeOK, StoreType, SessionType, ClientType, HandlerType, handlers
<1>6. ASSUME NEW i \in Ids PROVE Right(i)'
  <2>1. add'[i] = add[i] /\ ender'[i] = ender[i] /\ reaper'[i] = reaper[i] /\ active'[i] = active[i]
    BY <1>1 DEF handlers
  <2>2. /\ mc'[i] = IF i \in clients THEN "released" ELSE mc[i]
        /\ sub[i] = "none" => sub'[i] = "none"
        /\ handle'[i] => handle[i]
    BY <1>6 DEF DetachAll, Subscribed
  <2>3. Ahead(i)'
    BY <1>1, <1>6, <2>1, <2>2 DEF Inv, Right, Ahead
  <2>4. Owned(i)'
    BY <1>1, <1>3, <1>6, <2>1, <2>2 DEF Inv, Right, Ahead, Owned
  <2>5. WayOutRight(i)'
    <3>1. ~drain[i].abandoned
      BY <1>1, <1>6 DEF Inv, Right, WayOutRight
    <3>2. drain'[i].pc # "none" => i \in joining'
      BY <1>1, <1>3, <1>6, <3>1 DEF Drains
    <3>. QED BY <1>1, <1>3, <1>6, <3>1, <3>2 DEF WayOutRight, stopping
  <2>6. Cleaned(i)'
    BY <1>1, <1>2, <1>3, <1>6, <2>1 DEF Inv, Right, Cleaned
  <2>7. Accounted(i)'
    <3>1. Owing(i) => Owing(i)'
      BY <1>1, <1>3, <1>6, <2>1 DEF Owing, Inv, Right, Owned, TypeOK, ClientType
    <3>2. drain'[i].pc = "forgotten" => drain[i].pc = "forgotten"
      BY <1>3, <1>6
    <3>. QED BY <1>1, <1>2, <1>6, <3>1, <3>2 DEF Inv, Right, Accounted, Started, Serving, Leaving
  <2>. QED BY <2>3, <2>4, <2>5, <2>6, <2>7 DEF Right
<1>. QED BY <1>5, <1>6 DEF Inv

LEMMA JoinedKeeps == ASSUME Inv, Joined PROVE Inv'
<1>1. /\ main = "releasing" /\ main' = "closing" /\ (joining = {} \/ late)
      /\ UNCHANGED <<stored, late, session, client, clients, pending, handlers, reaper>>
      /\ joining' = {}
      /\ drain' = [i \in Ids |-> IF i \in joining THEN [drain[i] EXCEPT !.abandoned = TRUE] ELSE drain[i]]
  BY DEF Joined, JoinedOrLate
<1>2. ASSUME NEW i \in Ids
      PROVE  /\ drain'[i] \in Drainings
             /\ drain'[i].pc = drain[i].pc /\ drain'[i].forget = drain[i].forget
             /\ drain'[i].abandoned => drain[i].abandoned \/ i \in joining
  <2>1. drain[i] \in Drainings
    BY <1>2 DEF Inv, TypeOK, ClientType
  <2>2. /\ [drain[i] EXCEPT !.abandoned = TRUE] \in Drainings
        /\ [drain[i] EXCEPT !.abandoned = TRUE].pc = drain[i].pc
        /\ [drain[i] EXCEPT !.abandoned = TRUE].forget = drain[i].forget
    BY <2>1 DEF Drainings
  <2>3. drain'[i] = IF i \in joining THEN [drain[i] EXCEPT !.abandoned = TRUE] ELSE drain[i]
    BY <1>1, <1>2
  <2>. QED BY <2>1, <2>2, <2>3
<1>3. TypeOK'
  <2>1. drain' \in [Ids -> Drainings]
    BY <1>1, <1>2
  <2>2. main' \in Mains
    BY <1>1 DEF Mains
  <2>. QED BY <1>1, <2>1, <2>2
           DEF Inv, TypeOK, StoreType, SessionType, ClientType, HandlerType, stored, session, client, handlers
<1>4. ASSUME NEW i \in Ids PROVE Right(i)'
  <2>1. Ahead(i)'
    BY <1>1, <1>4 DEF Inv, Right, Ahead, stored, session, client, handlers
  <2>2. Owned(i)'
    BY <1>1, <1>2, <1>4 DEF Inv, Right, Owned, client, handlers
  <2>3. WayOutRight(i)'
    BY <1>1, <1>2, <1>4 DEF Inv, Right, WayOutRight, stopping
  <2>4. Cleaned(i)'
    BY <1>1, <1>2, <1>4 DEF Inv, Right, Cleaned, stored, client, handlers
  <2>5. Accounted(i)'
    <3>1. Owing(i) <=> Owing(i)'
      BY <1>1, <1>2, <1>4 DEF Owing, handlers
    <3>. QED BY <1>1, <1>2, <1>4, <3>1 DEF Inv, Right, Accounted, stored, Started, Serving, Leaving
  <2>. QED BY <2>1, <2>2, <2>3, <2>4, <2>5 DEF Right
<1>. QED BY <1>3, <1>4 DEF Inv

\* What a new run of the program begins with.
Fresh ==
  /\ main = "start" /\ late = FALSE
  /\ token = [i \in Ids |-> FALSE] /\ handle = token /\ active = token
  /\ sub = [i \in Ids |-> "none"] /\ mc = sub /\ loop = sub
  /\ clients = {} /\ pending = {} /\ joining = {}
  /\ drain = [i \in Ids |-> NoDrain]
  /\ add = sub /\ ender = sub /\ reaper = sub

\* What it finds in the store.
StoreRight ==
  /\ StoreType
  /\ \A i \in Ids : /\ row[i] = "gone" /\ memory[i] => marker[i]
                    /\ row[i] = "gone" => marker[i] \/ i \in tried

LEMMA FreshRight == Fresh /\ StoreRight => Inv
<1> SUFFICES ASSUME Fresh, StoreRight PROVE Inv
  OBVIOUS
<1>1. NoDrain \in Drainings /\ NoDrain.pc = "none" /\ ~NoDrain.abandoned
  BY DEF NoDrain, Drainings
<1>2. TypeOK
  BY <1>1 DEF Fresh, StoreRight, TypeOK, SessionType, ClientType, HandlerType, Subs, Loops, Adds,
     Enders, Reapers
<1>3. ASSUME NEW i \in Ids PROVE Right(i)
  <2>1. /\ add[i] = "none" /\ ender[i] = "none" /\ reaper[i] = "none" /\ drain[i] = NoDrain
        /\ mc[i] = "none" /\ loop[i] = "none" /\ sub[i] = "none" /\ ~handle[i] /\ ~active[i]
    BY <1>3 DEF Fresh
  <2>2. Ahead(i) /\ Owned(i)
    BY <1>1, <2>1 DEF Ahead, Owned, Fresh
  <2>3. WayOutRight(i)
    BY <1>1, <2>1 DEF WayOutRight, Fresh, stopping
  <2>4. Cleaned(i)
    BY <1>1, <1>3, <2>1 DEF Cleaned, StoreRight
  <2>5. Accounted(i)
    BY <1>1, <1>3, <2>1 DEF Accounted, StoreRight, Fresh, Started, Serving, Leaving
  <2>. QED BY <2>2, <2>3, <2>4, <2>5 DEF Right
<1>. QED BY <1>2, <1>3 DEF Inv

LEMMA InitRight == Init => Inv
<1> SUFFICES ASSUME Init PROVE Inv
  OBVIOUS
<1>1. Fresh
  BY DEF Init, Fresh
<1>2. StoreType
  BY DEF Init, StoreType, Rows, Mains
<1>3. \A i \in Ids : row[i] # "gone"
  BY DEF Init
<1>. QED BY <1>1, <1>2, <1>3, FreshRight DEF StoreRight

\* A stop at any point leaves the store, from which the next start begins.
LEMMA RestartKeeps == ASSUME Inv, Restart PROVE Inv'
<1>1. Fresh' /\ UNCHANGED stored
  BY DEF Restart, Fresh
<1>2. StoreType'
  BY <1>1 DEF Inv, TypeOK, StoreType, Fresh, Mains, stored
<1>3. \A i \in Ids : /\ row'[i] = "gone" /\ memory'[i] => marker'[i]
                     /\ row'[i] = "gone" => marker'[i] \/ i \in tried'
  BY <1>1 DEF Inv, Right, Cleaned, Accounted, stored
<1>4. (Fresh /\ StoreRight => Inv)'
  BY FreshRight, PTL
<1>. QED BY <1>1, <1>2, <1>3, <1>4 DEF StoreRight
---------------------------------------------------------------------------
LEMMA StutterKeeps == ASSUME Inv, UNCHANGED vars PROVE Inv'
<1>1. ASSUME NEW i \in Ids PROVE WayOutRight(i)'
  BY <1>1 DEF Inv, Right, WayOutRight, vars, program, manager, handlers, session, stopping,
     Subscribed
<1>. QED BY <1>1, MainMoves DEF vars, program, Inv, TypeOK, StoreType, Started, Serving, Leaving

LEMMA NextKeeps == Inv /\ [Next]_vars => Inv'
<1> SUFFICES ASSUME Inv, [Next]_vars PROVE Inv'
  OBVIOUS
<1>1. ASSUME Start \/ Booted \/ Leave \/ Deadline \/ WayOut \/ Restart PROVE Inv'
  BY <1>1, StartKeeps, BootedKeeps, LeaveKeeps, DeadlineKeeps, DrainHandlersKeeps, DetachAllKeeps,
     JoinedKeeps, CloseKeeps, RestartKeeps DEF WayOut
<1>2. ASSUME NEW i \in Ids, AddModel(i) \/ Adding(i) PROVE Inv'
  BY <1>2, AddModelKeeps, AttachBeginKeeps, AttachSubscribeKeeps, AttachLoadKeeps,
     AttachSettleKeeps,
     AttachForgetKeeps, AddAdmitKeeps, DiscardMarkKeeps, DiscardRemoveKeeps, DiscardTellKeeps,
     DiscardForgetKeeps, DiscardTakeKeeps DEF Adding
<1>3. ASSUME NEW i \in Ids, EndCommit(i) \/ Ending(i) \/ Reaping(i) PROVE Inv'
  BY <1>3, EndCommitKeeps, EndTellKeeps, EndForgetKeeps, EndTakeKeeps, ReaperDetachKeeps,
     ReaperReapKeeps DEF Ending, Reaping
<1>4. ASSUME NEW i \in Ids, Remember(i) \/ LoopEnds(i) \/ Draining(i) PROVE Inv'
  BY <1>4, RememberKeeps, LoopEndsKeeps, FinishDrainKeeps, DrainForgetKeeps, DrainEndsKeeps DEF
     Draining
<1>. QED BY <1>1, <1>2, <1>3, <1>4, StutterKeeps DEF Next

THEOREM InvHolds == Spec => []Inv
<1>. QED BY InitRight, NextKeeps, PTL DEF Spec

(* main closes the store after the way out. If no wait of that way ran into the
   deadline, then by then no handler, reaper, drain, clean-up, dispatch loop or
   subscription of any client is left that could use it (main.go, Manager.DetachAll,
   Session.Shutdown). *)
THEOREM NothingLeftAtClose == Spec => []QuietAtClose
<1>1. Inv => QuietAtClose
  <2> SUFFICES ASSUME Inv, main = "closed", ~late, NEW i \in Ids
               PROVE  /\ add[i] \in Idle /\ ender[i] \in Idle /\ reaper[i] = "none"
                      /\ drain[i].pc = "none" /\ loop[i] # "running" /\ ~Subscribed(i)
    BY DEF QuietAtClose
  <2>1. i \notin clients /\ drain[i].pc = "none"
    BY DEF Inv, Right, WayOutRight, stopping
  <2>. QED BY <2>1 DEF Inv, Right, WayOutRight, Owned
<1>. QED BY <1>1, InvHolds, PTL

(* Whichever of attachment, disposal, KILL, QUIT, reaper, DetachAll, stop and start
   overtake one another: memories of a deleted instance are left only with the row
   that makes the next start remove them, and, in a program that runs on, only
   after their clean-up was tried (Manager.InstanceDeleted, Manager.Forget). *)
THEOREM CleanUpNotLost == Spec => []CleanUpKept
<1>1. Inv => CleanUpDue
  BY DEF Inv, Right, Cleaned, CleanUpDue
<1>2. Inv => CleanUpTried
  <2> SUFFICES ASSUME Inv, Serving \/ Leaving, ~late,
                      NEW i \in Ids, row[i] = "gone", Settled(i)
               PROVE  i \in tried
    BY DEF CleanUpTried
  <2>1. ~Owing(i)
    BY DEF Settled, Idle, Owing, Inv, TypeOK, ClientType
  <2>. QED BY <2>1 DEF Inv, Right, Accounted, Started
<1>. QED BY <1>1, <1>2, InvHolds, PTL DEF CleanUpKept

=============================================================================
