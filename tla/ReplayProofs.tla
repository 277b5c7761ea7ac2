---------------------------- MODULE ReplayProofs ----------------------------
(* Theorems about Replay, for any channels, number of events and failures: the
   order in which fan-outs and dispatches take the replay locks keeps them from
   waiting for each other, and what the client files and what is queued for it
   are always, together, what the store keeps. *)
EXTENDS MCReplay, SequenceTheorems, FiniteSetTheorems, TLAPS

Clients == {"m", "p"}
Holders == {"free", "loop", "disp", "load"}
Orders == {<<>>, <<"m">>, <<"p">>, <<"m", "p">>}

HoldsNothing(who) == \A x \in Clients : locks[x] # who

\* What is left to lock comes after every lock that is held.
InTurn(who, need) ==
  /\ need \in Orders
  /\ need # <<>> => locks["p"] # who
  /\ need # <<>> /\ Head(need) = "m" => locks["m"] # who

\* Between commands the loop holds no replay lock, and it plans, projects and
\* queues when it has them all.
LoopLocks ==
  /\ {"pc", "need"} \subseteq DOMAIN loop
  /\ loop.pc = "lock" <=> loop.need # <<>>
  /\ loop.pc = "idle" => HoldsNothing("loop")
  /\ InTurn("loop", loop.need)

\* A dispatch holds its locks only while it announces.
DispLocks ==
  /\ {"pc", "need"} \subseteq DOMAIN disp
  /\ disp.pc \notin {"lock", "relock"} => disp.need = <<>> /\ HoldsNothing("disp")
  /\ InTurn("disp", disp.need)

Inv ==
  /\ locks \in [Clients -> Holders]
  /\ LoopLocks
  /\ DispLocks
---------------------------------------------------------------------------
(* The plans. *)

\* lockRouteSubscriptions never locks a client twice, and p never before m.
LEMMA OrderType == ASSUME NEW clients PROVE LockOrder(clients) \in Orders
<1> DEFINE has(x) == \E i \in DOMAIN clients : clients[i] = x
<1>1. OneIf(has("m"), "m") \in {<<>>, <<"m">>}
  BY DEF OneIf
<1>2. OneIf(has("p"), "p") \in {<<>>, <<"p">>}
  BY DEF OneIf
<1>3. LockOrder(clients) = OneIf(has("m"), "m") \o OneIf(has("p"), "p")
  BY DEF LockOrder
<1>. HIDE DEF has
<1>4. \A a \in {<<>>, <<"m">>}, b \in {<<>>, <<"p">>} : a \o b \in Orders
  <2>1. <<>> \o <<>> = <<>> /\ <<"m">> \o <<>> = <<"m">> /\ <<>> \o <<"p">> = <<"p">>
    OBVIOUS
  <2>2. <<"m">> \o <<"p">> = <<"m", "p">>
    <3> DEFINE both == <<"m">> \o <<"p">>
    <3>1. both \in Seq({"m", "p"}) /\ Len(both) = 2 /\ both[1] = "m" /\ both[2] = "p"
      OBVIOUS
    <3>2. <<"m", "p">> \in Seq({"m", "p"}) /\ Len(<<"m", "p">>) = 2
      OBVIOUS
    <3>3. \A i \in 1..2 : both[i] = <<"m", "p">>[i]
      <4>1. \A i \in 1..2 : i = 1 \/ i = 2
        OBVIOUS
      <4>. QED BY <3>1, <4>1
    <3>. QED BY <3>1, <3>2, <3>3, SeqEqual
  <2>. QED BY <2>1, <2>2 DEF Orders
<1>. QED BY <1>1, <1>2, <1>3, <1>4

LEMMA OrderHeads ==
  ASSUME NEW need \in Orders, need # <<>>
  PROVE  /\ Head(need) \in Clients
         /\ Tail(need) \in Orders
         /\ Tail(need) # <<>> => Head(need) = "m" /\ Head(Tail(need)) = "p"
         /\ Len(need) = 1 <=> Tail(need) = <<>>
<1>1. CASE need = <<"m">>
  BY <1>1 DEF Orders, Clients
<1>2. CASE need = <<"p">>
  BY <1>2 DEF Orders, Clients
<1>3. CASE need = <<"m", "p">>
  <2>1. Tail(need) = <<"p">> /\ Head(need) = "m" /\ Len(need) = 2
    BY <1>3
  <2>2. <<"p">> # <<>> /\ Head(<<"p">>) = "p"
    OBVIOUS
  <2>. QED BY <2>1, <2>2 DEF Orders, Clients
<1>. QED BY <1>1, <1>2, <1>3 DEF Orders

\* Who holds nothing may plan to lock in any order of the list.
LEMMA FreshTurn ==
  ASSUME NEW who, NEW need \in Orders, HoldsNothing(who)
  PROVE  InTurn(who, need)
BY DEF InTurn, HoldsNothing, Clients

LEMMA PlansInTurn ==
  ASSUME NEW kind, NEW c, NEW routes, loop' = Planned(kind, c, routes), HoldsNothing("loop")'
  PROVE  LoopLocks'
<1> DEFINE need == LockOrder(Locked(kind, c, routes))
<1>1. need \in Orders
  BY OrderType
<1>2. /\ loop'.need = need
      /\ loop'.pc = IF need = <<>> THEN "commit" ELSE "lock"
      /\ {"pc", "need"} \subseteq DOMAIN loop'
  BY DEF Planned
<1>. HIDE DEF need
<1>3. InTurn("loop", loop.need)'
  BY <1>1, <1>2 DEF InTurn, HoldsNothing, Clients
<1>. QED BY <1>2, <1>3 DEF LoopLocks
---------------------------------------------------------------------------
(* What a step leaves to the loop and to the dispatch. *)

\* A step that gives `who` no lock keeps what it waits for in turn.
LEMMA LoopLeft ==
  ASSUME LoopLocks, UNCHANGED loop, \A x \in Clients : locks'[x] = "loop" => locks[x] = "loop"
  PROVE  LoopLocks'
BY DEF LoopLocks, InTurn, HoldsNothing, Clients

LEMMA DispLeft ==
  ASSUME DispLocks, UNCHANGED disp, \A x \in Clients : locks'[x] = "disp" => locks[x] = "disp"
  PROVE  DispLocks'
BY DEF DispLocks, InTurn, HoldsNothing, Clients

\* enqueueRoutes and the dispatch unlock all they hold and nothing else.
LEMMA UnlockedHolds ==
  ASSUME Inv, NEW who \in Holders \ {"free"}, locks' = Unlocked(who)
  PROVE  /\ locks' \in [Clients -> Holders]
         /\ HoldsNothing(who)'
         /\ \A x \in Clients : locks'[x] # "free" => locks'[x] = locks[x]
BY DEF Inv, Unlocked, HoldsNothing, Holders

LEMMA TakenHolds ==
  ASSUME Inv, NEW who \in Holders \ {"free"}, NEW x \in Clients,
         locks' = [locks EXCEPT ![x] = who]
  PROVE  /\ locks' \in [Clients -> Holders]
         /\ \A y \in Clients : locks'[y] # who => locks'[y] = locks[y]
BY DEF Inv, Holders

LEMMA IdleKeeps ==
  ASSUME Inv, LoopDone, UNCHANGED disp
  PROVE  Inv'
<1>1. locks' = Unlocked("loop") /\ loop' = NoPlan
  BY DEF LoopDone
<1>2. /\ locks' \in [Clients -> Holders]
      /\ HoldsNothing("loop")'
      /\ \A x \in Clients : locks'[x] # "free" => locks'[x] = locks[x]
  BY <1>1, UnlockedHolds DEF Holders
<1>3. DispLocks'
  BY <1>2, DispLeft DEF Inv
<1>4. loop'.pc = "idle" /\ loop'.need = <<>> /\ {"pc", "need"} \subseteq DOMAIN loop'
  BY <1>1 DEF NoPlan
<1>5. LoopLocks'
  BY <1>2, <1>4 DEF LoopLocks, InTurn, Orders
<1>. QED BY <1>2, <1>3, <1>5 DEF Inv

LEMMA ReplanKeeps ==
  ASSUME Inv, UNCHANGED disp, locks' = Unlocked("loop"),
         NEW kind, NEW c, NEW routes, loop' = Planned(kind, c, routes)
  PROVE  Inv'
<1>1. /\ locks' \in [Clients -> Holders]
      /\ HoldsNothing("loop")'
      /\ \A x \in Clients : locks'[x] # "free" => locks'[x] = locks[x]
  BY UnlockedHolds DEF Holders
<1>2. DispLocks'
  BY <1>1, DispLeft DEF Inv
<1>3. LoopLocks'
  BY <1>1, PlansInTurn
<1>. QED BY <1>1, <1>2, <1>3 DEF Inv

\* The loop plans where it held nothing.
LEMMA PlanKeeps ==
  ASSUME Inv, UNCHANGED <<disp, locks>>, loop.pc = "idle",
         NEW kind, NEW c, NEW routes, loop' = Planned(kind, c, routes)
  PROVE  Inv'
<1>1. HoldsNothing("loop")'
  BY DEF Inv, LoopLocks, HoldsNothing
<1>2. LoopLocks'
  BY <1>1, PlansInTurn
<1>3. DispLocks'
  BY DispLeft DEF Inv
<1>. QED BY <1>2, <1>3 DEF Inv

\* The loop goes on to queue, with its locks.
LEMMA GoesOn ==
  ASSUME Inv, UNCHANGED <<disp, locks>>, loop.pc = "commit",
         NEW routes, loop' = [loop EXCEPT !.pc = "queue", !.routes = routes]
  PROVE  Inv'
<1>1. /\ loop'.pc = "queue" /\ loop'.need = loop.need
      /\ {"pc", "need"} \subseteq DOMAIN loop'
  BY DEF Inv, LoopLocks
<1>2. loop.need = <<>>
  BY DEF Inv, LoopLocks
<1>3. LoopLocks'
  BY <1>1, <1>2 DEF Inv, LoopLocks, InTurn, Orders
<1>4. DispLocks'
  BY DispLeft DEF Inv
<1>. QED BY <1>3, <1>4 DEF Inv

\* A step of m's, or of the dispatch outside its locks.
LEMMA OthersKeep ==
  ASSUME Inv, UNCHANGED <<loop, disp, locks>>
  PROVE  Inv'
BY LoopLeft, DispLeft DEF Inv

---------------------------------------------------------------------------
(* The loop's steps. *)
LEMMA BeginKeeps == ASSUME Inv, NEW kind, NEW c, Begin(kind, c) PROVE Inv'
<1>1. loop.pc = "idle" /\ loop' = Planned(kind, c, Routes(kind, c)) /\ UNCHANGED <<disp, locks>>
  BY DEF Begin, MayCommand, mutexes
<1>. QED BY <1>1, PlanKeeps

LEMMA MessageKeeps == ASSUME Inv, NEW kind, Message(kind) PROVE Inv'
<1>1. loop.pc = "idle" /\ UNCHANGED <<disp, locks>>
  BY DEF Message, MayCommand
<1>2. CASE loop' = Planned(kind, Direct, Routes(kind, Direct))
  BY <1>1, <1>2, PlanKeeps
<1>3. CASE UNCHANGED loop
  BY <1>1, <1>3, OthersKeep
<1>. QED BY <1>2, <1>3 DEF Message

LEMMA CommandsKeep == ASSUME Inv, SessionCommands PROVE Inv'
BY BeginKeeps, MessageKeeps
   DEF SessionCommands, Say, Own, Topic, JoinEvent, NickEvent, QuitEvent, PartEvent, KickEvent, SelfJoin

LEMMA LockKeeps == ASSUME Inv, Lock PROVE Inv'
<1> DEFINE x == Head(loop.need)
<1>1. /\ loop.pc = "lock" /\ loop.need \in Orders /\ loop.need # <<>>
      /\ UNCHANGED disp /\ locks[x] = "free"
      /\ locks' = [locks EXCEPT ![x] = "loop"]
  BY DEF Lock, Free, Inv, LoopLocks, InTurn
<1>2. /\ x \in Clients
      /\ Tail(loop.need) \in Orders
      /\ Tail(loop.need) # <<>> => x = "m" /\ Head(Tail(loop.need)) = "p"
      /\ Len(loop.need) = 1 <=> Tail(loop.need) = <<>>
  BY <1>1, OrderHeads
<1>3. /\ locks' \in [Clients -> Holders]
      /\ \A y \in Clients : locks'[y] # "loop" => locks'[y] = locks[y]
      /\ \A y \in Clients : y # x => locks'[y] = locks[y]
  BY <1>1, <1>2, TakenHolds DEF Inv, Holders
<1>4. /\ loop'.need = Tail(loop.need)
      /\ loop'.pc = IF Len(loop.need) = 1 THEN "commit" ELSE "lock"
      /\ {"pc", "need"} \subseteq DOMAIN loop'
  <2>1. loop' = [loop EXCEPT !.need = Tail(@), !.pc = IF Len(loop.need) = 1 THEN "commit" ELSE @]
    BY DEF Lock
  <2>. QED BY <1>1, <2>1 DEF Inv, LoopLocks
<1>5. InTurn("loop", loop.need)'
  <2>1. CASE Tail(loop.need) = <<>>
    BY <1>2, <1>4, <2>1 DEF InTurn
  <2>2. CASE Tail(loop.need) # <<>>
    <3>1. x = "m" /\ Head(loop.need)' = "p" /\ locks["p"] # "loop"
      BY <1>1, <1>2, <1>4, <2>2 DEF Inv, LoopLocks, InTurn
    <3>2. locks'["p"] # "loop"
      BY <1>3, <3>1 DEF Clients
    <3>. QED BY <1>2, <1>4, <3>1, <3>2 DEF InTurn
  <2>. QED BY <2>1, <2>2
<1>6. LoopLocks'
  BY <1>2, <1>4, <1>5 DEF LoopLocks
<1>7. DispLocks'
  BY <1>1, <1>3, DispLeft DEF Inv
<1>. QED BY <1>3, <1>6, <1>7 DEF Inv

LEMMA FanoutKeeps == ASSUME Inv, Fanout PROVE Inv'
<1>1. ASSUME Commit PROVE Inv'
  <2>1. /\ loop.pc = "commit" /\ UNCHANGED <<disp, locks>>
        /\ \E routes : loop' = [loop EXCEPT !.pc = "queue", !.routes = routes]
    BY <1>1 DEF Commit, mutexes
  <2>. QED BY <2>1, GoesOn
<1>2. ASSUME LateAppend PROVE Inv'
  <2>1. loop.pc = "commit" /\ UNCHANGED <<disp, locks>>
    BY <1>2 DEF LateAppend, mutexes
  <2>2. AppendScrollback(Those(loop.routes, Authorised))
    BY <1>2 DEF LateAppend
  <2>3. \E routes : loop' = [loop EXCEPT !.pc = "queue", !.routes = routes]
    BY <2>2 DEF AppendScrollback
  <2>. QED BY <2>1, <2>3, GoesOn
<1>3. ASSUME QuitFails PROVE Inv'
  <2>1. /\ loop' = Planned("latequit", "none", Routes("latequit", "none"))
        /\ locks' = Unlocked("loop") /\ UNCHANGED disp
    BY <1>3 DEF QuitFails
  <2>. QED BY <2>1, ReplanKeeps
<1>4. ASSUME Queue PROVE Inv'
  <2>1. UNCHANGED disp
    BY <1>4 DEF Queue
  <2>2. CASE loop.kind = "latequit"
    <3>1. /\ loop' = Planned("lateparts", "none", Routes("lateparts", "none"))
          /\ locks' = Unlocked("loop")
      BY <1>4, <2>2 DEF Queue
    <3>. QED BY <2>1, <3>1, ReplanKeeps
  <2>3. CASE loop.kind # "latequit"
    <3>1. LoopDone
      BY <1>4, <2>3 DEF Queue
    <3>. QED BY <2>1, <3>1, IdleKeeps
  <2>. QED BY <2>2, <2>3
<1>5. ASSUME CommitFails PROVE Inv'
  <2>1. LoopDone /\ UNCHANGED disp
    BY <1>5 DEF CommitFails
  <2>. QED BY <2>1, IdleKeeps
<1>6. ASSUME Unreplayable PROVE Inv'
  <2>1. LoopDone /\ UNCHANGED disp
    BY <1>6 DEF Unreplayable
  <2>. QED BY <2>1, IdleKeeps
<1>. QED BY <1>1, <1>2, <1>3, <1>4, <1>5, <1>6, LockKeeps DEF Fanout
---------------------------------------------------------------------------
(* The dispatch's steps. *)

\* A dispatch that is not about its locks moves on without one.
LEMMA DispMoves ==
  ASSUME Inv, UNCHANGED <<loop, locks>>, HoldsNothing("disp"),
         {"pc", "need"} \subseteq DOMAIN disp', disp'.need \in Orders,
         disp'.pc \notin {"lock", "relock"} => disp'.need = <<>>
  PROVE  Inv'
<1>1. LoopLocks'
  BY LoopLeft DEF Inv
<1>2. HoldsNothing("disp")'
  BY DEF HoldsNothing
<1>3. DispLocks'
  BY <1>2 DEF DispLocks, InTurn, HoldsNothing, Clients
<1>. QED BY <1>1, <1>3 DEF Inv

LEMMA LockDispatchKeeps == ASSUME Inv, LockDispatch PROVE Inv'
<1> DEFINE x == Head(disp.need)
<1>1. /\ disp.pc \in {"lock", "relock"} /\ disp.need \in Orders /\ disp.need # <<>>
      /\ UNCHANGED loop /\ locks[x] = "free"
      /\ locks' = [locks EXCEPT ![x] = "disp"]
  BY DEF LockDispatch, Free, Inv, DispLocks, InTurn
<1>2. /\ x \in Clients
      /\ Tail(disp.need) \in Orders
      /\ Tail(disp.need) # <<>> => x = "m" /\ Head(Tail(disp.need)) = "p"
  BY <1>1, OrderHeads
<1>3. /\ locks' \in [Clients -> Holders]
      /\ \A y \in Clients : locks'[y] # "disp" => locks'[y] = locks[y]
      /\ \A y \in Clients : y # x => locks'[y] = locks[y]
  BY <1>1, <1>2, TakenHolds DEF Inv, Holders
<1>4. /\ disp'.need = Tail(disp.need) /\ disp'.pc = disp.pc
      /\ {"pc", "need"} \subseteq DOMAIN disp'
  <2>1. disp' = [disp EXCEPT !.need = Tail(@)]
    BY DEF LockDispatch
  <2>. QED BY <2>1 DEF Inv, DispLocks
<1>5. InTurn("disp", disp.need)'
  <2>1. CASE Tail(disp.need) = <<>>
    BY <1>2, <1>4, <2>1 DEF InTurn
  <2>2. CASE Tail(disp.need) # <<>>
    <3>1. x = "m" /\ Head(disp.need)' = "p" /\ locks["p"] # "disp"
      BY <1>1, <1>2, <1>4, <2>2 DEF Inv, DispLocks, InTurn
    <3>2. locks'["p"] # "disp"
      BY <1>3, <3>1 DEF Clients
    <3>. QED BY <1>2, <1>4, <3>1, <3>2 DEF InTurn
  <2>. QED BY <2>1, <2>2
<1>6. DispLocks'
  BY <1>1, <1>2, <1>4, <1>5 DEF DispLocks
<1>7. LoopLocks'
  BY <1>1, <1>3, LoopLeft DEF Inv
<1>. QED BY <1>3, <1>6, <1>7 DEF Inv

\* The announcement is made, or dropped, and the locks are given back.
LEMMA AnnouncedKeeps ==
  ASSUME Inv, locks' = Unlocked("disp"), UNCHANGED loop, disp.need = <<>>,
         NEW pc \in {"turn", "done"}, disp' = [disp EXCEPT !.pc = pc]
  PROVE  Inv'
<1>1. /\ locks' \in [Clients -> Holders]
      /\ HoldsNothing("disp")'
      /\ \A x \in Clients : locks'[x] # "free" => locks'[x] = locks[x]
  BY UnlockedHolds DEF Holders
<1>2. LoopLocks'
  BY <1>1, LoopLeft DEF Inv
<1>3. disp'.need = <<>> /\ {"pc", "need"} \subseteq DOMAIN disp'
  BY DEF Inv, DispLocks
<1>4. DispLocks'
  BY <1>1, <1>3 DEF DispLocks, InTurn, Orders
<1>. QED BY <1>1, <1>2, <1>4 DEF Inv

LEMMA DispatchesKeep == ASSUME Inv, Dispatches PROVE Inv'
<1>0. disp.pc \notin {"lock", "relock"} => disp.need = <<>> /\ HoldsNothing("disp")
  BY DEF Inv, DispLocks
<1>1. ASSUME NEW c \in Chans, BeginDispatch(c) PROVE Inv'
  <2>1. disp.pc = "none" /\ UNCHANGED <<loop, locks>>
    BY <1>1 DEF BeginDispatch, mutexes
  <2>2. disp'.pc = "admit" /\ disp'.need = <<>> /\ {"pc", "need"} \subseteq DOMAIN disp'
    BY <1>1 DEF BeginDispatch
  <2>. QED BY <1>0, <2>1, <2>2, DispMoves DEF Orders
<1>2. ASSUME BeginDirectDispatch PROVE Inv'
  <2>1. disp.pc = "none" /\ UNCHANGED <<loop, locks>>
    BY <1>2 DEF BeginDirectDispatch, mutexes
  <2>2. disp' = DispatchOf({Direct}, <<>>, <<"p", "m">>)
    BY <1>2 DEF BeginDirectDispatch
  <2>3. disp'.pc = "lock" /\ disp'.need \in Orders /\ {"pc", "need"} \subseteq DOMAIN disp'
    BY <2>2, OrderType DEF DispatchOf
  <2>. QED BY <1>0, <2>1, <2>3, DispMoves
<1>3. ASSUME AdmitDispatch PROVE Inv'
  <2>1. disp.pc = "admit" /\ UNCHANGED <<loop, locks>>
    BY <1>3 DEF AdmitDispatch, mutexes
  <2>2. CASE disp' = DispatchOf(disp.wins, disp.auth, <<"m", "p">>)
    <3>1. disp'.pc = "lock" /\ disp'.need \in Orders /\ {"pc", "need"} \subseteq DOMAIN disp'
      BY <2>2, OrderType DEF DispatchOf
    <3>. QED BY <1>0, <2>1, <3>1, DispMoves
  <2>3. CASE disp' = [disp EXCEPT !.pc = "done"]
    <3>1. disp'.pc = "done" /\ disp'.need = <<>> /\ {"pc", "need"} \subseteq DOMAIN disp'
      BY <1>0, <2>1, <2>3 DEF Inv, DispLocks
    <3>. QED BY <1>0, <2>1, <3>1, DispMoves DEF Orders
  <2>. QED BY <1>3, <2>2, <2>3 DEF AdmitDispatch
<1>4. ASSUME Start PROVE Inv'
  <2>1. disp.need = <<>> /\ locks' = Unlocked("disp") /\ UNCHANGED loop
    BY <1>4 DEF Start
  <2>2. \E pc \in {"turn", "done"} : disp' = [disp EXCEPT !.pc = pc]
    BY <1>4 DEF Start
  <2>. QED BY <2>1, <2>2, AnnouncedKeeps
<1>5. ASSUME TurnEnds PROVE Inv'
  <2>1. disp.pc = "turn" /\ UNCHANGED <<loop, locks>>
    BY <1>5 DEF TurnEnds, mutexes
  <2>2. disp' = [disp EXCEPT !.pc = "relock", !.need = LockOrder(<<"m">>)]
    BY <1>5 DEF TurnEnds
  <2>3. disp'.pc = "relock" /\ disp'.need \in Orders /\ {"pc", "need"} \subseteq DOMAIN disp'
    BY <2>2, OrderType DEF Inv, DispLocks
  <2>. QED BY <1>0, <2>1, <2>3, DispMoves
<1>6. ASSUME Done PROVE Inv'
  <2>1. /\ disp.need = <<>> /\ locks' = Unlocked("disp") /\ UNCHANGED loop
        /\ disp' = [disp EXCEPT !.pc = "done"]
    BY <1>6 DEF Done
  <2>. QED BY <2>1, AnnouncedKeeps
<1>. QED BY <1>1, <1>2, <1>3, <1>4, <1>5, <1>6, LockDispatchKeeps DEF Dispatches
---------------------------------------------------------------------------
(* The client's steps: of the replay locks it takes only its own, to read. *)
LEMMA ClientKeeps == ASSUME Inv, Client PROVE Inv'
<1>1. ASSUME NEW c \in Chans, ScrollbackBegin(c) PROVE Inv'
  <2>1. UNCHANGED <<loop, disp>>
    BY <1>1 DEF ScrollbackBegin
  <2>2. CASE UNCHANGED locks
    BY <2>1, <2>2, OthersKeep
  <2>3. CASE locks' = [locks EXCEPT !["m"] = "load"]
    <3>1. /\ locks' \in [Clients -> Holders]
          /\ \A y \in Clients : locks'[y] # "load" => locks'[y] = locks[y]
      BY <2>3, TakenHolds DEF Clients, Holders
    <3>2. LoopLocks' /\ DispLocks'
      BY <2>1, <3>1, LoopLeft, DispLeft DEF Inv
    <3>. QED BY <3>1, <3>2 DEF Inv
  <2>. QED BY <1>1, <2>2, <2>3 DEF ScrollbackBegin
<1>2. ASSUME ScrollbackRead PROVE Inv'
  <2>1. locks' = Unlocked("load") /\ UNCHANGED <<loop, disp>>
    BY <1>2 DEF ScrollbackRead
  <2>2. /\ locks' \in [Clients -> Holders]
        /\ \A x \in Clients : locks'[x] # "free" => locks'[x] = locks[x]
    BY <2>1, UnlockedHolds DEF Holders
  <2>3. LoopLocks' /\ DispLocks'
    BY <2>1, <2>2, LoopLeft, DispLeft DEF Inv
  <2>. QED BY <2>2, <2>3 DEF Inv
<1>3. ASSUME Subscribe \/ ListChannels \/ Replies \/ ActivateClient PROVE Inv'
  <2>1. UNCHANGED <<loop, disp, locks>>
    BY <1>3 DEF Subscribe, ListChannels, Replies, ActivateClient, mutexes
  <2>. QED BY <2>1, OthersKeep
<1>4. ASSUME NEW k, NEW reads, Burst(k, reads) PROVE Inv'
  <2>1. UNCHANGED <<loop, disp, locks>>
    BY <1>4 DEF Burst, mutexes
  <2>. QED BY <2>1, OthersKeep
<1>. QED BY <1>1, <1>2, <1>3, <1>4 DEF Client
---------------------------------------------------------------------------
LEMMA InitRight == ReplayInit => Inv
<1> SUFFICES ASSUME ReplayInit PROVE Inv
  OBVIOUS
<1>1. locks \in [Clients -> Holders] /\ HoldsNothing("loop") /\ HoldsNothing("disp")
  BY DEF ReplayInit, Clients, Holders, HoldsNothing
<1>2. /\ loop.pc = "idle" /\ loop.need = <<>> /\ {"pc", "need"} \subseteq DOMAIN loop
      /\ disp.pc = "none" /\ disp.need = <<>> /\ {"pc", "need"} \subseteq DOMAIN disp
  BY DEF ReplayInit, NoPlan
<1>3. InTurn("loop", loop.need) /\ InTurn("disp", disp.need)
  BY <1>2 DEF InTurn, Orders
<1>. QED BY <1>1, <1>2, <1>3 DEF Inv, LoopLocks, DispLocks

LEMMA NextKeeps == Inv /\ [ReplayNext]_replayVars => Inv'
<1> SUFFICES ASSUME Inv, [ReplayNext]_replayVars PROVE Inv'
  OBVIOUS
<1>1. CASE UNCHANGED replayVars
  BY <1>1, OthersKeep DEF replayVars, mutexes
<1>. QED BY <1>1, CommandsKeep, FanoutKeeps, DispatchesKeep, ClientKeeps DEF ReplayNext

LEMMA InvParts == Inv => NoLockCycle
BY DEF Inv, LoopLocks, DispLocks, InTurn, Orders, NoLockCycle

(* The server's loop and a dispatch from another goroutine each take replay locks
   one at a time and wait for each while holding others; neither ever waits for a lock
   the other holds while the other waits for one of its own
   (fanout.go's lockRouteSubscriptions). *)
THEOREM LocksInOrder == ReplaySpec => []NoLockCycle
<1>1. ReplayInit => Inv
  BY InitRight
<1>2. Inv /\ [ReplayNext]_replayVars => Inv'
  BY NextKeeps
<1>3. Inv => NoLockCycle
  BY InvParts
<1>. QED BY <1>1, <1>2, <1>3, PTL DEF ReplaySpec
---------------------------------------------------------------------------
(* Sequences of numbers, and what a selection of one keeps. *)

\* What a selection keeps, it keeps in order.
LEMMA Ranked ==
  ASSUME NEW L \in Nat, NEW at \in SUBSET (1..L)
  PROVE  /\ Cardinality(at) \in Nat
         /\ \A i \in at : Rank(at, i) \in 1..Cardinality(at)
         /\ \A i, j \in at : i < j => Rank(at, i) < Rank(at, j)
         /\ \A k \in 1..Cardinality(at) : \E i \in at : Rank(at, i) = k
<1>. DEFINE C == Cardinality(at)
            Upto(i) == {j \in at : j <= i}
<1>0. \A i \in at : i \in Nat
  OBVIOUS
<1>1. IsFiniteSet(at) /\ C \in Nat
  <2>1. IsFiniteSet(1..L)
    BY FS_Interval
  <2>. QED BY <2>1, FS_Subset, FS_CardinalityType
<1>2. ASSUME NEW i \in at PROVE IsFiniteSet(Upto(i)) /\ Cardinality(Upto(i)) \in 1..C
  <2>1. Upto(i) \in SUBSET at /\ Upto(i) # {}
    OBVIOUS
  <2>2. IsFiniteSet(Upto(i)) /\ Cardinality(Upto(i)) <= C
    BY <1>1, <2>1, FS_Subset
  <2>3. Cardinality(Upto(i)) \in Nat /\ Cardinality(Upto(i)) # 0
    BY <2>1, <2>2, FS_CardinalityType, FS_EmptySet
  <2>. QED BY <1>1, <2>2, <2>3
<1>3. ASSUME NEW i \in at, NEW j \in at, i < j PROVE Cardinality(Upto(i)) < Cardinality(Upto(j))
  <2>0. i \in Nat /\ j \in Nat
    BY <1>0
  <2>1. \A m \in Upto(i) : m \in Upto(j)
    BY <1>0, <1>3, <2>0
  <2>1a. j \in Upto(j) /\ j \notin Upto(i)
    BY <1>3, <2>0
  <2>1b. Upto(i) \in SUBSET Upto(j)
    BY <2>1
  <2>2. Cardinality(Upto(i)) <= Cardinality(Upto(j)) /\ Cardinality(Upto(i)) # Cardinality(Upto(j))
    BY <1>2, <2>1a, <2>1b, FS_Subset
  <2>. QED BY <1>2, <2>2
<1>4. \A i \in at : Rank(at, i) = Cardinality(Upto(i))
  BY DEF Rank
<1>5. ASSUME NEW k \in 1..C, \A i \in at : Rank(at, i) # k PROVE FALSE
  <2>. DEFINE rest == (1..C) \ {k}
              r == [i \in at |-> Rank(at, i)]
  <2>1. IsFiniteSet(1..C) /\ Cardinality(1..C) = C
    BY <1>1, FS_Interval
  <2>2. IsFiniteSet(rest) /\ Cardinality(rest) = C - 1
    BY <1>1, <2>1, FS_RemoveElement
  <2>3. r \in [at -> rest]
    BY <1>2, <1>4, <1>5
  <2>4. Cardinality(rest) < Cardinality(at)
    BY <1>1, <2>2
  <2>. HIDE DEF r, rest
  <2>5. PICK i \in at, j \in at : i # j /\ r[i] = r[j]
    BY <1>1, <2>2, <2>3, <2>4, FS_PigeonHole
  <2>6. Cardinality(Upto(i)) = Cardinality(Upto(j)) /\ (i < j \/ j < i)
    BY <1>0, <1>4, <2>5 DEF r
  <2>. QED BY <1>2, <1>3, <2>6
<1>. QED BY <1>1, <1>2, <1>3, <1>4, <1>5

\* The places of what is selected, in order.
Place(at, k) == CHOOSE i \in at : Rank(at, i) = k

\* What a selection is: the items at those places, in their order, and nothing else.
LEMMA Selected ==
  ASSUME NEW S, NEW seq \in Seq(S), NEW at \in SUBSET (1..Len(seq))
  PROVE  /\ At(seq, at) \in Seq(S)
         /\ \A k \in 1..Len(At(seq, at)) : Place(at, k) \in at /\ At(seq, at)[k] = seq[Place(at, k)]
         /\ \A k, m \in 1..Len(At(seq, at)) : k < m => Place(at, k) < Place(at, m)
         /\ \A i \in at : \E k \in 1..Len(At(seq, at)) : Place(at, k) = i
<1>. DEFINE C == Cardinality(at)
            t == At(seq, at)
<1>0. \A i \in at : i \in Nat
  BY LenProperties
<1>1. /\ C \in Nat
      /\ \A i \in at : Rank(at, i) \in 1..C
      /\ \A i, j \in at : i < j => Rank(at, i) < Rank(at, j)
      /\ \A k \in 1..C : \E i \in at : Rank(at, i) = k
  BY Ranked, LenProperties
<1>2. \A k \in 1..C : Place(at, k) \in at /\ Rank(at, Place(at, k)) = k
  BY <1>1 DEF Place
<1>3. t = [k \in 1..C |-> seq[Place(at, k)]]
  BY DEF At, Place
<1>4. \A k \in 1..C : seq[Place(at, k)] \in S
  BY <1>2, ElementOfSeq
<1>5. t \in [1..C -> S]
  BY <1>3, <1>4
<1>. HIDE DEF C, t
<1>6. t \in Seq(S) /\ Len(t) = C
  BY <1>1, <1>5
<1>7. \A k \in 1..C : t[k] = seq[Place(at, k)]
  BY <1>3
<1>8. \A k, m \in 1..C : k < m => Place(at, k) < Place(at, m)
  <2>1. SUFFICES ASSUME NEW k \in 1..C, NEW m \in 1..C, k < m, ~(Place(at, k) < Place(at, m)) PROVE FALSE
    OBVIOUS
  <2>2a. Place(at, k) \in at /\ Place(at, m) \in at
    BY <1>2
  <2>2b. Place(at, k) \in Nat /\ Place(at, m) \in Nat
    BY <1>0, <2>2a
  <2>2. k \in Nat /\ m \in Nat
    BY <1>1
  <2>3. Place(at, m) < Place(at, k) \/ Place(at, m) = Place(at, k)
    BY <2>1, <2>2b
  <2>4. m < k \/ m = k
    BY <1>1, <1>2, <2>3
  <2>. QED BY <2>1, <2>2, <2>4
<1>9. ASSUME NEW i \in at PROVE \E k \in 1..C : Place(at, k) = i
  <2>. DEFINE k == Rank(at, i)
              p == Place(at, k)
  <2>1. k \in 1..C /\ p \in at /\ Rank(at, p) = k
    BY <1>1, <1>2
  <2>. HIDE DEF p
  <2>2. p \in Nat /\ i \in Nat
    BY <1>0, <2>1
  <2>3. ~(p < i) /\ ~(i < p)
    BY <1>1, <2>1, <2>2
  <2>4. p = i
    BY <2>2, <2>3
  <2>. QED BY <2>1, <2>4 DEF p
<1>. QED BY <1>2, <1>6, <1>7, <1>8, <1>9 DEF t

\* Selecting every place of a sequence gives the sequence.
LEMMA AllSelected ==
  ASSUME NEW S, NEW seq \in Seq(S)
  PROVE  At(seq, 1..Len(seq)) = seq
<1>. DEFINE L == Len(seq)
            t == At(seq, 1..L)
<1>1. L \in Nat
  BY LenProperties
<1>2. \A k \in 1..L : Rank(1..L, k) = k
  <2>1. SUFFICES ASSUME NEW k \in 1..L PROVE Rank(1..L, k) = k
    OBVIOUS
  <2>2. {j \in 1..L : j <= k} = 1..k
    BY <1>1
  <2>3. Cardinality(1..k) = k
    BY <1>1, FS_Interval
  <2>. QED BY <2>2, <2>3 DEF Rank
<1>3. \A k \in 1..L : Place(1..L, k) = k
  BY <1>2 DEF Place
<1>4. Cardinality(1..L) = L
  <2>. HIDE DEF L
  <2>. QED BY <1>1, FS_Interval
<1>5. t = [k \in 1..L |-> seq[Place(1..L, k)]]
  BY <1>4 DEF At, Place
<1>6. t = [k \in 1..L |-> seq[k]]
  BY <1>3, <1>5
<1>. QED BY <1>6, LenProperties
---------------------------------------------------------------------------
(* Ids only grow along the sequences: such a sequence is known from its elements. *)

Rising(s) == \A i, j \in 1..Len(s) : i < j => s[i] < s[j]

\* Some number of a set of them comes first.
LEMMA LeastNumber ==
  ASSUME NEW S \in SUBSET Nat, S # {}
  PROVE  \E x \in S : \A y \in S : x <= y
<1>1. PICK x \in S : \A y \in S : ~ (<<y, x>> \in OpToRel(<, Nat))
  BY WFMin, NatLessThanWellFounded, Zenon
<1>2. \A y \in S : ~ (y < x)
  BY <1>1 DEF OpToRel
<1>. QED BY <1>2

\* What a sequence holds.
LEMMA RangeIs ==
  ASSUME NEW S, NEW s \in Seq(S)
  PROVE  /\ Range(s) \subseteq S
         /\ \A i \in 1..Len(s) : s[i] \in Range(s)
         /\ \A x \in Range(s) : \E i \in 1..Len(s) : s[i] = x
         /\ Range(s) = {s[i] : i \in 1..Len(s)}
BY LenProperties, ElementOfSeq DEF Range

\* As far as two agree, the next is in neither before the other.
LEMMA RisingAgree ==
  ASSUME NEW s \in Seq(Nat), NEW t \in Seq(Nat), Rising(s), Rising(t), Range(s) = Range(t),
         NEW k \in 1..Len(s), \A i \in 1..(k - 1) : i \in 1..Len(t) /\ s[i] = t[i]
  PROVE  k \in 1..Len(t) /\ t[k] <= s[k]
<1>1. /\ Len(s) \in Nat /\ Len(t) \in Nat /\ k \in Nat /\ s[k] \in Nat
      /\ \A i \in 1..Len(t) : t[i] \in Nat
  BY LenProperties, ElementOfSeq
<1>2. PICK j \in 1..Len(t) : t[j] = s[k]
  BY RangeIs
<1>3. j >= k
  <2>1. SUFFICES ASSUME j < k PROVE FALSE
    BY <1>1
  <2>2. j \in 1..(k - 1) /\ j \in 1..Len(s)
    BY <1>1, <2>1
  <2>3. s[j] = t[j] /\ s[j] < s[k]
    BY <2>1, <2>2 DEF Rising
  <2>. QED BY <1>1, <1>2, <2>3
<1>4. k \in 1..Len(t)
  BY <1>1, <1>3
<1>5. k = j \/ t[k] < t[j]
  BY <1>1, <1>3, <1>4 DEF Rising
<1>. QED BY <1>1, <1>2, <1>4, <1>5

\* Two rising sequences of the same numbers are one sequence.
LEMMA RisingEqual ==
  ASSUME NEW s \in Seq(Nat), NEW t \in Seq(Nat), Rising(s), Rising(t), Range(s) = Range(t)
  PROVE  s = t
<1>1. /\ Len(s) \in Nat /\ Len(t) \in Nat
      /\ \A i \in 1..Len(s) : s[i] \in Nat
      /\ \A i \in 1..Len(t) : t[i] \in Nat
  BY LenProperties, ElementOfSeq
<1>. DEFINE Bad == {k \in Nat : (k \in 1..Len(s) \/ k \in 1..Len(t)) /\ ~(k \in 1..Len(s) /\ k \in 1..Len(t) /\ s[k] = t[k])}
<1>2. Bad = {}
  <2>1. SUFFICES ASSUME Bad # {} PROVE FALSE
    OBVIOUS
  <2>2. PICK k \in Bad : \A m \in Bad : k <= m
    BY <2>1, LeastNumber
  <2>3. k \in Nat \ {0} /\ \A i \in 1..(k - 1) : i \in 1..Len(s) /\ i \in 1..Len(t) /\ s[i] = t[i]
    <3>1. k \in Nat \ {0} /\ (k \in 1..Len(s) \/ k \in 1..Len(t))
      OBVIOUS
    <3>2. ASSUME NEW i \in 1..(k - 1) PROVE i \notin Bad /\ i \in Nat /\ (i \in 1..Len(s) \/ i \in 1..Len(t))
      BY <1>1, <2>2, <3>1
    <3>. QED BY <3>1, <3>2
  <2>4. k \in 1..Len(s) => k \in 1..Len(t) /\ t[k] <= s[k]
    BY <2>3, RisingAgree
  <2>5. k \in 1..Len(t) => k \in 1..Len(s) /\ s[k] <= t[k]
    BY <2>3, RisingAgree
  <2>. QED BY <1>1, <2>4, <2>5
<1>3. \A k \in Nat : k \in 1..Len(s) => k \in 1..Len(t) /\ s[k] = t[k]
  BY <1>2
<1>4. \A k \in Nat : k \in 1..Len(t) => k \in 1..Len(s)
  BY <1>2
<1>. HIDE DEF Bad
<1>5. Len(s) = Len(t)
  <2>1. Len(s) <= Len(t)
    <3>1. Len(s) = 0 \/ Len(s) \in 1..Len(s)
      BY <1>1
    <3>. QED BY <1>1, <1>3, <3>1
  <2>2. Len(t) <= Len(s)
    <3>1. Len(t) = 0 \/ Len(t) \in 1..Len(t)
      BY <1>1
    <3>. QED BY <1>1, <1>4, <3>1
  <2>. QED BY <1>1, <2>1, <2>2
<1>. QED BY <1>1, <1>3, <1>5, SeqEqual

\* Rising sequences follow each other where all of the first comes before the second.
LEMMA RisingConcat ==
  ASSUME NEW S \in SUBSET Nat, NEW s \in Seq(S), NEW t \in Seq(S), Rising(s), Rising(t),
         \A x \in Range(s), y \in Range(t) : x < y
  PROVE  s \o t \in Seq(S) /\ Rising(s \o t) /\ Range(s \o t) = Range(s) \cup Range(t)
<1>. DEFINE u == s \o t
            a == Len(s)
            b == Len(t)
<1>1. /\ a \in Nat /\ b \in Nat /\ u \in Seq(S) /\ Len(u) = a + b
      /\ \A i \in 1..a+b : u[i] = IF i <= a THEN s[i] ELSE t[i - a]
  BY ConcatProperties, LenProperties
<1>2. /\ \A i \in 1..a : s[i] \in Range(s) /\ s[i] \in Nat
      /\ \A i \in 1..b : t[i] \in Range(t) /\ t[i] \in Nat
  BY RangeIs
<1>. HIDE DEF u
<1>3. Rising(u)
  <2>1. SUFFICES ASSUME NEW i \in 1..(a + b), NEW j \in 1..(a + b), i < j PROVE u[i] < u[j]
    BY <1>1 DEF Rising
  <2>2. CASE j <= a
    BY <1>1, <2>1, <2>2 DEF Rising
  <2>3. CASE i > a
    <3>1. i - a \in 1..b /\ j - a \in 1..b /\ i - a < j - a /\ ~(i <= a) /\ ~(j <= a)
      BY <1>1, <2>1, <2>3
    <3>2. t[i - a] < t[j - a]
      BY <3>1 DEF Rising
    <3>. QED BY <1>1, <3>1, <3>2
  <2>4. CASE i <= a /\ j > a
    <3>1. i \in 1..a /\ j - a \in 1..b /\ ~(j <= a)
      BY <1>1, <2>1, <2>4
    <3>2. s[i] < t[j - a]
      BY <1>2, <3>1
    <3>. QED BY <1>1, <2>4, <3>1, <3>2
  <2>. QED BY <1>1, <2>2, <2>3, <2>4
<1>4. Range(u) = Range(s) \cup Range(t)
  <2>1. ASSUME NEW x \in Range(u) PROVE x \in Range(s) \cup Range(t)
    <3>1. PICK i \in 1..(a + b) : u[i] = x
      BY <1>1, RangeIs
    <3>2. i \in 1..a \/ (i - a \in 1..b /\ ~(i <= a))
      BY <1>1
    <3>. QED BY <1>1, <1>2, <3>1, <3>2
  <2>2. ASSUME NEW x \in Range(s) PROVE x \in Range(u)
    <3>1. PICK i \in 1..a : s[i] = x
      BY RangeIs
    <3>2. i \in 1..(a + b) /\ i <= a
      BY <1>1
    <3>. QED BY <1>1, <3>1, <3>2, RangeIs
  <2>3. ASSUME NEW x \in Range(t) PROVE x \in Range(u)
    <3>1. PICK i \in 1..b : t[i] = x
      BY RangeIs
    <3>2. i + a \in 1..(a + b) /\ ~(i + a <= a) /\ (i + a) - a = i
      BY <1>1
    <3>. QED BY <1>1, <3>1, <3>2, RangeIs
  <2>. QED BY <2>1, <2>2, <2>3
<1>. QED BY <1>1, <1>3, <1>4 DEF u
---------------------------------------------------------------------------
(* What routes and deliveries are, and the order of a queue. *)

Numbers == Nat \ {0}

(* What is queued for m. *)
Directs == {"dm", "owndm"}
Departs == {"part", "kick"}
Turns == Departs \cup {"selfjoin"}
Signs == {"started", "done"}
Rows == {"say", "topic", "join", "own", "selfjoin", "nick", "quit", "latequit", "leave"}
Kinds == Directs \cup Departs \cup Signs \cup Rows

\* A row's windows are those it is filed in; a message, a departure and a sign have none.
Fits(x) ==
  /\ x.kind \in Directs => x.wins = {Direct} /\ x.ids = {}
  /\ x.kind \in Departs => x.wins \subseteq Chans /\ x.ids = {}
  /\ x.kind \in Signs => x.ids = {}
  /\ x.kind \in Rows => x.wins = x.ids

Auths == UNION {[D -> Nat] : D \in SUBSET Chans}
Routed == {r \in [kind : Kinds \ Signs, wins : SUBSET Windows, ids : SUBSET Chans, auth : Auths] : Fits(r)}
Deliveries == {x \in [kind : Kinds, wins : SUBSET Windows, ids : SUBSET Chans, id : Nat] :
                 Fits(x) /\ (x.kind \in Signs <=> x.id = 0)}

Apart(routes) == \A i, j \in 1..Len(routes) : i # j => routes[i].wins \cap routes[j].wins = {}

\* Of one window, the later has the greater number.
InOrder(q) ==
  \A i, j \in 1..Len(q) :
    i < j /\ q[i].id # 0 /\ q[j].id # 0 /\ q[i].wins \cap q[j].wins # {} => q[i].id < q[j].id

\* The numbers of selected deliveries rise where the deliveries are in order.
LEMMA IdsAt ==
  ASSUME NEW S \in SUBSET Nat, NEW q \in Seq(Deliveries), NEW at \in SUBSET (1..Len(q)),
         \A i \in at : q[i].id \in S,
         \A i, j \in at : i < j => q[i].id < q[j].id
  PROVE  /\ Ids(At(q, at)) \in Seq(S) /\ Rising(Ids(At(q, at)))
         /\ Range(Ids(At(q, at))) = {q[i].id : i \in at}
<1>. DEFINE t == At(q, at)
            u == Ids(t)
            P(k) == Place(at, k)
<1>1. /\ t \in Seq(Deliveries)
      /\ \A k \in 1..Len(t) : P(k) \in at /\ t[k] = q[P(k)]
      /\ \A k, m \in 1..Len(t) : k < m => P(k) < P(m)
      /\ \A i \in at : \E k \in 1..Len(t) : P(k) = i
  BY Selected
<1>. HIDE DEF t, P
<1>2. Len(t) \in Nat /\ DOMAIN t = 1..Len(t)
  BY <1>1, LenProperties
<1>3. u = [k \in 1..Len(t) |-> t[k].id]
  BY <1>2 DEF Ids
<1>4. \A k \in 1..Len(t) : t[k].id \in S
  BY <1>1
<1>5. u \in Seq(S) /\ Len(u) = Len(t) /\ \A k \in 1..Len(t) : u[k] = t[k].id
  BY <1>2, <1>3, <1>4
<1>. HIDE DEF u
<1>6. Rising(u)
  <2>1. SUFFICES ASSUME NEW k \in 1..Len(t), NEW m \in 1..Len(t), k < m PROVE u[k] < u[m]
    BY <1>5 DEF Rising
  <2>2. q[P(k)].id < q[P(m)].id
    BY <1>1, <2>1
  <2>. QED BY <1>1, <1>5, <2>2
<1>7. ASSUME NEW x \in Range(u) PROVE \E i \in at : x = q[i].id
  <2>1. PICK k \in 1..Len(t) : u[k] = x
    BY <1>5, RangeIs
  <2>. QED BY <1>1, <1>5, <2>1
<1>8. ASSUME NEW i \in at PROVE q[i].id \in Range(u)
  <2>1. PICK k \in 1..Len(t) : P(k) = i
    BY <1>1
  <2>2. u[k] = q[i].id
    BY <1>1, <1>5, <2>1
  <2>. QED BY <1>5, <2>2, RangeIs
<1>9. Range(u) = {q[i].id : i \in at}
  BY <1>7, <1>8
<1>. QED BY <1>5, <1>6, <1>9 DEF u, t

\* What comes before a number in a rising sequence.
LEMMA BeforeIs ==
  ASSUME NEW S \in SUBSET Nat, NEW s \in Seq(S), Rising(s), NEW x
  PROVE  /\ Before(s, x) \in Seq(S) /\ Rising(Before(s, x))
         /\ Range(Before(s, x)) = {y \in Range(s) : y < x}
<1>. DEFINE at == {i \in 1..Len(s) : s[i] < x}
            t == At(s, at)
            P(k) == Place(at, k)
<1>1. Before(s, x) = t
  BY LenProperties DEF Before, Those
<1>2. at \in SUBSET (1..Len(s))
  OBVIOUS
<1>3. \A i \in at : s[i] < x /\ i \in 1..Len(s)
  OBVIOUS
<1>4. \A i \in 1..Len(s) : s[i] < x => i \in at
  OBVIOUS
<1>. HIDE DEF at
<1>5. /\ t \in Seq(S)
      /\ \A k \in 1..Len(t) : P(k) \in at /\ t[k] = s[P(k)]
      /\ \A k, m \in 1..Len(t) : k < m => P(k) < P(m)
      /\ \A i \in at : \E k \in 1..Len(t) : P(k) = i
  BY <1>2, Selected
<1>. HIDE DEF t, P
<1>6. Rising(t)
  <2>1. SUFFICES ASSUME NEW k \in 1..Len(t), NEW m \in 1..Len(t), k < m PROVE t[k] < t[m]
    BY DEF Rising
  <2>2. P(k) < P(m) /\ P(k) \in 1..Len(s) /\ P(m) \in 1..Len(s)
    BY <1>3, <1>5, <2>1
  <2>3. s[P(k)] < s[P(m)]
    BY <2>2 DEF Rising
  <2>. QED BY <1>5, <2>3
<1>7. ASSUME NEW y \in Range(t) PROVE y \in Range(s) /\ y < x
  <2>1. PICK k \in 1..Len(t) : t[k] = y
    BY <1>5, RangeIs
  <2>2. P(k) \in 1..Len(s) /\ s[P(k)] < x /\ y = s[P(k)]
    BY <1>3, <1>5, <2>1
  <2>. QED BY <2>2, RangeIs
<1>8. ASSUME NEW y \in Range(s), y < x PROVE y \in Range(t)
  <2>1. PICK i \in 1..Len(s) : s[i] = y
    BY RangeIs
  <2>2. PICK k \in 1..Len(t) : P(k) = i
    BY <1>4, <1>5, <1>8, <2>1
  <2>3. t[k] = y
    BY <1>5, <2>1, <2>2
  <2>. QED BY <1>5, <2>3, RangeIs
<1>. QED BY <1>1, <1>5, <1>6, <1>7, <1>8

\* The messages of the direct conversation in a queue.
DirectAt(q) == {i \in 1..Len(q) : q[i].kind \in Directs}

\* The direct messages of a queue, in their order.
LEMMA DirectIdsAre ==
  ASSUME NEW q \in Seq(Deliveries), InOrder(q)
  PROVE  /\ DirectIds(q) \in Seq(Numbers) /\ Rising(DirectIds(q))
         /\ Range(DirectIds(q)) = {q[i].id : i \in DirectAt(q)}
<1>1. Len(q) \in Nat /\ DOMAIN q = 1..Len(q) /\ \A i \in 1..Len(q) : q[i] \in Deliveries
  BY LenProperties, ElementOfSeq
<1>2. DirectIds(q) = Ids(At(q, DirectAt(q)))
  BY <1>1 DEF DirectIds, Those, IsDirect, DirectAt, Directs
<1>3. DirectAt(q) \in SUBSET (1..Len(q))
  BY DEF DirectAt
<1>4. \A x \in Deliveries : x.kind \in Directs => x.id \in Numbers /\ x.wins = {Direct}
  BY DEF Deliveries, Fits, Numbers, Directs, Signs
<1>5. \A i \in DirectAt(q) : q[i].id \in Numbers /\ q[i].wins = {Direct}
  BY <1>1, <1>4 DEF DirectAt
<1>6. ASSUME NEW i \in DirectAt(q), NEW j \in DirectAt(q), i < j PROVE q[i].id < q[j].id
  <2>1. q[i].wins \cap q[j].wins # {} /\ q[i].id # 0 /\ q[j].id # 0
    BY <1>5 DEF Numbers
  <2>. QED BY <1>3, <1>6, <2>1 DEF InOrder
<1>7. Numbers \in SUBSET Nat
  BY DEF Numbers
<1>. QED BY <1>2, <1>3, <1>5, <1>6, <1>7, IdsAt
---------------------------------------------------------------------------
(* Filing a queue. *)

FilesAt(q, c) == {i \in 1..Len(q) : Files(q[i], c)}
MovesAt(q, c) == {i \in 1..Len(q) : Moves(q[i], c)}
LastsAt(q, c) == {i \in FilesAt(q, c) : \A j \in MovesAt(q, c) : j <= i}

\* What a queue leaves of a buffer, and that it and what is filed of the queue are a membership's rows.
Left(h, q, c) == IF MovesAt(q, c) = {} THEN Known(h[c]) ELSE <<>>
Matches(h, q, r, c) ==
  /\ Known(h[c]) \in Seq(Numbers) /\ Rising(Left(h, q, c))
  /\ \A x \in Range(Left(h, q, c)), i \in LastsAt(q, c) : x < q[i].id
  /\ Range(Left(h, q, c)) \cup {q[i].id : i \in LastsAt(q, c)} = Range(r)

\* What is filed of a channel is a row of it.
LEMMA FilesFit ==
  ASSUME NEW q \in Seq(Deliveries), NEW c \in Chans, NEW i \in FilesAt(q, c)
  PROVE  /\ i \in 1..Len(q) /\ c \in q[i].wins /\ q[i].id \in Numbers
         /\ q[i].kind \in Rows /\ c \in q[i].ids
<1>1. i \in 1..Len(q) /\ Files(q[i], c) /\ q[i] \in Deliveries
  BY ElementOfSeq DEF FilesAt
<1>2. \A x \in Deliveries : Files(x, c) => /\ x.id \in Numbers /\ c \in x.wins
                                           /\ x.kind \in Rows /\ c \in x.ids
  <2>1. SUFFICES ASSUME NEW x \in Deliveries, Files(x, c)
                 PROVE  x.id \in Numbers /\ c \in x.wins /\ x.kind \in Rows /\ c \in x.ids
    OBVIOUS
  <2>2. x.kind \in Kinds /\ Fits(x) /\ (x.kind \in Signs <=> x.id = 0) /\ x.id \in Nat
    BY DEF Deliveries
  <2>3. c \in x.wins /\ x.kind \notin Departs /\ x.kind \notin Signs
    BY <2>1 DEF Files, Departs, Signs
  <2>4. x.kind \notin Directs
    BY <2>2, <2>3, ReplayAssumption DEF Fits, Direct
  <2>5. x.kind \in Rows
    BY <2>2, <2>3, <2>4 DEF Kinds
  <2>. QED BY <2>2, <2>3, <2>5 DEF Fits, Numbers
<1>. QED BY <1>1, <1>2

\* What a queue files of a channel: the rows after the last event that moves m there.
LEMMA FiledInIs ==
  ASSUME NEW q \in Seq(Deliveries), InOrder(q), NEW c \in Chans
  PROVE  /\ FiledIn(q, c) \in Seq(Numbers) /\ Rising(FiledIn(q, c))
         /\ Range(FiledIn(q, c)) = {q[i].id : i \in LastsAt(q, c)}
<1>1. Len(q) \in Nat /\ DOMAIN q = 1..Len(q)
  BY LenProperties
<1>2. FiledIn(q, c) = Ids(At(q, LastsAt(q, c)))
  <2>1. {i \in DOMAIN q : Files(q[i], c) /\ \A j \in DOMAIN q : Moves(q[j], c) => j <= i} = LastsAt(q, c)
    BY <1>1 DEF LastsAt, FilesAt, MovesAt
  <2>. QED BY <2>1 DEF FiledIn
<1>3. LastsAt(q, c) \in SUBSET (1..Len(q)) /\ LastsAt(q, c) \subseteq FilesAt(q, c)
  BY DEF LastsAt, FilesAt
<1>4. \A i \in LastsAt(q, c) : q[i].id \in Numbers /\ c \in q[i].wins
  BY <1>3, FilesFit
<1>5. ASSUME NEW i \in LastsAt(q, c), NEW j \in LastsAt(q, c), i < j PROVE q[i].id < q[j].id
  <2>1. q[i].wins \cap q[j].wins # {} /\ q[i].id # 0 /\ q[j].id # 0
    BY <1>4 DEF Numbers
  <2>. QED BY <1>3, <1>5, <2>1 DEF InOrder
<1>6. Numbers \in SUBSET Nat
  BY DEF Numbers
<1>. QED BY <1>2, <1>3, <1>4, <1>5, <1>6, IdsAt

\* The numbers of messages are no mark of a missing buffer.
LEMMA NumbersSeeded == ASSUME NEW s \in Seq(Numbers) PROVE s # NoBuf
<1>1. NoBuf[1] = 0 /\ Len(NoBuf) = 1
  BY DEF NoBuf
<1>2. Len(s) = 1 => s[1] \in Numbers
  OBVIOUS
<1>3. 0 \notin Numbers
  BY DEF Numbers
<1>. QED BY <1>1, <1>2, <1>3

\* A window with a buffer is known by it.
LEMMA KnownIs ==
  ASSUME NEW s \in Seq(Numbers)
  PROVE  Known(s) = s
BY NumbersSeeded DEF Known

\* What a channel knows once a queue is filed: what is left of its buffer, then what the queue files.
LEMMA FileChannelsIs ==
  ASSUME NEW h, NEW q \in Seq(Deliveries), InOrder(q), NEW c \in Chans, Known(h[c]) \in Seq(Numbers)
  PROVE  /\ Left(h, q, c) \in Seq(Numbers)
         /\ Known(FileChannels(h, q)[c]) = Left(h, q, c) \o FiledIn(q, c)
<1>. DEFINE old == IF \E i \in DOMAIN q : Moves(q[i], c) THEN NoBuf ELSE h[c]
            new == FiledIn(q, c)
<1>1. FileChannels(h, q)[c] = IF new = <<>> THEN old ELSE Known(old) \o new
  BY DEF FileChannels, Windows
<1>2. Known(old) = Left(h, q, c)
  <2>1. DOMAIN q = 1..Len(q)
    BY LenProperties
  <2>. QED BY <2>1 DEF Left, MovesAt, Known
<1>3. new \in Seq(Numbers)
  BY FiledInIs
<1>4. Left(h, q, c) \in Seq(Numbers)
  BY EmptySeq DEF Left
<1>. HIDE DEF old, new
<1>5. CASE new = <<>>
  BY <1>1, <1>2, <1>4, <1>5, ConcatEmptySeq DEF new
<1>6. CASE new # <<>>
  <2>1. Left(h, q, c) \o new \in Seq(Numbers)
    BY <1>3, <1>4, ConcatProperties
  <2>. QED BY <1>1, <1>2, <1>4, <1>6, <2>1, KnownIs DEF new
<1>. QED BY <1>4, <1>5, <1>6

\* The numbers of events are naturals.
LEMMA NumbersAreNat == Numbers \in SUBSET Nat
BY DEF Numbers

\* What is filed and what is queued match the store's rows only if filing the queue gives those rows.
LEMMA MatchesMeans ==
  ASSUME NEW h, NEW q \in Seq(Deliveries), InOrder(q), NEW c \in Chans,
         NEW r \in Seq(Numbers), Rising(r), Matches(h, q, r, c)
  PROVE  Known(FileChannels(h, q)[c]) = r
<1>. DEFINE u == Left(h, q, c) \o FiledIn(q, c)
<1>1. Known(FileChannels(h, q)[c]) = u /\ Left(h, q, c) \in Seq(Numbers)
  BY FileChannelsIs DEF Matches
<1>2. /\ FiledIn(q, c) \in Seq(Numbers) /\ Rising(FiledIn(q, c))
      /\ Range(FiledIn(q, c)) = {q[i].id : i \in LastsAt(q, c)}
  BY FiledInIs
<1>3. \A x \in Range(Left(h, q, c)), y \in Range(FiledIn(q, c)) : x < y
  BY <1>2 DEF Matches
<1>4. u \in Seq(Numbers) /\ Rising(u) /\ Range(u) = Range(Left(h, q, c)) \cup Range(FiledIn(q, c))
  BY <1>1, <1>2, <1>3, NumbersAreNat, RisingConcat DEF Matches
<1>5. Range(u) = Range(r)
  BY <1>2, <1>4 DEF Matches
<1>. HIDE DEF u
<1>6. u \in Seq(Nat) /\ r \in Seq(Nat)
  BY <1>4, NumbersAreNat, SeqMonotonic
<1>. QED BY <1>1, <1>4, <1>5, <1>6, RisingEqual

---------------------------------------------------------------------------
(* A queue in two parts. *)

\* The items of two sequences put together.
LEMMA Joined ==
  ASSUME NEW S, NEW a \in Seq(S), NEW b \in Seq(S)
  PROVE  /\ a \o b \in Seq(S) /\ Len(a) \in Nat /\ Len(b) \in Nat /\ Len(a \o b) = Len(a) + Len(b)
         /\ \A i \in 1..Len(a) : i \in 1..Len(a \o b) /\ (a \o b)[i] = a[i]
         /\ \A i \in 1..Len(b) : i + Len(a) \in 1..Len(a \o b) /\ (a \o b)[i + Len(a)] = b[i]
         /\ \A i \in 1..Len(a \o b) : i \in 1..Len(a) \/ \E j \in 1..Len(b) : i = j + Len(a)
<1>1. /\ Len(a) \in Nat /\ Len(b) \in Nat /\ Len(a \o b) = Len(a) + Len(b) /\ a \o b \in Seq(S)
      /\ \A i \in 1..(Len(a) + Len(b)) : (a \o b)[i] = IF i <= Len(a) THEN a[i] ELSE b[i - Len(a)]
  BY LenProperties, ConcatProperties
<1>2. ASSUME NEW i \in 1..Len(a) PROVE i \in 1..Len(a \o b) /\ (a \o b)[i] = a[i]
  BY <1>1
<1>3. ASSUME NEW i \in 1..Len(b) PROVE i + Len(a) \in 1..Len(a \o b) /\ (a \o b)[i + Len(a)] = b[i]
  <2>1. i + Len(a) \in 1..(Len(a) + Len(b)) /\ ~(i + Len(a) <= Len(a)) /\ (i + Len(a)) - Len(a) = i
    BY <1>1
  <2>. QED BY <1>1, <2>1
<1>4. ASSUME NEW i \in 1..Len(a \o b), i \notin 1..Len(a) PROVE \E j \in 1..Len(b) : i = j + Len(a)
  <2>1. i - Len(a) \in 1..Len(b) /\ i = (i - Len(a)) + Len(a)
    BY <1>1, <1>4
  <2>. QED BY <2>1
<1>. QED BY <1>1, <1>2, <1>3, <1>4

\* A queue in order has its parts in order.
LEMMA PartsInOrder ==
  ASSUME NEW a \in Seq(Deliveries), NEW b \in Seq(Deliveries), InOrder(a \o b)
  PROVE  InOrder(a) /\ InOrder(b)
<1>. DEFINE q == a \o b
            L == Len(a)
<1>0. L \in Nat /\ Len(b) \in Nat
  BY LenProperties
<1>1. /\ \A i \in 1..L : i \in 1..Len(q) /\ q[i] = a[i]
      /\ \A i \in 1..Len(b) : i + L \in 1..Len(q) /\ q[i + L] = b[i]
  BY Joined
<1>. HIDE DEF q, L
<1>2. InOrder(q)
  BY DEF q
<1>3. InOrder(a)
  BY <1>1, <1>2 DEF InOrder, L
<1>4. InOrder(b)
  <2>1. SUFFICES ASSUME NEW i \in 1..Len(b), NEW j \in 1..Len(b), i < j, b[i].id # 0, b[j].id # 0,
                        b[i].wins \cap b[j].wins # {}
                 PROVE  b[i].id < b[j].id
    BY DEF InOrder
  <2>2. i + L < j + L
    BY <1>0, <2>1
  <2>. QED BY <1>1, <1>2, <2>1, <2>2 DEF InOrder
<1>. QED BY <1>3, <1>4

\* What files and what moves, of two queues put together.
LEMMA PartsOf ==
  ASSUME NEW a \in Seq(Deliveries), NEW b \in Seq(Deliveries), NEW c
  PROVE  LET q == a \o b  L == Len(a) IN
         /\ \A i \in 1..L : i \in FilesAt(q, c) <=> i \in FilesAt(a, c)
         /\ \A i \in 1..L : i \in MovesAt(q, c) <=> i \in MovesAt(a, c)
         /\ \A i \in 1..Len(b) : i + L \in FilesAt(q, c) <=> i \in FilesAt(b, c)
         /\ \A i \in 1..Len(b) : i + L \in MovesAt(q, c) <=> i \in MovesAt(b, c)
<1>. DEFINE q == a \o b
            L == Len(a)
<1>1. /\ \A i \in 1..L : i \in 1..Len(q) /\ q[i] = a[i]
      /\ \A i \in 1..Len(b) : i + L \in 1..Len(q) /\ q[i + L] = b[i]
  BY Joined
<1>. HIDE DEF q, L
<1>2. ASSUME NEW i \in 1..L
      PROVE  (i \in FilesAt(q, c) <=> i \in FilesAt(a, c)) /\ (i \in MovesAt(q, c) <=> i \in MovesAt(a, c))
  BY <1>1 DEF FilesAt, MovesAt, L
<1>3. ASSUME NEW i \in 1..Len(b)
      PROVE  (i + L \in FilesAt(q, c) <=> i \in FilesAt(b, c)) /\ (i + L \in MovesAt(q, c) <=> i \in MovesAt(b, c))
  BY <1>1 DEF FilesAt, MovesAt
<1>. QED BY <1>2, <1>3 DEF q, L

\* What comes after the last move, of two queues put together.
LEMMA LastsOf ==
  ASSUME NEW a \in Seq(Deliveries), NEW b \in Seq(Deliveries), NEW c
  PROVE  LET q == a \o b  L == Len(a) IN
         /\ MovesAt(q, c) = {} <=> MovesAt(a, c) = {} /\ MovesAt(b, c) = {}
         /\ \A i \in 1..L : i \in LastsAt(q, c) <=> i \in LastsAt(a, c) /\ MovesAt(b, c) = {}
         /\ \A i \in 1..Len(b) : i + L \in LastsAt(q, c) <=> i \in LastsAt(b, c)
<1>. DEFINE q == a \o b
            L == Len(a)
<1>1. L \in Nat /\ Len(b) \in Nat
  BY LenProperties
<1>2. /\ \A i \in 1..L : i \in 1..Len(q)
      /\ \A i \in 1..Len(b) : i + L \in 1..Len(q)
      /\ \A i \in 1..Len(q) : i \in 1..L \/ \E j \in 1..Len(b) : i = j + L
  BY Joined
<1>3. /\ \A i \in 1..L : i \in FilesAt(q, c) <=> i \in FilesAt(a, c)
      /\ \A i \in 1..L : i \in MovesAt(q, c) <=> i \in MovesAt(a, c)
      /\ \A i \in 1..Len(b) : i + L \in FilesAt(q, c) <=> i \in FilesAt(b, c)
      /\ \A i \in 1..Len(b) : i + L \in MovesAt(q, c) <=> i \in MovesAt(b, c)
  BY PartsOf
<1>4. /\ MovesAt(q, c) \subseteq 1..Len(q) /\ MovesAt(a, c) \subseteq 1..L /\ MovesAt(b, c) \subseteq 1..Len(b)
      /\ FilesAt(q, c) \subseteq 1..Len(q)
  BY DEF MovesAt, FilesAt
<1>. HIDE DEF q, L
<1>5. MovesAt(q, c) = {} <=> MovesAt(a, c) = {} /\ MovesAt(b, c) = {}
  <2>1. ASSUME NEW j \in MovesAt(q, c) PROVE MovesAt(a, c) # {} \/ MovesAt(b, c) # {}
    BY <1>2, <1>3, <1>4
  <2>2. ASSUME NEW j \in MovesAt(a, c) PROVE MovesAt(q, c) # {}
    BY <1>3, <1>4
  <2>3. ASSUME NEW j \in MovesAt(b, c) PROVE MovesAt(q, c) # {}
    BY <1>3, <1>4
  <2>. QED BY <2>1, <2>2, <2>3
<1>6. ASSUME NEW i \in 1..L PROVE i \in LastsAt(q, c) <=> i \in LastsAt(a, c) /\ MovesAt(b, c) = {}
  <2>1. ASSUME i \in LastsAt(q, c) PROVE i \in LastsAt(a, c) /\ MovesAt(b, c) = {}
    <3>1. i \in FilesAt(a, c)
      BY <1>3, <2>1 DEF LastsAt
    <3>2. ASSUME NEW j \in MovesAt(a, c) PROVE j <= i
      BY <1>3, <1>4, <2>1 DEF LastsAt
    <3>3. ASSUME NEW j \in MovesAt(b, c) PROVE FALSE
      <4>1. j \in 1..Len(b) /\ j + L \in MovesAt(q, c)
        BY <1>3, <1>4
      <4>2. j + L <= i
        BY <2>1, <4>1 DEF LastsAt
      <4>. QED BY <1>1, <4>1, <4>2
    <3>. QED BY <3>1, <3>2, <3>3 DEF LastsAt
  <2>2. ASSUME i \in LastsAt(a, c), MovesAt(b, c) = {} PROVE i \in LastsAt(q, c)
    <3>1. i \in FilesAt(q, c)
      BY <1>3, <2>2 DEF LastsAt
    <3>2. ASSUME NEW j \in MovesAt(q, c) PROVE j <= i
      BY <1>2, <1>3, <1>4, <2>2 DEF LastsAt
    <3>. QED BY <3>1, <3>2 DEF LastsAt
  <2>. QED BY <2>1, <2>2
<1>7. ASSUME NEW i \in 1..Len(b) PROVE i + L \in LastsAt(q, c) <=> i \in LastsAt(b, c)
  <2>1. ASSUME i + L \in LastsAt(q, c) PROVE i \in LastsAt(b, c)
    <3>1. i \in FilesAt(b, c)
      BY <1>3, <2>1 DEF LastsAt
    <3>2. ASSUME NEW j \in MovesAt(b, c) PROVE j <= i
      <4>1. j \in 1..Len(b) /\ j + L \in MovesAt(q, c)
        BY <1>3, <1>4
      <4>2. j + L <= i + L
        BY <2>1, <4>1 DEF LastsAt
      <4>. QED BY <1>1, <4>1, <4>2
    <3>. QED BY <3>1, <3>2 DEF LastsAt
  <2>2. ASSUME i \in LastsAt(b, c) PROVE i + L \in LastsAt(q, c)
    <3>1. i + L \in FilesAt(q, c)
      BY <1>3, <2>2 DEF LastsAt
    <3>2. ASSUME NEW j \in MovesAt(q, c) PROVE j <= i + L
      <4>1. j \in 1..L => j <= i + L
        BY <1>1
      <4>2. ASSUME NEW m \in 1..Len(b), j = m + L PROVE j <= i + L
        <5>1. m \in MovesAt(b, c)
          BY <1>3, <4>2
        <5>2. m <= i
          BY <2>2, <5>1 DEF LastsAt
        <5>. QED BY <1>1, <4>2, <5>2
      <4>. QED BY <1>2, <1>4, <4>1, <4>2
    <3>. QED BY <3>1, <3>2 DEF LastsAt
  <2>. QED BY <2>1, <2>2
<1>. QED BY <1>5, <1>6, <1>7 DEF q, L

\* Reading the first part of a queue changes nothing of what the buffer and it come to.
LEMMA MatchesRead ==
  ASSUME NEW h, NEW a \in Seq(Deliveries), NEW b \in Seq(Deliveries), NEW c \in Chans, NEW r,
         InOrder(a \o b), Matches(h, a \o b, r, c)
  PROVE  Matches(FileChannels(h, a), b, r, c)
<1>. DEFINE q == a \o b
            L == Len(a)
            f == FileChannels(h, a)
            new == FiledIn(a, c)
<1>0. /\ L \in Nat /\ Len(b) \in Nat /\ InOrder(a) /\ InOrder(b) /\ q \in Seq(Deliveries)
  BY LenProperties, PartsInOrder, Joined
<1>1. /\ \A i \in 1..L : i \in 1..Len(q) /\ q[i] = a[i]
      /\ \A i \in 1..Len(b) : i + L \in 1..Len(q) /\ q[i + L] = b[i]
      /\ \A i \in 1..Len(q) : i \in 1..L \/ \E j \in 1..Len(b) : i = j + L
  BY Joined
<1>2. /\ MovesAt(q, c) = {} <=> MovesAt(a, c) = {} /\ MovesAt(b, c) = {}
      /\ \A i \in 1..L : i \in LastsAt(q, c) <=> i \in LastsAt(a, c) /\ MovesAt(b, c) = {}
      /\ \A i \in 1..Len(b) : i + L \in LastsAt(q, c) <=> i \in LastsAt(b, c)
  BY LastsOf
<1>3. Known(f[c]) = Left(h, a, c) \o new /\ Left(h, a, c) \in Seq(Numbers)
  BY <1>0, FileChannelsIs DEF Matches
<1>4. /\ new \in Seq(Numbers) /\ Rising(new)
      /\ Range(new) = {a[i].id : i \in LastsAt(a, c)}
  BY <1>0, FiledInIs
<1>5. Known(f[c]) \in Seq(Numbers)
  BY <1>3, <1>4, ConcatProperties
<1>6. /\ Rising(Left(h, q, c))
      /\ \A x \in Range(Left(h, q, c)), i \in LastsAt(q, c) : x < q[i].id
      /\ Range(Left(h, q, c)) \cup {q[i].id : i \in LastsAt(q, c)} = Range(r)
  BY DEF Matches
<1>7. /\ LastsAt(q, c) \subseteq 1..Len(q) /\ LastsAt(a, c) \subseteq 1..L /\ LastsAt(b, c) \subseteq 1..Len(b)
      /\ LastsAt(q, c) \subseteq FilesAt(q, c)
  BY DEF LastsAt, FilesAt
<1>8. ASSUME NEW i \in LastsAt(q, c), NEW j \in LastsAt(q, c), i < j PROVE q[i].id < q[j].id
  <2>1. /\ c \in q[i].wins /\ q[i].id \in Numbers
        /\ c \in q[j].wins /\ q[j].id \in Numbers
    BY <1>0, <1>7, FilesFit
  <2>2. q[i].wins \cap q[j].wins # {} /\ q[i].id # 0 /\ q[j].id # 0
    BY <2>1 DEF Numbers
  <2>3. InOrder(q)
    OBVIOUS
  <2>. QED BY <1>7, <1>8, <2>2, <2>3 DEF InOrder
<1>9. Range(<<>>) = {} /\ Rising(<<>>)
  BY DEF Range, Rising
<1>. HIDE DEF q, L, f, new
<1>10. CASE MovesAt(b, c) # {}
  <2>1. Left(f, b, c) = <<>> /\ Left(h, q, c) = <<>>
    BY <1>2, <1>10 DEF Left
  <2>2. {q[i].id : i \in LastsAt(q, c)} = {b[i].id : i \in LastsAt(b, c)}
    <3>1. ASSUME NEW i \in LastsAt(q, c) PROVE \E j \in LastsAt(b, c) : q[i].id = b[j].id
      <4>1. i \notin 1..L
        BY <1>2, <1>10
      <4>2. PICK j \in 1..Len(b) : i = j + L
        BY <1>1, <1>7, <4>1
      <4>. QED BY <1>1, <1>2, <4>2
    <3>2. ASSUME NEW j \in LastsAt(b, c) PROVE \E i \in LastsAt(q, c) : q[i].id = b[j].id
      BY <1>1, <1>2, <1>7
    <3>. QED BY <3>1, <3>2
  <2>. QED BY <1>5, <1>6, <1>9, <2>1, <2>2 DEF Matches, f
<1>11. CASE MovesAt(b, c) = {}
  <2>1. Left(h, q, c) = Left(h, a, c)
    BY <1>2, <1>11 DEF Left
  <2>2. Left(f, b, c) = Left(h, a, c) \o new
    BY <1>3, <1>11 DEF Left, f
  <2>3. \A i \in LastsAt(a, c) : i \in LastsAt(q, c) /\ q[i].id = a[i].id
    BY <1>1, <1>2, <1>7, <1>11
  <2>4. \A i \in LastsAt(b, c) : i + L \in LastsAt(q, c) /\ q[i + L].id = b[i].id
    BY <1>1, <1>2, <1>7
  <2>5. \A x \in Range(Left(h, a, c)), y \in Range(new) : x < y
    BY <1>4, <1>6, <2>1, <2>3
  <2>6. Rising(Left(f, b, c)) /\ Range(Left(f, b, c)) = Range(Left(h, a, c)) \cup Range(new)
    BY <1>3, <1>4, <1>6, <2>1, <2>2, <2>5, NumbersAreNat, RisingConcat
  <2>7. ASSUME NEW x \in Range(Left(f, b, c)), NEW j \in LastsAt(b, c) PROVE x < b[j].id
    <3>1. CASE x \in Range(Left(h, a, c))
      BY <1>6, <2>1, <2>4, <3>1
    <3>2. CASE x \in Range(new)
      <4>1. PICK i \in LastsAt(a, c) : x = a[i].id
        BY <1>4, <3>2
      <4>2. i < j + L
        <5>1. i \in 1..L /\ j \in 1..Len(b)
          BY <1>7
        <5>. QED BY <1>0, <5>1 DEF L
      <4>. QED BY <1>8, <2>3, <2>4, <4>1, <4>2
    <3>. QED BY <2>6, <3>1, <3>2
  <2>8. {q[i].id : i \in LastsAt(q, c)} = Range(new) \cup {b[i].id : i \in LastsAt(b, c)}
    <3>1. ASSUME NEW i \in LastsAt(q, c) PROVE q[i].id \in Range(new) \cup {b[j].id : j \in LastsAt(b, c)}
      <4>1. CASE i \in 1..L
        BY <1>1, <1>2, <1>4, <4>1
      <4>2. ASSUME NEW j \in 1..Len(b), i = j + L
            PROVE  q[i].id \in Range(new) \cup {b[m].id : m \in LastsAt(b, c)}
        BY <1>1, <1>2, <4>2
      <4>. QED BY <1>1, <1>7, <4>1, <4>2
    <3>2. ASSUME NEW x \in Range(new) PROVE x \in {q[i].id : i \in LastsAt(q, c)}
      BY <1>4, <2>3
    <3>3. ASSUME NEW j \in LastsAt(b, c) PROVE b[j].id \in {q[i].id : i \in LastsAt(q, c)}
      BY <2>4
    <3>. QED BY <3>1, <3>2, <3>3
  <2>9. Range(Left(f, b, c)) \cup {b[i].id : i \in LastsAt(b, c)} = Range(r)
    BY <1>6, <2>1, <2>6, <2>8
  <2>. QED BY <1>5, <2>6, <2>7, <2>9 DEF Matches, f
<1>. QED BY <1>10, <1>11
---------------------------------------------------------------------------
(* A channel's rows and what is queued of them: read, or still to be read. *)

\* A row with the next number keeps the rows rising.
LEMMA OneMoreRow ==
  ASSUME NEW r \in Seq(Numbers), NEW m \in Numbers, \A x \in Range(r) : x < m, Rising(r)
  PROVE  /\ Append(r, m) \in Seq(Numbers) /\ Rising(Append(r, m))
         /\ Range(Append(r, m)) = Range(r) \cup {m}
<1>1. /\ Append(r, m) \in Seq(Numbers) /\ Len(Append(r, m)) = Len(r) + 1 /\ Len(r) \in Nat
      /\ \A i \in 1..Len(r) : Append(r, m)[i] = r[i]
      /\ Append(r, m)[Len(r) + 1] = m
  BY AppendProperties, LenProperties
<1>. DEFINE t == Append(r, m)
            L == Len(r)
<1>. HIDE DEF t
<1>2. /\ t \in Seq(Numbers) /\ Len(t) = L + 1 /\ L \in Nat
      /\ \A i \in 1..L : t[i] = r[i] /\ r[i] < m
      /\ t[L + 1] = m
  BY <1>1, RangeIs DEF t
<1>3. Rising(t)
  <2>1. SUFFICES ASSUME NEW i \in 1..(L + 1), NEW j \in 1..(L + 1), i < j PROVE t[i] < t[j]
    BY <1>2 DEF Rising
  <2>2. i \in 1..L /\ (j \in 1..L \/ j = L + 1)
    BY <1>2, <2>1
  <2>. QED BY <1>2, <2>1, <2>2 DEF Rising
<1>4. Range(t) = Range(r) \cup {m}
  <2>1. ASSUME NEW x \in Range(t) PROVE x \in Range(r) \cup {m}
    <3>1. PICK i \in 1..(L + 1) : t[i] = x
      BY <1>2, RangeIs
    <3>2. i \in 1..L \/ i = L + 1
      BY <1>2
    <3>. QED BY <1>2, <3>1, <3>2, RangeIs
  <2>2. ASSUME NEW x \in Range(r) PROVE x \in Range(t)
    <3>1. PICK i \in 1..L : r[i] = x
      BY RangeIs
    <3>2. i \in 1..Len(t)
      BY <1>2
    <3>3. t[i] \in Range(t)
      BY <1>2, <3>2, RangeIs
    <3>. QED BY <1>2, <3>1, <3>3
  <2>3. m \in Range(t)
    <3>1. L + 1 \in 1..Len(t)
      BY <1>2
    <3>2. t[L + 1] \in Range(t)
      BY <1>2, <3>1, RangeIs
    <3>. QED BY <1>2, <3>2
  <2>. QED BY <2>1, <2>2, <2>3
<1>. QED BY <1>1, <1>3, <1>4 DEF t

\* What is queued last is of other windows.
LEMMA MatchesBeside ==
  ASSUME NEW h, NEW a \in Seq(Deliveries), NEW b \in Seq(Deliveries), NEW c, NEW r,
         FilesAt(b, c) = {}, MovesAt(b, c) = {}, Matches(h, a, r, c)
  PROVE  Matches(h, a \o b, r, c)
<1>. DEFINE q == a \o b
<1>1. /\ \A i \in 1..Len(a) : q[i] = a[i]
      /\ \A i \in 1..Len(q) : i \in 1..Len(a) \/ \E j \in 1..Len(b) : i = j + Len(a)
  BY Joined
<1>2. /\ MovesAt(q, c) = {} <=> MovesAt(a, c) = {}
      /\ \A i \in 1..Len(a) : i \in LastsAt(q, c) <=> i \in LastsAt(a, c)
      /\ \A i \in 1..Len(b) : i + Len(a) \notin LastsAt(q, c)
  BY LastsOf DEF LastsAt
<1>3. LastsAt(q, c) \subseteq 1..Len(q) /\ LastsAt(a, c) \subseteq 1..Len(a)
  BY DEF LastsAt, FilesAt
<1>. HIDE DEF q
<1>4. LastsAt(q, c) = LastsAt(a, c)
  BY <1>1, <1>2, <1>3
<1>5. \A i \in LastsAt(a, c) : q[i].id = a[i].id
  BY <1>1, <1>3
<1>6. {q[i].id : i \in LastsAt(q, c)} = {a[i].id : i \in LastsAt(a, c)}
  BY <1>4, <1>5
<1>7. Left(h, q, c) = Left(h, a, c)
  BY <1>2 DEF Left
<1>8. Matches(h, q, r, c)
  BY <1>4, <1>5, <1>6, <1>7 DEF Matches
<1>. QED BY <1>8 DEF q

\* A row is queued.
LEMMA MatchesRow ==
  ASSUME NEW h, NEW a \in Seq(Deliveries), NEW b \in Seq(Deliveries), NEW c, NEW r \in Seq(Numbers),
         NEW p, FilesAt(b, c) = {p}, MovesAt(b, c) = {}, b[p].id \in Numbers,
         \A x \in Range(r) : x < b[p].id, Rising(r), Matches(h, a, r, c)
  PROVE  Matches(h, a \o b, Append(r, b[p].id), c)
<1>. DEFINE q == a \o b
            L == Len(a)
            m == b[p].id
<1>1. /\ \A i \in 1..L : q[i] = a[i]
      /\ \A i \in 1..Len(b) : q[i + L] = b[i]
      /\ \A i \in 1..Len(q) : i \in 1..L \/ \E j \in 1..Len(b) : i = j + L
  BY Joined
<1>2. /\ MovesAt(q, c) = {} <=> MovesAt(a, c) = {}
      /\ \A i \in 1..L : i \in LastsAt(q, c) <=> i \in LastsAt(a, c)
      /\ \A i \in 1..Len(b) : i + L \in LastsAt(q, c) <=> i \in LastsAt(b, c)
  BY LastsOf
<1>3. /\ LastsAt(q, c) \subseteq 1..Len(q) /\ LastsAt(a, c) \subseteq 1..L /\ LastsAt(b, c) = {p}
      /\ p \in 1..Len(b)
  BY DEF LastsAt, FilesAt
<1>4. Range(Append(r, m)) = Range(r) \cup {m}
  BY OneMoreRow
<1>. HIDE DEF q, L, m
<1>5. /\ \A i \in LastsAt(a, c) : i \in LastsAt(q, c) /\ q[i].id = a[i].id
      /\ p + L \in LastsAt(q, c) /\ q[p + L].id = m
      /\ \A i \in LastsAt(q, c) : i \in LastsAt(a, c) \/ i = p + L
  BY <1>1, <1>2, <1>3 DEF m
<1>6. Left(h, q, c) = Left(h, a, c)
  BY <1>2 DEF Left
<1>7. /\ Known(h[c]) \in Seq(Numbers) /\ Rising(Left(h, a, c))
      /\ \A x \in Range(Left(h, a, c)), i \in LastsAt(a, c) : x < a[i].id
      /\ Range(Left(h, a, c)) \cup {a[i].id : i \in LastsAt(a, c)} = Range(r)
  BY DEF Matches
<1>8. \A x \in Range(Left(h, a, c)) : x < m
  BY <1>7 DEF m
<1>9. {q[i].id : i \in LastsAt(q, c)} = {a[i].id : i \in LastsAt(a, c)} \cup {m}
  BY <1>5
<1>10. \A x \in Range(Left(h, q, c)), i \in LastsAt(q, c) : x < q[i].id
  BY <1>5, <1>6, <1>7, <1>8
<1>11. Matches(h, q, Append(r, m), c)
  BY <1>4, <1>6, <1>7, <1>9, <1>10 DEF Matches
<1>. QED BY <1>11 DEF q, m

\* m's JOIN is queued.
LEMMA MatchesJoin ==
  ASSUME NEW h, NEW a \in Seq(Deliveries), NEW b \in Seq(Deliveries), NEW c,
         NEW p, FilesAt(b, c) = {p}, MovesAt(b, c) = {p}, Known(h[c]) \in Seq(Numbers), b[p].id \in Numbers
  PROVE  Matches(h, a \o b, <<b[p].id>>, c)
<1>. DEFINE q == a \o b
            L == Len(a)
            m == b[p].id
<1>1. /\ \A i \in 1..Len(b) : q[i + L] = b[i]
      /\ \A i \in 1..Len(q) : i \in 1..L \/ \E j \in 1..Len(b) : i = j + L
  BY Joined
<1>2. /\ MovesAt(q, c) # {}
      /\ \A i \in 1..L : i \notin LastsAt(q, c)
      /\ \A i \in 1..Len(b) : i + L \in LastsAt(q, c) <=> i \in LastsAt(b, c)
  BY LastsOf
<1>3. LastsAt(q, c) \subseteq 1..Len(q) /\ p \in 1..Len(b) /\ LastsAt(b, c) = {p}
  BY LenProperties DEF LastsAt, FilesAt
<1>4. Range(<<>>) = {} /\ Rising(<<>>)
  BY DEF Range, Rising
<1>5. Range(<<m>>) = {m}
  BY DEF Range
<1>. HIDE DEF q, L, m
<1>6. p + L \in LastsAt(q, c) /\ q[p + L].id = m /\ \A i \in LastsAt(q, c) : i = p + L
  BY <1>1, <1>2, <1>3 DEF m
<1>7. Left(h, q, c) = <<>>
  BY <1>2 DEF Left
<1>8. {q[i].id : i \in LastsAt(q, c)} = {m}
  BY <1>6
<1>9. Matches(h, q, <<m>>, c)
  BY <1>4, <1>5, <1>7, <1>8 DEF Matches
<1>. QED BY <1>9 DEF q, m
---------------------------------------------------------------------------
\* The queued rows of a window that is still to be read are the last of its rows.
Ahead(q, r, c) ==
  /\ MovesAt(q, c) = {}
  /\ \A i \in FilesAt(q, c) : q[i].id \in Range(r)
  /\ \A i \in FilesAt(q, c), x \in Range(r) : x >= q[i].id => \E j \in FilesAt(q, c) : x = q[j].id

\* What files a channel's rows, of two queues put together.
LEMMA FilesOf ==
  ASSUME NEW a \in Seq(Deliveries), NEW b \in Seq(Deliveries), NEW c
  PROVE  LET q == a \o b  L == Len(a) IN
         /\ \A i \in FilesAt(q, c) : i \in FilesAt(a, c) \/ \E j \in FilesAt(b, c) : i = j + L
         /\ \A i \in FilesAt(a, c) : i \in FilesAt(q, c) /\ q[i] = a[i]
         /\ \A i \in FilesAt(b, c) : i + L \in FilesAt(q, c) /\ q[i + L] = b[i]
<1>. DEFINE q == a \o b
            L == Len(a)
<1>1. /\ \A i \in 1..L : q[i] = a[i]
      /\ \A i \in 1..Len(b) : q[i + L] = b[i]
      /\ \A i \in 1..Len(q) : i \in 1..L \/ \E j \in 1..Len(b) : i = j + L
  BY Joined
<1>2. /\ \A i \in 1..L : i \in FilesAt(q, c) <=> i \in FilesAt(a, c)
      /\ \A i \in 1..Len(b) : i + L \in FilesAt(q, c) <=> i \in FilesAt(b, c)
  BY PartsOf
<1>3. FilesAt(q, c) \subseteq 1..Len(q) /\ FilesAt(a, c) \subseteq 1..L /\ FilesAt(b, c) \subseteq 1..Len(b)
  BY DEF FilesAt
<1>. HIDE DEF q, L
<1>4. ASSUME NEW i \in FilesAt(q, c) PROVE i \in FilesAt(a, c) \/ \E j \in FilesAt(b, c) : i = j + L
  BY <1>1, <1>2, <1>3
<1>5. ASSUME NEW i \in FilesAt(a, c) PROVE i \in FilesAt(q, c) /\ q[i] = a[i]
  BY <1>1, <1>2, <1>3
<1>6. ASSUME NEW i \in FilesAt(b, c) PROVE i + L \in FilesAt(q, c) /\ q[i + L] = b[i]
  BY <1>1, <1>2, <1>3
<1>. QED BY <1>4, <1>5, <1>6 DEF q, L

\* A delivery that has no row of a channel leaves what waits for it.
LEMMA AheadBeside ==
  ASSUME NEW a \in Seq(Deliveries), NEW b \in Seq(Deliveries), NEW c, NEW r,
         FilesAt(b, c) = {}, MovesAt(b, c) = {}, Ahead(a, r, c)
  PROVE  Ahead(a \o b, r, c)
<1>. DEFINE q == a \o b
<1>1. /\ \A i \in FilesAt(q, c) : i \in FilesAt(a, c)
      /\ \A i \in FilesAt(a, c) : i \in FilesAt(q, c) /\ q[i] = a[i]
  BY FilesOf
<1>2. MovesAt(q, c) = {}
  BY LastsOf DEF Ahead
<1>. HIDE DEF q
<1>3. Ahead(q, r, c)
  BY <1>1, <1>2 DEF Ahead
<1>. QED BY <1>3 DEF q

\* A row that is committed and queued waits for the read.
LEMMA AheadRow ==
  ASSUME NEW a \in Seq(Deliveries), NEW b \in Seq(Deliveries), NEW c, NEW r \in Seq(Numbers),
         NEW p, FilesAt(b, c) = {p}, MovesAt(b, c) = {}, b[p].id \in Numbers,
         \A x \in Range(r) : x < b[p].id, Rising(r), Ahead(a, r, c)
  PROVE  Ahead(a \o b, Append(r, b[p].id), c)
<1>. DEFINE q == a \o b
            L == Len(a)
            m == b[p].id
            s == Append(r, m)
<1>0. /\ \A i \in FilesAt(q, c) : i \in FilesAt(a, c) \/ \E j \in FilesAt(b, c) : i = j + L
      /\ \A i \in FilesAt(a, c) : i \in FilesAt(q, c) /\ q[i] = a[i]
      /\ \A i \in FilesAt(b, c) : i + L \in FilesAt(q, c) /\ q[i + L] = b[i]
  BY FilesOf
<1>2. MovesAt(q, c) = {}
  BY LastsOf DEF Ahead
<1>3. Range(s) = Range(r) \cup {m}
  BY OneMoreRow
<1>4. \A x \in Range(r) : x < m /\ x \in Nat
  BY RangeIs DEF Numbers
<1>5. m \in Nat
  BY DEF Numbers
<1>. HIDE DEF q, L, s
<1>1. /\ \A i \in FilesAt(q, c) : i \in FilesAt(a, c) \/ i = p + L
      /\ \A i \in FilesAt(a, c) : i \in FilesAt(q, c) /\ q[i] = a[i]
      /\ p + L \in FilesAt(q, c) /\ q[p + L].id = m
  BY <1>0
<1>. HIDE DEF m
<1>6. \A i \in FilesAt(q, c) : q[i].id \in Range(s)
  BY <1>1, <1>3 DEF Ahead
<1>7. ASSUME NEW i \in FilesAt(q, c), NEW x \in Range(s), x >= q[i].id
      PROVE  \E j \in FilesAt(q, c) : x = q[j].id
  <2>1. CASE x = m
    BY <1>1, <2>1
  <2>2. CASE x \in Range(r) /\ i \in FilesAt(a, c)
    <3>1. q[i].id = a[i].id
      BY <1>1, <2>2
    <3>2. PICK j \in FilesAt(a, c) : x = a[j].id
      BY <1>7, <2>2, <3>1 DEF Ahead
    <3>. QED BY <1>1, <3>2
  <2>3. CASE x \in Range(r) /\ i = p + L
    BY <1>1, <1>4, <1>5, <1>7, <2>3
  <2>. QED BY <1>1, <1>3, <2>1, <2>2, <2>3
<1>8. Ahead(q, s, c)
  BY <1>2, <1>6, <1>7 DEF Ahead
<1>. QED BY <1>8 DEF q, s, m

\* The rows up to the first queued one are read.
LEMMA MatchesLoad ==
  ASSUME NEW h, NEW q \in Seq(Deliveries), NEW c, NEW r \in Seq(Numbers), Rising(r), NEW before \in Nat,
         MovesAt(q, c) = {}, h[c] = Before(r, before),
         \A i \in FilesAt(q, c) : q[i].id \in Range(r),
         \A x \in Range(r) : x >= before <=> \E i \in FilesAt(q, c) : x = q[i].id
  PROVE  Matches(h, q, r, c)
<1>1. /\ h[c] \in Seq(Numbers) /\ Rising(h[c]) /\ Range(h[c]) = {y \in Range(r) : y < before}
  BY BeforeIs, NumbersAreNat
<1>2. Known(h[c]) = h[c] /\ Left(h, q, c) = h[c]
  BY <1>1, KnownIs DEF Left
<1>3. LastsAt(q, c) = FilesAt(q, c)
  BY DEF LastsAt
<1>4. \A x \in Range(r) : x \in Nat
  BY RangeIs DEF Numbers
<1>5. ASSUME NEW x \in Range(h[c]), NEW i \in FilesAt(q, c) PROVE x < q[i].id
  <2>1. x < before /\ q[i].id \in Range(r) /\ x \in Range(r)
    BY <1>1
  <2>2. q[i].id >= before
    BY <2>1
  <2>. QED BY <1>4, <2>1, <2>2
<1>6. Range(h[c]) \cup {q[i].id : i \in FilesAt(q, c)} = Range(r)
  <2>1. ASSUME NEW x \in Range(r), x \notin Range(h[c]) PROVE x \in {q[i].id : i \in FilesAt(q, c)}
    <3>1. x >= before
      BY <1>1, <1>4, <2>1
    <3>. QED BY <3>1
  <2>. QED BY <1>1, <2>1
<1>. QED BY <1>1, <1>2, <1>3, <1>5, <1>6 DEF Matches
---------------------------------------------------------------------------
(* The types of the state while the client is not gone, and the plans of the fan-outs. *)

(* The state in which m is connected or may yet be. *)
Plans == {"say", "own", "topic", "join", "nick", "quit", "part", "kick", "selfjoin", "latequit", "lateparts", "dm", "owndm"}

LoopTypes == [pc : {"idle", "lock", "commit", "queue"}, kind : Plans \cup {"none"}, win : Windows \cup {"none"},
              routes : Seq(Routed), need : Orders]
DispTypes == [pc : {"none", "admit", "lock", "turn", "relock", "done"}, wins : SUBSET Windows, auth : Auths, need : Orders]
LoadTypes == [pc : {"none", "next", "read", "replies", "done"}, todo : SUBSET Chans,
              win : Chans \cup {"none"}, before : Nat, epoch : Nat]

Types ==
  /\ anon \in SUBSET Chans /\ n \in Numbers
  /\ inM \in SUBSET Chans
  /\ scrollback \in [Chans -> Seq(Numbers)] /\ dms \in Seq(Numbers)
  /\ link \in {"off", "on"} /\ blocked \in BOOLEAN /\ outbox \in Seq(Deliveries)
  /\ ranges \in [Chans -> Nat \X Nat] /\ epoch \in [Chans -> Nat] /\ liveFrom \in Nat
  /\ loop \in LoopTypes /\ disp \in DispTypes /\ load \in LoadTypes
  /\ dmMu \in {"free", "loop"}
  /\ hist = [w \in Windows |-> hist[w]] /\ \A c \in Chans : Known(hist[c]) \in Seq(Numbers)
  /\ Seeded => hist[Direct] \in Seq(Numbers)
  /\ unseeded \in Seq(Numbers) /\ untold \in BOOLEAN

\* What is planned for m, under the kind of its command.
RoutesRight(kind, win, routes) ==
  /\ Apart(routes) /\ \A i \in 1..Len(routes) : routes[i].wins # {}
  /\ link = "off" => routes = <<>>
  /\ \A i \in 1..Len(routes) : (routes[i].kind \in Directs <=> kind \in Directs)
                               /\ (routes[i].kind \in Turns <=> kind \in Turns)
  /\ kind \in Directs => link = "on" /\ Len(routes) = 1 /\ DOMAIN routes[1].auth = {}
  /\ kind \in Turns => /\ win \in Chans
                       /\ \A i \in 1..Len(routes) : /\ routes[i].kind = kind /\ routes[i].wins = {win}
                                                    /\ DOMAIN routes[i].auth = {}
                       /\ Len(routes) <= 1
  /\ kind \in {"part", "selfjoin"} => link = "on" /\ load.pc = "done" /\ Len(routes) = 1
  /\ kind = "latequit" => \A i \in 1..Len(routes) : routes[i].wins \cap anon = {}
  /\ kind = "lateparts" => \A i \in 1..Len(routes) : routes[i].wins \subseteq anon

PlanRight ==
  /\ loop.pc = "idle" => loop.kind = "none"
  /\ loop.kind = "none" => loop.routes = <<>>
  /\ RoutesRight(loop.kind, loop.win, loop.routes)
  /\ dmMu = "free" <=> loop.kind \notin Directs
---------------------------------------------------------------------------
\* A route is what its parts say.
LEMMA RouteType ==
  ASSUME Types, NEW kind \in Kinds \ Signs, NEW wins \in SUBSET Windows, NEW ids \in SUBSET Chans,
         NEW under \in SUBSET Chans, Fits([kind |-> kind, wins |-> wins, ids |-> ids])
  PROVE  /\ Route(kind, wins, ids, under) \in Routed
         /\ Route(kind, wins, ids, under).kind = kind /\ Route(kind, wins, ids, under).wins = wins
         /\ Route(kind, wins, ids, under).ids = ids /\ DOMAIN Route(kind, wins, ids, under).auth = under
<1>. DEFINE auth == [w \in under |-> epoch[w]]
            r == Route(kind, wins, ids, under)
<1>1. auth \in [under -> Nat]
  BY DEF Types
<1>2. auth \in Auths /\ DOMAIN auth = under
  BY <1>1 DEF Auths
<1>3. r = [kind |-> kind, wins |-> wins, ids |-> ids, auth |-> auth]
  BY DEF Route
<1>. HIDE DEF r, auth
<1>4. r.kind = kind /\ r.wins = wins /\ r.ids = ids /\ DOMAIN r.auth = under
  BY <1>2, <1>3
<1>5. Fits(r)
  BY <1>4 DEF Fits
<1>6. r \in [kind : Kinds \ Signs, wins : SUBSET Windows, ids : SUBSET Chans, auth : Auths]
  BY <1>2, <1>3
<1>. QED BY <1>4, <1>5, <1>6 DEF r, Routed

\* One route, or none.
LEMMA OneRoute ==
  ASSUME Types, NEW kind \in Kinds \ Signs, NEW wins \in SUBSET Windows, wins # {}, NEW ids \in SUBSET Chans,
         NEW under \in SUBSET Chans, Fits([kind |-> kind, wins |-> wins, ids |-> ids])
  PROVE  LET routes == <<Route(kind, wins, ids, under)>> IN
         /\ routes \in Seq(Routed) /\ Apart(routes) /\ Len(routes) = 1
         /\ \A i \in 1..Len(routes) : /\ routes[i].kind = kind /\ routes[i].wins = wins
                                      /\ DOMAIN routes[i].auth = under
<1>. DEFINE r == Route(kind, wins, ids, under)
            routes == <<r>>
<1>1. r \in Routed /\ r.kind = kind /\ r.wins = wins /\ DOMAIN r.auth = under
  BY RouteType
<1>. HIDE DEF r
<1>2. routes \in Seq(Routed) /\ Len(routes) = 1 /\ \A i \in 1..Len(routes) : i = 1 /\ routes[i] = r
  BY <1>1
<1>3. Apart(routes)
  BY <1>2 DEF Apart
<1>. QED BY <1>1, <1>2, <1>3 DEF r

\* A plan without routes.
LEMMA NoRoutes ==
  /\ <<>> \in Seq(Routed) /\ Apart(<<>>) /\ Len(<<>>) = 0
  /\ \A i \in 1..Len(<<>>) : FALSE
BY EmptySeq DEF Apart

\* The route of a QUIT or NICK shows no anonymous channel.
LEMMA SharedRight ==
  ASSUME Types, NEW kind \in {"nick", "quit", "latequit"}
  PROVE  /\ Shared(kind) \in Seq(Routed) /\ Apart(Shared(kind))
         /\ link = "off" => Shared(kind) = <<>>
         /\ \A i \in 1..Len(Shared(kind)) : /\ Shared(kind)[i].kind = kind
                                            /\ Shared(kind)[i].wins # {} /\ Shared(kind)[i].wins \cap anon = {}
<1>. DEFINE wins == Named(inM \cap inP)
<1>1. wins \in SUBSET Chans /\ wins \cap anon = {} /\ wins \in SUBSET Windows
  BY DEF Named, Types, Windows
<1>2. kind \in Kinds \ Signs /\ Fits([kind |-> kind, wins |-> wins, ids |-> wins])
  BY DEF Fits, Kinds, Signs, Directs, Departs, Rows
<1>3. Shared(kind) = IF link = "on" /\ wins # {} THEN <<Route(kind, wins, wins, wins)>> ELSE <<>>
  BY DEF Shared
<1>. HIDE DEF wins
<1>4. CASE link = "on" /\ wins # {}
  BY <1>1, <1>2, <1>3, <1>4, OneRoute
<1>5. CASE ~(link = "on" /\ wins # {})
  BY <1>3, <1>5, NoRoutes
<1>. QED BY <1>4, <1>5

\* A finite set, put in a sequence, has each of its members once.
LEMMA SetInSeq ==
  ASSUME NEW S, IsFiniteSet(S)
  PROVE  /\ Cardinality(S) \in Nat
         /\ \A i \in 1..Cardinality(S) : SetToSeq(S)[i] \in S
         /\ \A i, j \in 1..Cardinality(S) : i # j => SetToSeq(S)[i] # SetToSeq(S)[j]
<1>1. Cardinality(S) \in Nat /\ ExistsBijection(1..Cardinality(S), S)
  BY FS_CardinalityType
<1>2. \E f \in [1..Cardinality(S) -> S] : IsInjective(f)
  BY <1>1 DEF ExistsBijection, Bijection, Injection
<1>3. SetToSeq(S) \in [1..Cardinality(S) -> S] /\ IsInjective(SetToSeq(S))
  BY <1>2 DEF SetToSeq
<1>. QED BY <1>1, <1>3 DEF IsInjective

\* The routes of the anonymous channels show nothing else.
LEMMA AnonymousRight ==
  ASSUME Types
  PROVE  /\ AnonymousParts \in Seq(Routed) /\ Apart(AnonymousParts)
         /\ link = "off" => AnonymousParts = <<>>
         /\ \A i \in 1..Len(AnonymousParts) : /\ AnonymousParts[i].kind = "leave"
                                              /\ AnonymousParts[i].wins # {} /\ AnonymousParts[i].wins \subseteq anon
<1>. DEFINE hidden == inM \cap inP \cap anon
            N == Cardinality(hidden)
            s(i) == SetToSeq(hidden)[i]
            R(i) == Route("leave", {s(i)}, {s(i)}, {s(i)})
            rs == [i \in 1..N |-> R(i)]
<1>1. hidden \in SUBSET Chans /\ hidden \subseteq anon /\ IsFiniteSet(hidden)
  BY ReplayAssumption, FS_Subset DEF Types
<1>2. /\ N \in Nat
      /\ \A i \in 1..N : s(i) \in hidden
      /\ \A i, j \in 1..N : i # j => s(i) # s(j)
  BY <1>1, SetInSeq
<1>3. AnonymousParts = IF link = "on" THEN rs ELSE <<>>
  BY DEF AnonymousParts
<1>. HIDE DEF hidden, N, s
<1>4. ASSUME NEW i \in 1..N
      PROVE  R(i) \in Routed /\ R(i).kind = "leave" /\ R(i).wins = {s(i)}
  <2>1. {s(i)} \in SUBSET Chans /\ {s(i)} \in SUBSET Windows
    BY <1>1, <1>2 DEF Windows
  <2>2. "leave" \in Kinds \ Signs /\ Fits([kind |-> "leave", wins |-> {s(i)}, ids |-> {s(i)}])
    BY DEF Fits, Kinds, Signs, Directs, Departs, Rows
  <2>. DEFINE w == {s(i)}
              r == Route("leave", w, w, w)
  <2>3. w \in SUBSET Chans /\ w \in SUBSET Windows /\ Fits([kind |-> "leave", wins |-> w, ids |-> w])
    BY <2>1, <2>2
  <2>4. R(i) = r /\ w = {s(i)}
    OBVIOUS
  <2>. HIDE DEF w, R
  <2>5. r \in Routed /\ r.kind = "leave" /\ r.wins = w
    BY <2>2, <2>3, RouteType
  <2>. HIDE DEF r
  <2>. QED BY <2>4, <2>5
<1>. HIDE DEF R
<1>5. rs \in Seq(Routed) /\ Len(rs) = N /\ \A i \in 1..N : rs[i] = R(i)
  BY <1>2, <1>4
<1>. HIDE DEF rs
<1>6. Apart(rs)
  BY <1>2, <1>4, <1>5 DEF Apart
<1>7. \A i \in 1..Len(rs) : rs[i].kind = "leave" /\ rs[i].wins # {} /\ rs[i].wins \subseteq anon
  <2>1. SUFFICES ASSUME NEW i \in 1..N
                 PROVE  rs[i].kind = "leave" /\ rs[i].wins # {} /\ rs[i].wins \subseteq anon
    BY <1>5
  <2>2. s(i) \in anon
    BY <1>1, <1>2
  <2>3. rs[i].kind = "leave" /\ rs[i].wins = {s(i)}
    BY <1>4, <1>5
  <2>. QED BY <2>2, <2>3
<1>8. CASE link = "on"
  BY <1>3, <1>5, <1>6, <1>7, <1>8
<1>9. CASE link # "on"
  BY <1>3, <1>9, NoRoutes
<1>. QED BY <1>8, <1>9

\* The routes of a QUIT are apart: named channels in one, each anonymous channel in its own.
LEMMA QuitRight ==
  ASSUME Types
  PROVE  LET routes == Shared("quit") \o AnonymousParts IN
         /\ routes \in Seq(Routed) /\ Apart(routes)
         /\ link = "off" => routes = <<>>
         /\ \A i \in 1..Len(routes) : routes[i].kind \in {"quit", "leave"} /\ routes[i].wins # {}
<1>. DEFINE a == Shared("quit")
            b == AnonymousParts
            q == a \o b
            L == Len(a)
<1>1. /\ a \in Seq(Routed) /\ Apart(a)
      /\ link = "off" => a = <<>>
      /\ \A i \in 1..L : a[i].kind = "quit" /\ a[i].wins # {} /\ a[i].wins \cap anon = {}
  BY SharedRight
<1>2. /\ b \in Seq(Routed) /\ Apart(b)
      /\ link = "off" => b = <<>>
      /\ \A i \in 1..Len(b) : b[i].kind = "leave" /\ b[i].wins # {} /\ b[i].wins \subseteq anon
  BY AnonymousRight
<1>. HIDE DEF a, b
<1>3. q \in Seq(Routed) /\ L \in Nat /\ Len(b) \in Nat
  BY <1>1, <1>2, Joined
<1>4. /\ \A i \in 1..L : i \in 1..Len(q) /\ q[i] = a[i]
      /\ \A i \in 1..Len(b) : i + L \in 1..Len(q) /\ q[i + L] = b[i]
      /\ \A i \in 1..Len(q) : i \in 1..L \/ \E j \in 1..Len(b) : i = j + L
  <2>1. a \in Seq(Routed) /\ b \in Seq(Routed)
    BY <1>1, <1>2
  <2>2. \A i \in 1..L : i \in 1..Len(q) /\ q[i] = a[i]
    BY <2>1, Joined
  <2>3. \A i \in 1..Len(b) : i + L \in 1..Len(q) /\ q[i + L] = b[i]
    BY <2>1, Joined
  <2>4. \A i \in 1..Len(q) : i \in 1..L \/ \E j \in 1..Len(b) : i = j + L
    BY <2>1, Joined
  <2>. QED BY <2>2, <2>3, <2>4
<1>5. link = "off" => q = <<>>
  BY <1>1, <1>2, ConcatEmptySeq
<1>. HIDE DEF q, L
<1>6. \A i \in 1..Len(q) : q[i].kind \in {"quit", "leave"} /\ q[i].wins # {}
  BY <1>1, <1>2, <1>4
<1>7. Apart(q)
  <2>1. SUFFICES ASSUME NEW i \in 1..Len(q), NEW j \in 1..Len(q), i # j
                 PROVE  q[i].wins \cap q[j].wins = {}
    BY DEF Apart
  <2>2. CASE i \in 1..L /\ j \in 1..L
    BY <1>1, <1>4, <2>1, <2>2 DEF Apart, L
  <2>3. ASSUME NEW k \in 1..Len(b), i = k + L, j \in 1..L PROVE q[i].wins \cap q[j].wins = {}
    BY <1>1, <1>2, <1>4, <2>3
  <2>4. ASSUME NEW k \in 1..Len(b), j = k + L, i \in 1..L PROVE q[i].wins \cap q[j].wins = {}
    BY <1>1, <1>2, <1>4, <2>4
  <2>5. ASSUME NEW k \in 1..Len(b), NEW m \in 1..Len(b), i = k + L, j = m + L PROVE q[i].wins \cap q[j].wins = {}
    <3>1. k # m
      BY <2>1, <2>5
    <3>. QED BY <1>2, <1>4, <2>5, <3>1 DEF Apart
  <2>. QED BY <1>4, <2>2, <2>3, <2>4, <2>5
<1>. QED BY <1>3, <1>5, <1>6, <1>7 DEF q, a, b

\* What a command is planned under.
Due(kind, c) ==
  /\ kind \in Plans
  /\ kind \in {"say", "own", "topic", "join"} \cup Turns => c \in Chans
  /\ kind \in Directs => link = "on"
  /\ kind \in {"part", "selfjoin"} => link = "on" /\ load.pc = "done"
  /\ kind = "part" => c \in inM

\* fanout.go plans, for each command, routes whose windows are apart.
LEMMA PlannedRight ==
  ASSUME Types, NEW kind, NEW c, Due(kind, c)
  PROVE  Routes(kind, c) \in Seq(Routed) /\ RoutesRight(kind, c, Routes(kind, c))
<1>. DEFINE routes == Routes(kind, c)
<1>. SUFFICES routes \in Seq(Routed) /\ RoutesRight(kind, c, routes)
  OBVIOUS
<1>0. c \in Chans => {c} \in SUBSET Chans /\ {c} \in SUBSET Windows /\ {c} # {}
  BY DEF Windows
<1>1. CASE kind \in {"say", "topic", "join", "own", "selfjoin"}
  <2>. DEFINE R(under) == <<Route(kind, {c}, {c}, under)>>
  <2>1. c \in Chans
    BY <1>1 DEF Due, Turns, Departs
  <2>2. kind \in Kinds \ Signs /\ Fits([kind |-> kind, wins |-> {c}, ids |-> {c}])
    BY <1>1 DEF Fits, Kinds, Signs, Directs, Departs, Rows
  <2>3. ASSUME NEW under \in {{}, {c}}
        PROVE  /\ R(under) \in Seq(Routed) /\ Apart(R(under)) /\ Len(R(under)) = 1
               /\ \A i \in 1..Len(R(under)) : /\ R(under)[i].kind = kind /\ R(under)[i].wins = {c}
                                              /\ DOMAIN R(under)[i].auth = under
    <3>1. under \in SUBSET Chans
      BY <2>1
    <3>. QED BY <1>0, <2>1, <2>2, <3>1, OneRoute
  <2>. HIDE DEF R
  <2>4. CASE kind \in {"say", "topic", "join"}
    <3>1. routes = <<>> \/ (link = "on" /\ \E under \in {{}, {c}} : routes = R(under))
      BY <2>4 DEF Routes, Seen, R
    <3>2. kind \notin Directs \cup Turns \cup {"latequit", "lateparts", "part", "selfjoin"}
      BY <2>4 DEF Directs, Turns, Departs
    <3>3. CASE routes = <<>>
      BY <3>2, <3>3, NoRoutes DEF RoutesRight
    <3>4. CASE link = "on" /\ \E under \in {{}, {c}} : routes = R(under)
      <4>1. /\ routes \in Seq(Routed) /\ Apart(routes)
            /\ \A i \in 1..Len(routes) : routes[i].kind = kind /\ routes[i].wins = {c}
        BY <2>3, <3>4
      <4>. HIDE DEF routes
      <4>. QED BY <3>2, <3>4, <4>1 DEF RoutesRight
    <3>. QED BY <3>1, <3>3, <3>4
  <2>5. CASE kind \in {"own", "selfjoin"}
    <3>1. routes = <<>> \/ (link = "on" /\ routes = R({}))
      BY <2>5 DEF Routes, R
    <3>2. kind \notin Directs \cup {"latequit", "lateparts", "part"} /\ (kind \in Turns <=> kind = "selfjoin")
      BY <2>5 DEF Directs, Turns, Departs
    <3>3. CASE kind = "own" /\ routes = <<>>
      BY <3>2, <3>3, NoRoutes DEF RoutesRight
    <3>4. CASE link = "on" /\ routes = R({})
      <4>1. /\ routes \in Seq(Routed) /\ Apart(routes) /\ Len(routes) = 1
            /\ \A i \in 1..Len(routes) : routes[i].kind = kind /\ routes[i].wins = {c} /\ DOMAIN routes[i].auth = {}
        BY <2>3, <3>4
      <4>2. kind = "selfjoin" => load.pc = "done"
        BY DEF Due
      <4>. HIDE DEF routes
      <4>. QED BY <2>1, <3>2, <3>4, <4>1, <4>2 DEF RoutesRight
    <3>5. kind = "selfjoin" => routes = R({}) /\ link = "on"
      BY DEF Due, Routes, R
    <3>. QED BY <2>5, <3>1, <3>3, <3>4, <3>5
  <2>. QED BY <1>1, <2>4, <2>5
<1>2. CASE kind \in {"part", "kick"}
  <2>. DEFINE R == <<Route(kind, {c}, {}, {})>>
  <2>1. c \in Chans /\ {} \in SUBSET Chans
    BY <1>2 DEF Due, Turns, Departs
  <2>2. kind \in Kinds \ Signs /\ Fits([kind |-> kind, wins |-> {c}, ids |-> {}])
    BY <1>2, <2>1 DEF Fits, Kinds, Signs, Directs, Departs, Rows
  <2>3. /\ R \in Seq(Routed) /\ Apart(R) /\ Len(R) = 1
        /\ \A i \in 1..Len(R) : R[i].kind = kind /\ R[i].wins = {c} /\ DOMAIN R[i].auth = {}
    <3>. DEFINE w == {c}
    <3>1. w \in SUBSET Windows /\ w # {} /\ Fits([kind |-> kind, wins |-> w, ids |-> {}])
      BY <1>0, <2>1, <2>2
    <3>2. R = <<Route(kind, w, {}, {})>> /\ w = {c}
      OBVIOUS
    <3>. HIDE DEF w, R
    <3>3. LET rs == <<Route(kind, w, {}, {})>> IN
          /\ rs \in Seq(Routed) /\ Apart(rs) /\ Len(rs) = 1
          /\ \A i \in 1..Len(rs) : /\ rs[i].kind = kind /\ rs[i].wins = w
                                  /\ DOMAIN rs[i].auth = {}
      BY <1>0, <2>1, <2>2, <3>1, OneRoute
    <3>. QED BY <3>2, <3>3
  <2>4. routes = IF Seen(c) THEN R ELSE <<>>
    BY <1>2 DEF Routes
  <2>5. kind \notin Directs \cup {"latequit", "lateparts", "selfjoin"} /\ kind \in Turns
    BY <1>2 DEF Directs, Turns, Departs
  <2>6. kind = "part" => Seen(c) /\ load.pc = "done"
    BY DEF Due, Seen
  <2>. HIDE DEF R, routes
  <2>7. CASE Seen(c)
    <3>1. link = "on"
      BY <2>7 DEF Seen
    <3>2. /\ routes \in Seq(Routed) /\ Apart(routes) /\ Len(routes) = 1
          /\ \A i \in 1..Len(routes) : routes[i].kind = kind /\ routes[i].wins = {c} /\ DOMAIN routes[i].auth = {}
      BY <2>3, <2>4, <2>7
    <3>. QED BY <2>1, <2>5, <2>6, <3>1, <3>2 DEF RoutesRight
  <2>8. CASE ~Seen(c)
    <3>1. routes \in Seq(Routed) /\ Apart(routes) /\ Len(routes) = 0 /\ \A i \in 1..Len(routes) : FALSE
      BY <2>4, <2>8, NoRoutes
    <3>2. routes = <<>> /\ kind # "part"
      BY <2>4, <2>6, <2>8
    <3>. QED BY <2>1, <2>5, <3>1, <3>2 DEF RoutesRight
  <2>. QED BY <2>7, <2>8
<1>3. CASE kind \in Directs
  <2>. DEFINE R == <<Route(kind, {Direct}, {}, {})>>
  <2>1. {} \in SUBSET Chans /\ {Direct} \in SUBSET Windows /\ {Direct} # {}
    BY DEF Windows
  <2>2. kind \in Kinds \ Signs /\ Fits([kind |-> kind, wins |-> {Direct}, ids |-> {}])
    BY <1>3 DEF Fits, Kinds, Signs, Directs, Departs, Rows
  <2>3. /\ R \in Seq(Routed) /\ Apart(R) /\ Len(R) = 1
        /\ \A i \in 1..Len(R) : R[i].kind = kind /\ R[i].wins = {Direct} /\ DOMAIN R[i].auth = {}
    BY <2>1, <2>2, OneRoute
  <2>4. routes = R /\ link = "on"
    BY <1>3 DEF Routes, Due, Directs
  <2>5. kind \notin Turns \cup {"latequit", "lateparts", "part", "selfjoin"}
    BY <1>3 DEF Directs, Turns, Departs
  <2>. HIDE DEF R, routes
  <2>6. /\ routes \in Seq(Routed) /\ Apart(routes) /\ Len(routes) = 1
        /\ \A i \in 1..Len(routes) : routes[i].kind = kind /\ routes[i].wins = {Direct} /\ DOMAIN routes[i].auth = {}
    BY <2>3, <2>4
  <2>7. 1 \in 1..Len(routes) /\ {Direct} # {}
    BY <2>6
  <2>. QED BY <1>3, <2>4, <2>5, <2>6, <2>7 DEF RoutesRight
<1>4. CASE kind \in {"nick", "latequit"}
  <2>1. routes = Shared(kind)
    BY <1>4 DEF Routes
  <2>2. /\ routes \in Seq(Routed) /\ Apart(routes)
        /\ link = "off" => routes = <<>>
        /\ \A i \in 1..Len(routes) : /\ routes[i].kind = kind
                                     /\ routes[i].wins # {} /\ routes[i].wins \cap anon = {}
    BY <1>4, <2>1, SharedRight
  <2>3. kind \notin Directs \cup Turns \cup {"lateparts", "part", "selfjoin"}
    BY <1>4 DEF Directs, Turns, Departs
  <2>. HIDE DEF routes
  <2>. QED BY <2>2, <2>3 DEF RoutesRight
<1>5. CASE kind = "quit"
  <2>1. routes = Shared("quit") \o AnonymousParts
    BY <1>5 DEF Routes
  <2>2. /\ routes \in Seq(Routed) /\ Apart(routes)
        /\ link = "off" => routes = <<>>
        /\ \A i \in 1..Len(routes) : routes[i].kind \in {"quit", "leave"} /\ routes[i].wins # {}
    BY <2>1, QuitRight
  <2>3. /\ kind \notin Directs \cup Turns \cup {"latequit", "lateparts", "part", "selfjoin"}
        /\ "quit" \notin Directs \cup Turns /\ "leave" \notin Directs \cup Turns
    BY <1>5 DEF Directs, Turns, Departs
  <2>. HIDE DEF routes
  <2>. QED BY <2>2, <2>3 DEF RoutesRight
<1>6. CASE kind = "lateparts"
  <2>1. routes = AnonymousParts
    BY <1>6 DEF Routes
  <2>2. /\ routes \in Seq(Routed) /\ Apart(routes)
        /\ link = "off" => routes = <<>>
        /\ \A i \in 1..Len(routes) : /\ routes[i].kind = "leave"
                                     /\ routes[i].wins # {} /\ routes[i].wins \subseteq anon
    BY <2>1, AnonymousRight
  <2>3. /\ kind \notin Directs \cup Turns \cup {"latequit", "part", "selfjoin"}
        /\ "leave" \notin Directs \cup Turns
    BY <1>6 DEF Directs, Turns, Departs
  <2>. HIDE DEF routes
  <2>. QED BY <2>2, <2>3 DEF RoutesRight
<1>. QED BY <1>1, <1>2, <1>3, <1>4, <1>5, <1>6 DEF Due, Plans, Directs

\* A route under no membership has an empty authority.
LEMMA EmptyIs == ASSUME NEW f \in Auths, DOMAIN f = {} PROVE f = <<>>
<1>1. PICK D \in SUBSET Chans : f \in [D -> Nat]
  BY DEF Auths
<1>2. f \in [{} -> Nat]
  BY <1>1
<1>. QED BY <1>2

\* What is still authorised of a plan is a plan; of m's own moves and messages it is all.
LEMMA AuthorisedRight ==
  ASSUME Types, NEW kind, NEW win, NEW routes \in Seq(Routed), RoutesRight(kind, win, routes)
  PROVE  /\ Those(routes, Authorised) \in Seq(Routed)
         /\ RoutesRight(kind, win, Those(routes, Authorised))
         /\ Those(routes, Authorised) # <<>> => routes # <<>>
         /\ kind \in Directs \cup Turns => Those(routes, Authorised) = routes
<1>. DEFINE at == {i \in 1..Len(routes) : Authorised(routes[i])}
            k == At(routes, at)
            P(i) == Place(at, i)
<1>1. Those(routes, Authorised) = k
  BY LenProperties DEF Those
<1>2. at \in SUBSET (1..Len(routes))
  OBVIOUS
<1>3. ASSUME NEW i \in 1..Len(routes), DOMAIN routes[i].auth = {} PROVE i \in at
  <2>1. routes[i].auth = <<>>
    <3>1. routes[i].auth \in Auths
      BY ElementOfSeq DEF Routed
    <3>. QED BY <1>3, <3>1, EmptyIs
  <2>. QED BY <1>3, <2>1 DEF Authorised
<1>. HIDE DEF at
<1>4. /\ k \in Seq(Routed)
      /\ \A i \in 1..Len(k) : P(i) \in at /\ k[i] = routes[P(i)]
      /\ \A i, j \in 1..Len(k) : i < j => P(i) < P(j)
  BY <1>2, Selected
<1>5. kind \in Directs \cup Turns => k = routes
  <2>1. SUFFICES ASSUME kind \in Directs \cup Turns PROVE k = routes
    OBVIOUS
  <2>2. \A i \in 1..Len(routes) : DOMAIN routes[i].auth = {}
    <3>1. CASE kind \in Directs
      <4>1. Len(routes) = 1 /\ DOMAIN routes[1].auth = {}
        BY <3>1 DEF RoutesRight
      <4>2. \A i \in 1..Len(routes) : i = 1
        BY <4>1
      <4>. QED BY <4>1, <4>2
    <3>2. CASE kind \in Turns
      BY <3>2 DEF RoutesRight
    <3>. QED BY <2>1, <3>1, <3>2
  <2>3. at = 1..Len(routes)
    BY <1>2, <1>3, <2>2
  <2>. QED BY <2>3, AllSelected
<1>. HIDE DEF k, P
<1>6. k # <<>> => routes # <<>>
  <2>1. SUFFICES ASSUME k # <<>>, routes = <<>> PROVE FALSE
    OBVIOUS
  <2>2. 1 \in 1..Len(k)
    BY <1>4, <2>1, EmptySeq, LenProperties
  <2>3. P(1) \in 1..Len(routes)
    BY <1>2, <1>4, <2>2
  <2>. QED BY <2>1, <2>3
<1>7. Apart(k)
  <2>1. SUFFICES ASSUME NEW i \in 1..Len(k), NEW j \in 1..Len(k), i # j PROVE k[i].wins \cap k[j].wins = {}
    BY DEF Apart
  <2>2. Len(k) \in Nat
    BY <1>4, LenProperties
  <2>3. P(i) \in 1..Len(routes) /\ P(j) \in 1..Len(routes)
    BY <1>2, <1>4
  <2>4. P(i) # P(j)
    <3>1. i < j \/ j < i
      BY <2>1, <2>2
    <3>2. P(i) < P(j) \/ P(j) < P(i)
      BY <1>4, <3>1
    <3>. QED BY <2>3, <3>2
  <2>5. Apart(routes)
    BY DEF RoutesRight
  <2>. QED BY <1>4, <2>3, <2>4, <2>5 DEF Apart
<1>8. CASE kind \in Directs \cup Turns
  BY <1>1, <1>4, <1>5, <1>6, <1>8
<1>9. CASE kind \notin Directs \cup Turns
  <2>1. \A i \in 1..Len(k) : \E j \in 1..Len(routes) : k[i] = routes[j]
    BY <1>2, <1>4
  <2>2. kind \notin Turns /\ kind \notin Directs /\ kind \notin {"part", "selfjoin"}
    BY <1>9 DEF Turns, Departs
  <2>3. link = "off" => k = <<>>
    BY <1>6 DEF RoutesRight
  <2>4. RoutesRight(kind, win, k)
    BY <1>7, <2>1, <2>2, <2>3 DEF RoutesRight
  <2>. QED BY <1>1, <1>4, <1>5, <1>6, <2>4
<1>. QED BY <1>8, <1>9

\* The deliveries of a plan are its routes with the event's number.
LEMMA ItemsAre ==
  ASSUME NEW routes \in Seq(Routed), NEW id \in Numbers
  PROVE  /\ Items(routes, id) \in Seq(Deliveries) /\ Len(Items(routes, id)) = Len(routes)
         /\ \A i \in 1..Len(routes) :
              LET x == Items(routes, id)[i]
              IN /\ x.kind = routes[i].kind /\ x.wins = routes[i].wins
                 /\ x.ids = routes[i].ids /\ x.id = id
<1>. DEFINE q == Items(routes, id)
<1>1. Len(routes) \in Nat /\ DOMAIN routes = 1..Len(routes) /\ \A i \in 1..Len(routes) : routes[i] \in Routed
  BY LenProperties, ElementOfSeq
<1>2. q = [i \in 1..Len(routes) |-> Item(routes[i], id)]
  BY <1>1 DEF Items
<1>3. ASSUME NEW r \in Routed
      PROVE  /\ Item(r, id) \in Deliveries /\ Item(r, id).kind = r.kind /\ Item(r, id).wins = r.wins
             /\ Item(r, id).ids = r.ids /\ Item(r, id).id = id
  <2>. DEFINE x == Item(r, id)
  <2>1. x = [kind |-> r.kind, wins |-> r.wins, ids |-> r.ids, id |-> id]
    BY DEF Item
  <2>2. /\ r.kind \in Kinds /\ r.kind \notin Signs /\ r.wins \in SUBSET Windows /\ r.ids \in SUBSET Chans
        /\ Fits(r) /\ id \in Nat /\ id # 0
    BY DEF Routed, Numbers
  <2>. HIDE DEF x
  <2>3. x.kind = r.kind /\ x.wins = r.wins /\ x.ids = r.ids /\ x.id = id
    BY <2>1
  <2>4. Fits(x)
    BY <2>2, <2>3 DEF Fits
  <2>5. x \in [kind : Kinds, wins : SUBSET Windows, ids : SUBSET Chans, id : Nat]
    BY <2>1, <2>2
  <2>6. x.kind \in Signs <=> x.id = 0
    BY <2>2, <2>3
  <2>. QED BY <2>3, <2>4, <2>5, <2>6 DEF x, Deliveries
<1>4. q \in Seq(Deliveries) /\ Len(q) = Len(routes) /\ \A i \in 1..Len(routes) : q[i] = Item(routes[i], id)
  BY <1>1, <1>2, <1>3
<1>. HIDE DEF q
<1>5. \A i \in 1..Len(routes) : /\ q[i].kind = routes[i].kind /\ q[i].wins = routes[i].wins
                                /\ q[i].ids = routes[i].ids /\ q[i].id = id
  BY <1>1, <1>3, <1>4
<1>. QED BY <1>4, <1>5 DEF q

\* A plan without routes queues nothing.
LEMMA NoItems == ASSUME NEW id PROVE Items(<<>>, id) = <<>>
BY DEF Items
---------------------------------------------------------------------------
(* The inductive invariant. *)

\* What is queued for m, with what the loop is about to queue.
Pending == IF loop.pc = "queue" THEN Items(loop.routes, n) ELSE <<>>
Coming == outbox \o Pending

\* Who plans for m, announces to m or reads m's rows holds m's lock, or takes it next.
NeedsM == loop.routes # <<>> \/ loop.kind \in Turns
Held ==
  /\ NeedsM => locks["m"] = "loop" \/ (loop.need # <<>> /\ Head(loop.need) = "m")
  /\ disp.pc \in {"lock", "relock"} => locks["m"] = "disp" \/ (disp.need # <<>> /\ Head(disp.need) = "m")
  /\ load.pc = "read" => locks["m"] = "load"

\* The channels that have nothing of a QUIT whose rows are still to be written.
Spared ==
  IF loop.kind = "latequit" /\ loop.pc # "queue" THEN Chans
  ELSE IF loop.kind = "latequit" \/ (loop.kind = "lateparts" /\ loop.pc # "queue") THEN anon ELSE {}
Fresh(c) ==
  /\ \A i \in 1..Len(Coming) : c \in Coming[i].wins => Coming[i].id < n
  /\ ranges[c][2] < n /\ \A x \in Range(scrollback[c]) : x < n

Numbering ==
  /\ InOrder(Coming) /\ \A i \in 1..Len(Coming) : Coming[i].id <= n
  /\ \A c \in Chans :
       /\ Rising(scrollback[c]) /\ \A x \in Range(scrollback[c]) : x <= n
       /\ ranges[c][2] <= n
       /\ \A i \in 1..Len(Coming) : c \in Coming[i].ids => ranges[c][2] < Coming[i].id
  /\ \A c \in Spared : Fresh(c)

Attached ==
  /\ load.pc \in {"read", "replies"} => load.win \in load.todo
  /\ load.pc = "done" => load.todo = {}
  /\ link = "off" => load.pc = "none" /\ outbox = <<>> /\ liveFrom = 0 /\ unseeded = <<>> /\ ~Seeded
  /\ link = "on" => (blocked <=> load.pc # "done")

\* The messages of the log, but for the one being fanned out, are the ones that are filed,
\* or would be, and the ones that wait.
Waiting(q) == {q[i].id : i \in DirectAt(q)}
Told == Range(dms) \ (IF loop.kind \in Directs THEN {n} ELSE {})
Conversed(h, u, l, w, t) ==
  /\ w \subseteq t
  /\ h # NoBuf => Rising(h) /\ (\A x \in Range(h), y \in w : x < y) /\ Range(h) \cup w = t
  /\ h = NoBuf => /\ Rising(u) /\ (\A x \in Range(u), y \in w : x < y) /\ Range(u) \subseteq t
                  /\ \A x \in t : (l # 0 /\ x >= l) <=> x \in Range(u) \cup w
DirectRight ==
  /\ Rising(dms) /\ (\A x \in Range(dms) : x <= n) /\ liveFrom <= n
  /\ loop.kind \in Directs => n \in Range(dms)
  /\ link = "on" => Conversed(hist[Direct], unseeded, liveFrom, Waiting(outbox), Told)

\* What m has of a channel it is in; before it is loaded, what waits is the end of its rows.
ReadsUpTo(q, r, x, c) == \A y \in Range(r) : y >= x <=> \E i \in FilesAt(q, c) : y = q[i].id
ChannelRight(c) ==
  /\ HistoryLoaded(c) => Matches(hist, Coming, scrollback[c], c)
  /\ ~HistoryLoaded(c) => /\ Ahead(Coming, scrollback[c], c)
                          /\ load.pc = "read" /\ load.win = c => ReadsUpTo(Coming, scrollback[c], load.before, c)
ChannelsRight == link = "on" => \A c \in inM : ChannelRight(c)

InItsStay(q, i) == \A c \in disp.wins \cap Chans : epoch[c] - MovesFrom(q, c, i) = disp.auth[c]
Dispatching ==
  /\ disp.wins \in {{}, {Direct}} \/ \E c \in Chans : disp.wins = {c} /\ DOMAIN disp.auth = {c}
  /\ \A i \in 1..Len(Coming) : Coming[i].kind = "started" =>
       /\ disp.pc \in {"turn", "relock", "done"} /\ Coming[i].wins = disp.wins
       /\ link = "on" /\ ~untold => InItsStay(Coming, i)

Core ==
  /\ Types /\ PlanRight /\ Held /\ Numbering
  /\ Attached /\ DirectRight /\ ChannelsRight /\ Dispatching
---------------------------------------------------------------------------
(* What a step leaves. *)
LEMMA NumberingLeft ==
  ASSUME Numbering, Coming' = Coming, UNCHANGED <<n, scrollback, ranges>>, Spared' \subseteq Spared
  PROVE  Numbering'
BY DEF Numbering, Fresh

\* A step that leaves the channels' state leaves them right.
LEMMA ChannelsLeft ==
  ASSUME ChannelsRight, Coming' = Coming, UNCHANGED <<link, inM, load, hist, scrollback>>
  PROVE  ChannelsRight'
BY DEF ChannelsRight, ChannelRight, HistoryLoaded

\* A step that leaves the attachment leaves it right.
LEMMA AttachedLeft ==
  ASSUME Attached, UNCHANGED <<load, link, blocked, liveFrom, unseeded, hist, outbox>>
  PROVE  Attached'
BY DEF Attached, Seeded

\* A step that leaves the direct conversation leaves it right.
LEMMA DirectLeft ==
  ASSUME Types, DirectRight, UNCHANGED <<dms, hist, unseeded, liveFrom, link>>, Waiting(outbox)' = Waiting(outbox),
         loop'.kind \in Directs <=> loop.kind \in Directs,
         n' \in Nat, n' >= n, loop.kind \in Directs => n' = n
  PROVE  DirectRight'
<1>1. Told' = Told
  BY DEF Told
<1>2. n \in Nat /\ liveFrom \in Nat /\ \A x \in Range(dms) : x \in Nat
  BY RangeIs DEF Types, Numbers
<1>3. /\ \A x \in Range(dms) : x <= n'
      /\ liveFrom <= n'
  BY <1>2 DEF DirectRight
<1>. QED BY <1>1, <1>3 DEF DirectRight

\* A step that leaves the queue and the dispatch's window leaves the dispatch right.
LEMMA DispatchingLeft ==
  ASSUME Dispatching, Coming' = Coming, UNCHANGED <<link, epoch, untold>>,
         disp'.wins = disp.wins, disp'.auth = disp.auth,
         disp.pc \in {"turn", "relock", "done"} => disp'.pc \in {"turn", "relock", "done"}
  PROVE  Dispatching'
BY DEF Dispatching, InItsStay

\* Nothing is pending but when the loop queues, and then it holds m's lock if it is for m.
LEMMA ComingIs ==
  ASSUME Types
  PROVE  /\ Pending \in Seq(Deliveries) /\ Coming \in Seq(Deliveries)
         /\ loop.pc # "queue" => Pending = <<>> /\ Coming = outbox
         /\ loop.routes = <<>> => Pending = <<>> /\ Coming = outbox
<1>1. loop.routes \in Seq(Routed) /\ n \in Numbers /\ outbox \in Seq(Deliveries)
  BY DEF Types, LoopTypes
<1>2. Items(loop.routes, n) \in Seq(Deliveries) /\ Items(<<>>, n) = <<>>
  BY <1>1, ItemsAre, NoItems
<1>3. Pending \in Seq(Deliveries)
  BY <1>2, EmptySeq DEF Pending
<1>4. Coming \in Seq(Deliveries)
  BY <1>1, <1>3, ConcatProperties DEF Coming
<1>5. Pending = <<>> => Coming = outbox
  BY <1>1, ConcatEmptySeq DEF Coming
<1>6. (loop.pc # "queue" => Pending = <<>>) /\ (loop.routes = <<>> => Pending = <<>>)
  BY <1>2 DEF Pending
<1>. QED BY <1>3, <1>4, <1>5, <1>6

ComingKnown ==
  /\ Pending \in Seq(Deliveries) /\ Coming \in Seq(Deliveries)
  /\ loop.pc # "queue" => Pending = <<>> /\ Coming = outbox
  /\ loop.routes = <<>> => Pending = <<>> /\ Coming = outbox

\* What is to come after a step.
LEMMA ComingNext ==
  Types' => /\ Pending' \in Seq(Deliveries) /\ Coming' \in Seq(Deliveries)
            /\ loop'.pc # "queue" => Pending' = <<>> /\ Coming' = outbox'
            /\ loop'.routes = <<>> => Pending' = <<>> /\ Coming' = outbox'
<1>1. Types => ComingKnown
  BY ComingIs DEF ComingKnown
<1>2. Types' => ComingKnown'
  BY <1>1, PTL
<1>. QED BY <1>2 DEF ComingKnown

\* Who has planned for m has its replay lock or waits for it.
LEMMA LockIsHeld ==
  ASSUME Inv, Held
  PROVE  /\ NeedsM /\ loop.pc # "lock" => locks["m"] = "loop"
         /\ disp.pc \in {"lock", "relock"} /\ disp.need = <<>> => locks["m"] = "disp"
         /\ load.pc = "read" => locks["m"] = "load"
         /\ locks["m"] # "loop" /\ loop.pc # "lock" => loop.routes = <<>> /\ loop.kind \notin Turns
BY DEF Inv, LoopLocks, Held, NeedsM

\* While another holds m's lock, or none does, nothing is pending for m.
LEMMA NothingPending ==
  ASSUME Types, Inv, Held, locks["m"] # "loop"
  PROVE  Coming = outbox /\ Pending = <<>>
BY LockIsHeld, ComingIs
---------------------------------------------------------------------------
(* The loop's steps up to a commit, and the dispatch's. *)

\* m's lock comes first.
LEMMA LockOrderHead ==
  ASSUME NEW clients, \E i \in DOMAIN clients : clients[i] = "m"
  PROVE  LockOrder(clients) # <<>> /\ Head(LockOrder(clients)) = "m"
<1>. DEFINE b == OneIf(\E i \in DOMAIN clients : clients[i] = "p", "p")
<1>1. LockOrder(clients) = <<"m">> \o b
  BY DEF LockOrder, OneIf
<1>2. b \in {<<>>, <<"p">>}
  BY DEF OneIf
<1>. HIDE DEF b
<1>3. \A s \in {<<>>, <<"p">>} : <<"m">> \o s # <<>> /\ Head(<<"m">> \o s) = "m"
  OBVIOUS
<1>. QED BY <1>1, <1>2, <1>3

\* A plan that has begun.
LEMMA PlannedIs ==
  ASSUME Types, NEW kind, NEW c \in Windows \cup {"none"}, Due(kind, c), loop' = Planned(kind, c, Routes(kind, c))
  PROVE  /\ loop' \in LoopTypes /\ loop'.kind = kind /\ loop'.win = c /\ loop'.routes = Routes(kind, c)
         /\ loop'.pc \in {"lock", "commit"}
         /\ RoutesRight(kind, c, loop'.routes)
         /\ NeedsM' => loop'.need # <<>> /\ Head(loop'.need) = "m"
<1>. DEFINE routes == Routes(kind, c)
            clients == Locked(kind, c, routes)
            need == LockOrder(clients)
<1>1. routes \in Seq(Routed) /\ RoutesRight(kind, c, routes)
  BY PlannedRight
<1>2. need \in Orders
  BY OrderType
<1>3. kind \in Plans
  BY DEF Due
<1>4. routes # <<>> \/ kind \in Turns => need # <<>> /\ Head(need) = "m"
  <2>1. SUFFICES ASSUME routes # <<>> \/ kind \in Turns PROVE \E i \in DOMAIN clients : clients[i] = "m"
    BY LockOrderHead
  <2>. DEFINE b == OneIf(kind \notin {"dm", "owndm"}
               /\ (kind \notin {"own", "topic", "part", "kick", "selfjoin"} \/ c \in inP), "p")
  <2>2. clients = <<"m">> \o b
    BY <2>1 DEF Locked, OneIf, Turns, Departs
  <2>3. b \in {<<>>, <<"p">>}
    BY DEF OneIf
  <2>. HIDE DEF b, clients
  <2>4. \A s \in {<<>>, <<"p">>} : 1 \in DOMAIN (<<"m">> \o s) /\ (<<"m">> \o s)[1] = "m"
    OBVIOUS
  <2>. QED BY <2>2, <2>3, <2>4
<1>5. /\ loop' = [pc |-> IF need = <<>> THEN "commit" ELSE "lock", kind |-> kind, win |-> c, routes |-> routes, need |-> need]
  BY DEF Planned
<1>. HIDE DEF routes, need
<1>6. /\ loop' \in LoopTypes /\ loop'.kind = kind /\ loop'.win = c /\ loop'.routes = routes
      /\ loop'.pc \in {"lock", "commit"} /\ loop'.need = need
  BY <1>1, <1>2, <1>3, <1>5 DEF LoopTypes
<1>7. NeedsM' <=> routes # <<>> \/ kind \in Turns
  BY <1>6 DEF NeedsM
<1>. QED BY <1>1, <1>4, <1>6, <1>7 DEF routes

\* A command that begins plans its routes and waits for their locks.
LEMMA BeginRight ==
  ASSUME Core, Inv, NEW kind, NEW c \in Windows \cup {"none"}, Due(kind, c), kind \notin Directs,
         kind \notin {"latequit", "lateparts"}, Begin(kind, c)
  PROVE  Core'
<1>1. /\ loop.pc = "idle" /\ loop' = Planned(kind, c, Routes(kind, c))
      /\ UNCHANGED <<anon, n, faults, inM, inP, scrollback, dms, link, blocked, outbox, ranges, epoch, liveFrom, disp, locks, dmMu,
                     load, hist, unseeded, untold>>
  BY DEF Begin, MayCommand, events, members, store, queue, mutexes, client
<1>2. /\ loop' \in LoopTypes /\ loop'.kind = kind /\ loop'.win = c /\ loop'.routes = Routes(kind, c)
      /\ loop'.pc \in {"lock", "commit"}
      /\ RoutesRight(kind, c, loop'.routes)
      /\ NeedsM' => loop'.need # <<>> /\ Head(loop'.need) = "m"
  BY <1>1, PlannedIs DEF Core
<1>3. Types /\ PlanRight /\ Held /\ Numbering /\ Attached /\ DirectRight /\ ChannelsRight /\ Dispatching
  BY DEF Core
<1>4. Types'
  BY <1>1, <1>2, <1>3 DEF Types, Seeded
<1>5. loop.kind = "none" /\ loop.routes = <<>> /\ dmMu = "free"
  BY <1>1, <1>3 DEF PlanRight, Directs
<1>6. RoutesRight(loop.kind, loop.win, loop.routes)'
  BY <1>1, <1>2 DEF RoutesRight
<1>7. PlanRight'
  BY <1>1, <1>2, <1>5, <1>6 DEF PlanRight, Due, Plans
<1>8. Held'
  BY <1>1, <1>2, <1>3 DEF Held
<1>9. Coming = outbox /\ Coming' = outbox' /\ Coming' = Coming
  <2>1. Coming = outbox
    BY <1>1, <1>3, ComingIs
  <2>2. loop'.pc # "queue"
    BY <1>2
  <2>3. Coming' = outbox'
    BY <1>4, <2>2, ComingNext
  <2>. QED BY <1>1, <2>1, <2>3
<1>10. Numbering'
  <2>1. Spared' = {}
    BY <1>2 DEF Spared
  <2>. QED BY <1>1, <1>3, <1>9, <2>1, NumberingLeft
<1>11. DirectRight'
  <2>1. Waiting(outbox)' = Waiting(outbox)
    BY <1>1
  <2>2. n \in Nat
    BY <1>3 DEF Types, Numbers
  <2>3. loop'.kind \in Directs <=> loop.kind \in Directs
    BY <1>2, <1>5 DEF Directs
  <2>. QED BY <1>1, <1>3, <2>1, <2>2, <2>3, DirectLeft
<1>12. Attached'
  BY <1>1, <1>3, AttachedLeft
<1>13. ChannelsRight'
  BY <1>1, <1>3, <1>9, ChannelsLeft
<1>14. Dispatching'
  BY <1>1, <1>3, <1>9, DispatchingLeft
<1>. QED BY <1>4, <1>7, <1>8, <1>10, <1>11, <1>12, <1>13, <1>14 DEF Core

\* Steps that move the loop or a dispatch along and nothing else.
LEMMA CoreLeft ==
  ASSUME Core, UNCHANGED <<anon, n, inM, scrollback, dms, link, blocked, outbox, ranges, epoch, liveFrom, load, hist, unseeded, untold>>,
         loop' \in LoopTypes, disp' \in DispTypes, dmMu' \in {"free", "loop"},
         PlanRight', Held', Dispatching', Coming' = Coming, Spared' \subseteq Spared,
         loop'.kind \in Directs <=> loop.kind \in Directs
  PROVE  Core'
<1>1. Types /\ Numbering /\ Attached /\ DirectRight /\ ChannelsRight
  BY DEF Core
<1>2. Types'
  BY <1>1 DEF Types, Seeded
<1>3. Numbering'
  BY <1>1, NumberingLeft
<1>4. DirectRight'
  <2>1. n \in Nat
    BY <1>1 DEF Types, Numbers
  <2>. QED BY <1>1, <2>1, DirectLeft
<1>5. Attached' /\ ChannelsRight'
  BY <1>1, AttachedLeft, ChannelsLeft
<1>. QED BY <1>2, <1>3, <1>4, <1>5 DEF Core

\* Taking a replay lock brings the plan nearer its commit.
LEMMA LockRight == ASSUME Core, Inv, Lock PROVE Core'
<1>. DEFINE x == Head(loop.need)
<1>0. Types /\ PlanRight /\ Held /\ Dispatching
  BY DEF Core
<1>1. /\ loop.pc = "lock" /\ locks[x] = "free" /\ locks' = [locks EXCEPT ![x] = "loop"]
      /\ loop' = [loop EXCEPT !.need = Tail(@), !.pc = IF Len(loop.need) = 1 THEN "commit" ELSE @]
      /\ UNCHANGED <<anon, n, inM, scrollback, dms, link, blocked, outbox, ranges, epoch, liveFrom, load, hist, unseeded, untold, disp, dmMu>>
  BY DEF Lock, Free, events, members, store, queue, client
<1>2. loop \in LoopTypes /\ disp \in DispTypes
  BY <1>0 DEF Types
<1>3. loop.need \in Orders /\ loop.need # <<>> /\ locks \in [Clients -> Holders]
  BY <1>1 DEF Inv, LoopLocks, InTurn
<1>4. x \in Clients /\ Tail(loop.need) \in Orders
  BY <1>3, OrderHeads
<1>. HIDE DEF x
<1>5. /\ loop' \in LoopTypes /\ loop'.kind = loop.kind /\ loop'.win = loop.win /\ loop'.routes = loop.routes
      /\ loop'.pc \in {"lock", "commit"}
  BY <1>1, <1>2, <1>4 DEF LoopTypes
<1>6. Types' /\ Coming' = Coming
  <2>1. Types'
    BY <1>0, <1>1, <1>5 DEF Types, Seeded
  <2>2. Coming = outbox
    BY <1>0, <1>1, ComingIs
  <2>3. Coming' = outbox'
    BY <1>5, <2>1, ComingNext
  <2>. QED BY <1>1, <2>1, <2>2, <2>3
<1>7. PlanRight'
  <2>1. RoutesRight(loop.kind, loop.win, loop.routes)'
    BY <1>0, <1>1, <1>5 DEF PlanRight, RoutesRight
  <2>. QED BY <1>0, <1>1, <1>5, <2>1 DEF PlanRight
<1>8. Held'
  <2>1. CASE x = "m"
    <3>1. locks["m"] = "free" /\ locks'["m"] = "loop"
      BY <1>1, <1>3, <2>1 DEF Clients
    <3>2. /\ disp.pc \in {"lock", "relock"} => disp.need # <<>> /\ Head(disp.need) = "m"
          /\ load.pc # "read"
      BY <1>0, <3>1 DEF Held
    <3>. QED BY <1>1, <3>1, <3>2 DEF Held
  <2>2. CASE x # "m"
    <3>1. locks'["m"] = locks["m"]
      BY <1>1, <1>3, <2>2 DEF Clients
    <3>2. NeedsM => locks["m"] = "loop"
      BY <1>0, <2>2 DEF Held, x
    <3>3. NeedsM' <=> NeedsM
      BY <1>5 DEF NeedsM
    <3>. QED BY <1>0, <1>1, <3>1, <3>2, <3>3 DEF Held
  <2>. QED BY <2>1, <2>2
<1>9. Dispatching'
  BY <1>0, <1>1, <1>6, DispatchingLeft
<1>10. Spared' \subseteq Spared
  BY <1>1, <1>5 DEF Spared
<1>11. dmMu' \in {"free", "loop"}
  BY <1>0, <1>1 DEF Types
<1>. QED BY <1>1, <1>2, <1>5, <1>6, <1>7, <1>8, <1>9, <1>10, <1>11, CoreLeft

\* Unlocking leaves the other's hold of m's lock.
LEMMA UnlockedLeaves ==
  ASSUME Inv, NEW who, locks' = Unlocked(who)
  PROVE  locks["m"] # who => locks'["m"] = locks["m"]
BY DEF Inv, Unlocked, Clients

\* Between commands nothing is planned.
LEMMA NoPlanRight ==
  ASSUME Types, loop' = NoPlan, dmMu' = "free"
  PROVE  /\ PlanRight' /\ ~NeedsM' /\ Spared' = {} /\ loop' \in LoopTypes /\ loop'.routes = <<>> /\ loop'.pc = "idle"
         /\ loop'.kind \notin Directs
<1>1. loop' = [pc |-> "idle", kind |-> "none", win |-> "none", routes |-> <<>>, need |-> <<>>]
  BY DEF NoPlan
<1>2. <<>> \in Seq(Routed) /\ Apart(<<>>) /\ Len(<<>>) = 0 /\ \A i \in 1..Len(<<>>) : FALSE
  BY NoRoutes
<1>3. loop'.pc = "idle" /\ loop'.kind = "none" /\ loop'.win = "none" /\ loop'.routes = <<>> /\ loop'.need = <<>>
  BY <1>1
<1>4. loop' \in LoopTypes
  BY <1>1, <1>2 DEF LoopTypes, Orders
<1>5. "none" \notin Directs \cup Turns \cup {"part", "selfjoin", "latequit", "lateparts"}
  BY DEF Directs, Turns, Departs
<1>6. RoutesRight(loop.kind, loop.win, loop.routes)'
  BY <1>2, <1>3, <1>5 DEF RoutesRight, Apart
<1>7. PlanRight'
  BY <1>3, <1>5, <1>6 DEF PlanRight
<1>. QED BY <1>3, <1>4, <1>5, <1>7 DEF NeedsM, Spared

\* A failed transaction gives up the plan.
LEMMA CommitFailsRight == ASSUME Core, Inv, CommitFails PROVE Core'
<1>0. Types /\ PlanRight /\ Held /\ Dispatching
  BY DEF Core
<1>1. /\ loop.pc = "commit" /\ loop.kind \notin {"dm", "owndm", "latequit", "lateparts"}
      /\ loop' = NoPlan /\ locks' = Unlocked("loop") /\ dmMu' = IF dmMu = "loop" THEN "free" ELSE dmMu
      /\ UNCHANGED <<anon, n, inM, scrollback, dms, link, blocked, outbox, ranges, epoch, liveFrom, load, hist, unseeded, untold, disp>>
  BY DEF CommitFails, LoopDone, members, store, queue, client
<1>2. dmMu' = "free"
  BY <1>0, <1>1 DEF Types
<1>3. /\ PlanRight' /\ ~NeedsM' /\ Spared' = {} /\ loop' \in LoopTypes /\ loop'.routes = <<>>
      /\ loop'.kind \notin Directs
  BY <1>0, <1>1, <1>2, NoPlanRight
<1>4. Types' /\ Coming' = Coming
  <2>1. Types'
    BY <1>0, <1>1, <1>2, <1>3 DEF Types, Seeded
  <2>2. Coming = outbox
    BY <1>0, <1>1, ComingIs
  <2>3. Coming' = outbox'
    BY <1>3, <2>1, ComingNext
  <2>. QED BY <1>1, <2>1, <2>2, <2>3
<1>5. Held'
  BY <1>0, <1>1, <1>3, UnlockedLeaves DEF Held
<1>6. Dispatching'
  BY <1>0, <1>1, <1>4, DispatchingLeft
<1>7. loop'.kind \in Directs <=> loop.kind \in Directs
  BY <1>1, <1>3 DEF Directs
<1>8. disp' \in DispTypes
  BY <1>0, <1>1 DEF Types
<1>. QED BY <1>1, <1>2, <1>3, <1>4, <1>5, <1>6, <1>7, <1>8, CoreLeft
---------------------------------------------------------------------------
(* The dispatch's steps but for the announcements. *)

\* A dispatch that moves on, or starts, without a delivery.
LEMMA DispMovesRight ==
  ASSUME Core, disp' \in DispTypes, Dispatching',
         UNCHANGED <<anon, n, inM, scrollback, dms, link, blocked, outbox, ranges, epoch, liveFrom, load, hist, unseeded, untold, loop, dmMu>>,
         Held'
  PROVE  Core'
<1>0. Types /\ PlanRight
  BY DEF Core
<1>1. PlanRight'
  BY <1>0 DEF PlanRight, RoutesRight
<1>2. Coming' = Coming /\ Spared' = Spared
  BY DEF Coming, Pending, Spared
<1>3. loop' \in LoopTypes /\ dmMu' \in {"free", "loop"}
  BY <1>0 DEF Types
<1>. QED BY <1>1, <1>2, <1>3, CoreLeft

\* A step that leaves the queue and the plan leaves what is to come.
LEMMA ComingSame ==
  ASSUME UNCHANGED <<outbox, loop, n>>
  PROVE  Coming' = Coming
BY DEF Coming, Pending

\* No turn is announced before a dispatch has its locks.
LEMMA NotYetStarted ==
  ASSUME Dispatching, disp.pc \in {"none", "admit", "lock"}
  PROVE  \A i \in 1..Len(Coming) : Coming[i].kind # "started"
BY DEF Dispatching

\* A dispatch plans, waits and takes locks without touching the queue.
LEMMA DispatchesRight ==
  ASSUME Core, Inv, BeginDirectDispatch \/ AdmitDispatch \/ TurnEnds \/ LockDispatch \/ \E c \in Chans : BeginDispatch(c)
  PROVE  Core'
<1>0. Types /\ PlanRight /\ Held /\ Dispatching
  BY DEF Core
<1>1. UNCHANGED <<anon, n, inM, scrollback, dms, link, blocked, outbox, ranges, epoch, liveFrom, load, hist, unseeded, untold, loop, dmMu>>
  BY DEF BeginDirectDispatch, AdmitDispatch, TurnEnds, LockDispatch, BeginDispatch, events, members, store, queue, client, mutexes
<1>2. Coming' = Coming /\ (NeedsM' <=> NeedsM)
  BY <1>1, ComingSame DEF NeedsM
<1>3. disp \in DispTypes
  BY <1>0 DEF Types
<1>4. ASSUME NEW c \in Chans, BeginDispatch(c) PROVE Core'
  <2>1. /\ disp.pc = "none" /\ UNCHANGED locks
        /\ disp' = [pc |-> "admit", wins |-> {c}, auth |-> [w \in {c} |-> epoch[w]], need |-> <<>>]
    BY <1>4 DEF BeginDispatch, mutexes
  <2>2. [w \in {c} |-> epoch[w]] \in Auths /\ {c} \in SUBSET Windows
    <3>1. [w \in {c} |-> epoch[w]] \in [{c} -> Nat]
      BY <1>0 DEF Types
    <3>. QED BY <3>1 DEF Auths, Windows
  <2>. DEFINE a == [w \in {c} |-> epoch[w]]
  <2>3. DOMAIN a = {c}
    OBVIOUS
  <2>. HIDE DEF a
  <2>4. /\ disp' \in DispTypes /\ disp'.pc = "admit" /\ disp'.wins = {c} /\ DOMAIN disp'.auth = {c}
    <3>1. disp' = [pc |-> "admit", wins |-> {c}, auth |-> a, need |-> <<>>]
      BY <2>1 DEF a
    <3>. QED BY <2>2, <2>3, <3>1 DEF DispTypes, Orders, a
  <2>5. Held'
    BY <1>0, <1>1, <1>2, <2>1, <2>4 DEF Held
  <2>6. Dispatching'
    BY <1>0, <1>2, <2>1, <2>4, NotYetStarted DEF Dispatching
  <2>. QED BY <1>1, <2>4, <2>5, <2>6, DispMovesRight
<1>5. ASSUME NEW wins, NEW auth \in Auths, NEW clients,
             disp.pc \in {"none", "admit"},
             wins = {Direct} \/ (wins = disp.wins /\ auth = disp.auth),
             \E i \in DOMAIN clients : clients[i] = "m",
             disp' = DispatchOf(wins, auth, clients), UNCHANGED locks
      PROVE  Core'
  <2>1. LockOrder(clients) \in Orders /\ LockOrder(clients) # <<>> /\ Head(LockOrder(clients)) = "m"
    BY <1>5, OrderType, LockOrderHead
  <2>. DEFINE need == LockOrder(clients)
  <2>2. disp' = [pc |-> "lock", wins |-> wins, auth |-> auth, need |-> need]
    BY <1>5 DEF DispatchOf
  <2>. HIDE DEF need
  <2>3. wins \in SUBSET Windows
    BY <1>3, <1>5 DEF DispTypes, Windows
  <2>4. disp' \in DispTypes /\ disp'.pc = "lock" /\ disp'.wins = wins /\ disp'.auth = auth /\ disp'.need = need
    BY <2>1, <2>2, <2>3 DEF DispTypes, need
  <2>5. Held'
    BY <1>0, <1>1, <1>2, <1>5, <2>1, <2>4 DEF Held, need
  <2>6. Dispatching'
    BY <1>0, <1>2, <1>5, <2>4, NotYetStarted DEF Dispatching
  <2>. QED BY <1>1, <2>4, <2>5, <2>6, DispMovesRight
<1>6. ASSUME BeginDirectDispatch PROVE Core'
  <2>1. disp.pc = "none" /\ UNCHANGED locks /\ disp' = DispatchOf({Direct}, <<>>, <<"p", "m">>)
    BY <1>6 DEF BeginDirectDispatch, mutexes
  <2>2. <<>> \in Auths
    <3>1. <<>> \in [{} -> Nat]
      OBVIOUS
    <3>. QED BY <3>1 DEF Auths
  <2>3. \E i \in DOMAIN <<"p", "m">> : <<"p", "m">>[i] = "m"
    OBVIOUS
  <2>. QED BY <2>1, <2>2, <2>3, <1>5
<1>7. ASSUME AdmitDispatch PROVE Core'
  <2>1. disp.pc = "admit" /\ UNCHANGED locks
    BY <1>7 DEF AdmitDispatch, mutexes
  <2>2. CASE disp' = DispatchOf(disp.wins, disp.auth, <<"m", "p">>)
    <3>1. \E i \in DOMAIN <<"m", "p">> : <<"m", "p">>[i] = "m"
      OBVIOUS
    <3>2. disp.auth \in Auths
      BY <1>3 DEF DispTypes
    <3>. QED BY <2>1, <2>2, <3>1, <3>2, <1>5
  <2>3. CASE disp' = [disp EXCEPT !.pc = "done"]
    <3>1. disp' \in DispTypes /\ disp'.pc = "done" /\ disp'.wins = disp.wins /\ disp'.auth = disp.auth
      BY <1>3, <2>3 DEF DispTypes
    <3>2. Held'
      BY <1>0, <1>1, <1>2, <2>1, <3>1 DEF Held
    <3>3. Dispatching'
      BY <1>0, <1>1, <1>2, <3>1, DispatchingLeft
    <3>. QED BY <1>1, <3>1, <3>2, <3>3, DispMovesRight
  <2>. QED BY <1>7, <2>2, <2>3 DEF AdmitDispatch
<1>8. ASSUME TurnEnds PROVE Core'
  <2>1. disp.pc = "turn" /\ UNCHANGED locks /\ disp' = [disp EXCEPT !.pc = "relock", !.need = LockOrder(<<"m">>)]
    BY <1>8 DEF TurnEnds, mutexes
  <2>. DEFINE need == LockOrder(<<"m">>)
  <2>2. need \in Orders /\ need # <<>> /\ Head(need) = "m"
    <3>1. \E i \in DOMAIN <<"m">> : <<"m">>[i] = "m"
      OBVIOUS
    <3>. QED BY <3>1, OrderType, LockOrderHead
  <2>. HIDE DEF need
  <2>3. disp' = [disp EXCEPT !.pc = "relock", !.need = need]
    BY <2>1 DEF need
  <2>4. /\ disp' \in DispTypes /\ disp'.pc = "relock" /\ disp'.wins = disp.wins /\ disp'.auth = disp.auth
        /\ disp'.need = need
    BY <1>3, <2>2, <2>3 DEF DispTypes
  <2>5. Held'
    BY <1>0, <1>1, <1>2, <2>1, <2>2, <2>4 DEF Held
  <2>6. Dispatching'
    BY <1>0, <1>1, <1>2, <2>4, DispatchingLeft
  <2>. QED BY <1>1, <2>4, <2>5, <2>6, DispMovesRight
<1>9. ASSUME LockDispatch PROVE Core'
  <2>. DEFINE x == Head(disp.need)
  <2>1. /\ disp.pc \in {"lock", "relock"} /\ disp.need # <<>> /\ locks[x] = "free"
        /\ locks' = [locks EXCEPT ![x] = "disp"] /\ disp' = [disp EXCEPT !.need = Tail(@)]
    BY <1>9 DEF LockDispatch, Free
  <2>2. disp.need \in Orders /\ locks \in [Clients -> Holders]
    BY DEF Inv, DispLocks, InTurn
  <2>3. x \in Clients /\ Tail(disp.need) \in Orders
    BY <2>1, <2>2, OrderHeads
  <2>. HIDE DEF x
  <2>4. /\ disp' \in DispTypes /\ disp'.pc = disp.pc /\ disp'.wins = disp.wins /\ disp'.auth = disp.auth
    BY <1>3, <2>1, <2>3 DEF DispTypes
  <2>5. Held'
    <3>1. CASE x = "m"
      <4>1. locks["m"] = "free" /\ locks'["m"] = "disp"
        BY <2>1, <2>2, <3>1 DEF Clients
      <4>. QED BY <1>0, <1>1, <1>2, <4>1 DEF Held
    <3>2. CASE x # "m"
      <4>1. locks'["m"] = locks["m"]
        BY <2>1, <2>2, <3>2 DEF Clients
      <4>2. locks["m"] = "disp"
        BY <1>0, <2>1, <3>2 DEF Held, x
      <4>. QED BY <1>0, <1>1, <1>2, <4>1, <4>2 DEF Held
    <3>. QED BY <3>1, <3>2
  <2>6. Dispatching'
    BY <1>0, <1>1, <1>2, <2>4, DispatchingLeft
  <2>. QED BY <1>1, <2>4, <2>5, <2>6, DispMovesRight
<1>. QED BY <1>4, <1>6, <1>7, <1>8, <1>9
---------------------------------------------------------------------------
(* A queue that grows. *)

\* Deliveries with later numbers keep a queue in order.
LEMMA InOrderGrows ==
  ASSUME NEW a \in Seq(Deliveries), NEW b \in Seq(Deliveries), InOrder(a), InOrder(b),
         \A i \in 1..Len(a), j \in 1..Len(b) :
           a[i].id # 0 /\ b[j].id # 0 /\ a[i].wins \cap b[j].wins # {} => a[i].id < b[j].id
  PROVE  InOrder(a \o b)
<1>. DEFINE q == a \o b
            L == Len(a)
<1>0. L \in Nat /\ Len(b) \in Nat
  BY LenProperties
<1>1. /\ \A i \in 1..L : i \in 1..Len(q) /\ q[i] = a[i]
      /\ \A i \in 1..Len(b) : i + L \in 1..Len(q) /\ q[i + L] = b[i]
      /\ \A i \in 1..Len(q) : i \in 1..L \/ \E j \in 1..Len(b) : i = j + L
  BY Joined
<1>. HIDE DEF q, L
<1>2. SUFFICES ASSUME NEW i \in 1..Len(q), NEW j \in 1..Len(q), i < j, q[i].id # 0, q[j].id # 0,
                      q[i].wins \cap q[j].wins # {}
               PROVE  q[i].id < q[j].id
  BY DEF InOrder, q
<1>3. CASE i \in 1..L /\ j \in 1..L
  BY <1>1, <1>2, <1>3 DEF InOrder, L
<1>4. ASSUME NEW m \in 1..Len(b), j = m + L, i \in 1..L PROVE q[i].id < q[j].id
  BY <1>1, <1>2, <1>4 DEF L
<1>5. ASSUME NEW k \in 1..Len(b), i = k + L, j \in 1..L PROVE q[i].id < q[j].id
  <2>1. ~(i < j)
    BY <1>0, <1>5
  <2>. QED BY <1>2, <2>1
<1>6. ASSUME NEW k \in 1..Len(b), NEW m \in 1..Len(b), i = k + L, j = m + L PROVE q[i].id < q[j].id
  <2>1. k < m
    BY <1>0, <1>2, <1>6
  <2>. QED BY <1>1, <1>2, <1>6, <2>1 DEF InOrder
<1>. QED BY <1>1, <1>3, <1>4, <1>5, <1>6

---------------------------------------------------------------------------
(* How often a membership changes in a queue of two parts. *)
LEMMA MovesFromEarlier ==
  ASSUME NEW a \in Seq(Deliveries), NEW b \in Seq(Deliveries), NEW c, NEW i \in 1..Len(a), MovesAt(b, c) = {}
  PROVE  MovesFrom(a \o b, c, i) = MovesFrom(a, c, i)
<1>. DEFINE q == a \o b
            L == Len(a)
<1>1. /\ L \in Nat /\ Len(b) \in Nat /\ Len(q) = L + Len(b)
      /\ \A j \in 1..L : j \in 1..Len(q) /\ q[j] = a[j]
      /\ \A j \in 1..Len(b) : j + L \in 1..Len(q) /\ q[j + L] = b[j]
      /\ \A j \in 1..Len(q) : j \in 1..L \/ \E m \in 1..Len(b) : j = m + L
  BY Joined
<1>. HIDE DEF q, L
<1>2. {j \in i..Len(q) : Moves(q[j], c)} = {j \in i..L : Moves(a[j], c)}
  <2>1. ASSUME NEW j \in i..Len(q), Moves(q[j], c) PROVE j \in i..L /\ Moves(a[j], c)
    <3>1. j \in 1..Len(q) /\ j >= i
      BY <1>1 DEF L
    <3>2. \A m \in 1..Len(b) : ~Moves(b[m], c)
      BY DEF MovesAt
    <3>3. j \in 1..L
      BY <1>1, <2>1, <3>1, <3>2
    <3>. QED BY <1>1, <2>1, <3>1, <3>3
  <2>2. ASSUME NEW j \in i..L, Moves(a[j], c) PROVE j \in i..Len(q) /\ Moves(q[j], c)
    <3>1. j \in 1..L /\ j >= i
      BY <1>1 DEF L
    <3>. QED BY <1>1, <2>2, <3>1
  <2>. QED BY <2>1, <2>2
<1>. QED BY <1>2 DEF MovesFrom, q, L

\* A delivery that moves m is one more move for all before it.
LEMMA MovesFromOneMore ==
  ASSUME NEW a \in Seq(Deliveries), NEW b \in Seq(Deliveries), NEW c, NEW i \in 1..Len(a),
         NEW p, MovesAt(b, c) = {p}
  PROVE  MovesFrom(a \o b, c, i) = MovesFrom(a, c, i) + 1
<1>. DEFINE q == a \o b
            L == Len(a)
            A == {j \in i..L : Moves(a[j], c)}
<1>1. /\ L \in Nat /\ Len(b) \in Nat /\ Len(q) = L + Len(b)
      /\ \A j \in 1..L : j \in 1..Len(q) /\ q[j] = a[j]
      /\ \A j \in 1..Len(b) : j + L \in 1..Len(q) /\ q[j + L] = b[j]
      /\ \A j \in 1..Len(q) : j \in 1..L \/ \E m \in 1..Len(b) : j = m + L
  BY Joined
<1>2. p \in 1..Len(b) /\ Moves(b[p], c) /\ \A j \in 1..Len(b) : Moves(b[j], c) => j = p
  BY DEF MovesAt
<1>. HIDE DEF q, L
<1>4. {j \in i..Len(q) : Moves(q[j], c)} = A \cup {p + L}
  <2>1. ASSUME NEW j \in i..Len(q), Moves(q[j], c), j # p + L PROVE j \in A
    <3>1. j \in 1..Len(q)
      BY <1>1 DEF L
    <3>2. j \in 1..L
      BY <1>1, <1>2, <2>1, <3>1
    <3>3. j \in i..L
      BY <1>1, <3>2
    <3>. QED BY <1>1, <2>1, <3>2, <3>3
  <2>2. ASSUME NEW j \in A PROVE j \in i..Len(q) /\ Moves(q[j], c)
    <3>1. j \in 1..L /\ j \in i..Len(q)
      BY <1>1 DEF L
    <3>. QED BY <1>1, <3>1
  <2>3. p + L \in i..Len(q) /\ Moves(q[p + L], c)
    <3>1. p + L \in i..Len(q)
      BY <1>1, <1>2 DEF L
    <3>. QED BY <1>1, <1>2, <3>1
  <2>. QED BY <2>1, <2>2, <2>3
<1>5. IsFiniteSet(A) /\ p + L \notin A
  <2>1. IsFiniteSet(i..L)
    BY <1>1, FS_Interval DEF L
  <2>2. A \subseteq i..L
    OBVIOUS
  <2>3. IsFiniteSet(A)
    BY <2>1, <2>2, FS_Subset
  <2>4. p + L \notin i..L
    BY <1>1, <1>2
  <2>. QED BY <2>2, <2>3, <2>4
<1>. HIDE DEF A
<1>6. Cardinality(A \cup {p + L}) = Cardinality(A) + 1
  BY <1>5, FS_AddElement
<1>. QED BY <1>4, <1>6 DEF MovesFrom, q, L, A

\* The moves after a delivery do not depend on what was read before it.
LEMMA MovesFromLater ==
  ASSUME NEW a \in Seq(Deliveries), NEW b \in Seq(Deliveries), NEW c, NEW i \in 1..Len(b)
  PROVE  MovesFrom(a \o b, c, i + Len(a)) = MovesFrom(b, c, i)
<1>. DEFINE q == a \o b
            L == Len(a)
            A == {j \in i..Len(b) : Moves(b[j], c)}
            B == {j \in (i + L)..Len(q) : Moves(q[j], c)}
            f == [j \in A |-> j + L]
<1>1. /\ L \in Nat /\ Len(b) \in Nat /\ Len(q) = L + Len(b)
      /\ \A j \in 1..Len(b) : j + L \in 1..Len(q) /\ q[j + L] = b[j]
  BY Joined
<1>. HIDE DEF q, L
<1>2. ASSUME NEW j \in A PROVE j \in Nat /\ j + L \in B
  <2>1. j \in 1..Len(b) /\ j + L \in (i + L)..Len(q)
    BY <1>1
  <2>. QED BY <1>1, <2>1
<1>3. ASSUME NEW k \in B PROVE \E j \in A : k = j + L
  <2>1. k - L \in 1..Len(b) /\ k - L \in i..Len(b) /\ (k - L) + L = k
    BY <1>1
  <2>2. q[k] = b[k - L]
    BY <1>1, <2>1
  <2>3. k - L \in A
    BY <2>1, <2>2
  <2>. QED BY <2>1, <2>3
<1>4. IsFiniteSet(A)
  <2>1. IsFiniteSet(i..Len(b))
    BY <1>1, FS_Interval
  <2>. QED BY <2>1, FS_Subset
<1>. HIDE DEF A, B
<1>5. f \in Bijection(A, B)
  <2>1. f \in [A -> B]
    BY <1>2
  <2>2. \A x, y \in A : f[x] = f[y] => x = y
    BY <1>1, <1>2
  <2>3. \A k \in B : \E j \in A : f[j] = k
    BY <1>3
  <2>. QED BY <2>1, <2>2, <2>3 DEF Bijection, Injection, Surjection, IsInjective
<1>6. Cardinality(A) = Cardinality(B)
  BY <1>4, <1>5, FS_Bijection DEF ExistsBijection
<1>. QED BY <1>6 DEF MovesFrom, q, L, A, B

\* A queue that moves nobody has no moves in it.
LEMMA MovesFromSelf ==
  ASSUME NEW b \in Seq(Deliveries), NEW c, MovesAt(b, c) = {}, NEW i \in 1..Len(b)
  PROVE  MovesFrom(b, c, i) = 0
<1>1. {j \in i..Len(b) : Moves(b[j], c)} = {}
  <2>1. Len(b) \in Nat
    BY LenProperties
  <2>2. \A j \in i..Len(b) : j \in 1..Len(b)
    BY <2>1
  <2>. QED BY <2>2 DEF MovesAt
<1>. QED BY <1>1, FS_EmptySet DEF MovesFrom

\* The direct messages of two queues put together.
LEMMA WaitingJoined ==
  ASSUME NEW a \in Seq(Deliveries), NEW b \in Seq(Deliveries)
  PROVE  Waiting(a \o b) = Waiting(a) \cup Waiting(b)
<1>. DEFINE q == a \o b
            L == Len(a)
<1>1. /\ L \in Nat /\ Len(b) \in Nat
      /\ \A i \in 1..L : i \in 1..Len(q) /\ q[i] = a[i]
      /\ \A i \in 1..Len(b) : i + L \in 1..Len(q) /\ q[i + L] = b[i]
      /\ \A i \in 1..Len(q) : i \in 1..L \/ \E j \in 1..Len(b) : i = j + L
  BY Joined
<1>. HIDE DEF q, L
<1>2. ASSUME NEW x \in Waiting(q) PROVE x \in Waiting(a) \cup Waiting(b)
  <2>1. PICK i \in 1..Len(q) : q[i].kind \in Directs /\ x = q[i].id
    BY DEF Waiting, DirectAt
  <2>2. CASE i \in 1..L
    BY <1>1, <2>1, <2>2 DEF Waiting, DirectAt, L
  <2>3. ASSUME NEW j \in 1..Len(b), i = j + L PROVE x \in Waiting(b)
    BY <1>1, <2>1, <2>3 DEF Waiting, DirectAt
  <2>. QED BY <1>1, <2>2, <2>3
<1>3. ASSUME NEW x \in Waiting(a) PROVE x \in Waiting(q)
  <2>1. PICK i \in 1..L : a[i].kind \in Directs /\ x = a[i].id
    BY DEF Waiting, DirectAt, L
  <2>. QED BY <1>1, <2>1 DEF Waiting, DirectAt
<1>4. ASSUME NEW x \in Waiting(b) PROVE x \in Waiting(q)
  <2>1. PICK i \in 1..Len(b) : b[i].kind \in Directs /\ x = b[i].id
    BY DEF Waiting, DirectAt
  <2>. QED BY <1>1, <2>1 DEF Waiting, DirectAt
<1>. QED BY <1>2, <1>3, <1>4 DEF q

\* A queue without direct messages.
LEMMA NoneWaiting ==
  ASSUME NEW b, \A i \in 1..Len(b) : b[i].kind \notin Directs
  PROVE  Waiting(b) = {}
BY DEF Waiting, DirectAt

\* A sign is filed nowhere.
LEMMA SignIs ==
  ASSUME NEW x \in Deliveries, x.kind \in Signs
  PROVE  /\ <<x>> \in Seq(Deliveries) /\ Len(<<x>>) = 1 /\ \A i \in 1..Len(<<x>>) : i = 1 /\ <<x>>[i] = x
         /\ x.id = 0 /\ x.ids = {} /\ InOrder(<<x>>)
         /\ \A c : FilesAt(<<x>>, c) = {} /\ MovesAt(<<x>>, c) = {}
         /\ Waiting(<<x>>) = {}
<1>. DEFINE b == <<x>>
<1>1. b \in Seq(Deliveries) /\ Len(b) = 1 /\ \A i \in 1..Len(b) : i = 1 /\ b[i] = x
  OBVIOUS
<1>2. x.id = 0 /\ x.ids = {}
  BY DEF Deliveries, Fits
<1>. HIDE DEF b
<1>3. InOrder(b)
  BY <1>1, <1>2 DEF InOrder
<1>4. ASSUME NEW c PROVE FilesAt(b, c) = {} /\ MovesAt(b, c) = {}
  <2>1. ~Files(x, c) /\ ~Moves(x, c)
    BY DEF Files, Moves, Signs
  <2>. QED BY <1>1, <2>1 DEF FilesAt, MovesAt
<1>5. Waiting(b) = {}
  BY <1>1, NoneWaiting DEF Signs, Directs
<1>. QED BY <1>1, <1>2, <1>3, <1>4, <1>5 DEF b

\* A delivery that has no row of a channel leaves the place the read ends at.
LEMMA ReadsBeside ==
  ASSUME NEW a \in Seq(Deliveries), NEW b \in Seq(Deliveries), NEW c, NEW r, NEW x,
         FilesAt(b, c) = {}, ReadsUpTo(a, r, x, c)
  PROVE  ReadsUpTo(a \o b, r, x, c)
<1>. DEFINE q == a \o b
<1>1. /\ \A i \in FilesAt(q, c) : i \in FilesAt(a, c)
      /\ \A i \in FilesAt(a, c) : i \in FilesAt(q, c) /\ q[i] = a[i]
  BY FilesOf
<1>. HIDE DEF q
<1>2. ReadsUpTo(q, r, x, c)
  BY <1>1 DEF ReadsUpTo
<1>. QED BY <1>2 DEF q

\* What is queued beside a channel leaves what m has of it.
LEMMA ChannelBeside ==
  ASSUME NEW c, NEW b \in Seq(Deliveries), Coming \in Seq(Deliveries), Coming' = Coming \o b,
         FilesAt(b, c) = {}, MovesAt(b, c) = {},
         ChannelRight(c), UNCHANGED <<load, hist>>, scrollback'[c] = scrollback[c]
  PROVE  ChannelRight(c)'
<1>1. HistoryLoaded(c)' <=> HistoryLoaded(c)
  BY DEF HistoryLoaded
<1>2. ASSUME HistoryLoaded(c) PROVE Matches(hist', Coming', scrollback'[c], c)
  BY <1>2, MatchesBeside DEF ChannelRight
<1>3. ASSUME ~HistoryLoaded(c) PROVE Ahead(Coming', scrollback'[c], c)
  BY <1>3, AheadBeside DEF ChannelRight
<1>4. ASSUME ~HistoryLoaded(c), load.pc = "read", load.win = c PROVE ReadsUpTo(Coming', scrollback'[c], load.before, c)
  BY <1>4, ReadsBeside DEF ChannelRight
<1>. QED BY <1>1, <1>2, <1>3, <1>4 DEF ChannelRight

\* Each event of a channel is queued as its row is written.
LEMMA ChannelRow ==
  ASSUME NEW c, NEW b \in Seq(Deliveries), Coming \in Seq(Deliveries), Coming' = Coming \o b,
         NEW p, FilesAt(b, c) = {p}, MovesAt(b, c) = {}, b[p].id \in Numbers,
         scrollback[c] \in Seq(Numbers), Rising(scrollback[c]), \A x \in Range(scrollback[c]) : x < b[p].id,
         ChannelRight(c), UNCHANGED <<load, hist>>, scrollback'[c] = Append(scrollback[c], b[p].id), load.pc # "read"
  PROVE  ChannelRight(c)'
<1>1. HistoryLoaded(c)' <=> HistoryLoaded(c)
  BY DEF HistoryLoaded
<1>2. ASSUME HistoryLoaded(c) PROVE Matches(hist', Coming', scrollback'[c], c)
  <2>1. Matches(hist, Coming, scrollback[c], c)
    BY <1>2 DEF ChannelRight
  <2>. QED BY <2>1, MatchesRow
<1>3. ASSUME ~HistoryLoaded(c) PROVE Ahead(Coming', scrollback'[c], c)
  <2>1. Ahead(Coming, scrollback[c], c)
    BY <1>3 DEF ChannelRight
  <2>. QED BY <2>1, AheadRow
<1>. QED BY <1>1, <1>2, <1>3 DEF ChannelRight

\* Deliveries without a number change no numbering.
LEMMA NumberingBeside ==
  ASSUME Numbering, n \in Numbers, NEW b \in Seq(Deliveries), Coming \in Seq(Deliveries), Coming' = Coming \o b,
         \A i \in 1..Len(b) : b[i].id = 0 /\ b[i].ids = {},
         UNCHANGED <<n, scrollback, ranges>>, Spared' \subseteq Spared
  PROVE  Numbering'
<1>. DEFINE a == Coming
            q == a \o b
<1>1. InOrder(b)
  BY DEF InOrder
<1>2. InOrder(q)
  BY <1>1, InOrderGrows DEF Numbering
<1>3. /\ \A i \in 1..Len(a) : q[i] = a[i]
      /\ \A i \in 1..Len(b) : q[i + Len(a)] = b[i]
      /\ \A i \in 1..Len(q) : i \in 1..Len(a) \/ \E j \in 1..Len(b) : i = j + Len(a)
  BY Joined
<1>. HIDE DEF q
<1>4. \A i \in 1..Len(q) : (i \in 1..Len(a) /\ q[i] = a[i]) \/ (q[i].id = 0 /\ q[i].ids = {})
  BY <1>3
<1>5. 0 <= n /\ 0 < n
  BY DEF Numbers
<1>6. Coming' = q
  BY DEF q
<1>. HIDE DEF a
<1>7. \A i \in 1..Len(q) : q[i].id <= n
  BY <1>4, <1>5 DEF Numbering, a
<1>8. ASSUME NEW c \in Chans PROVE \A i \in 1..Len(q) : c \in q[i].ids => ranges[c][2] < q[i].id
  BY <1>4 DEF Numbering, a
<1>9. ASSUME NEW c \in Spared PROVE \A i \in 1..Len(q) : c \in q[i].wins => q[i].id < n
  BY <1>4, <1>5 DEF Numbering, Fresh, a
<1>. QED BY <1>2, <1>6, <1>7, <1>8, <1>9 DEF Numbering, Fresh
---------------------------------------------------------------------------
(* The announcements of a turn. *)

\* What is to come, when something is added to it.
LEMMA ComingGrows ==
  ASSUME NEW b \in Seq(Deliveries), Coming \in Seq(Deliveries), Coming' = Coming \o b
  PROVE  /\ \A j \in 1..Len(Coming) : j \in 1..Len(Coming') /\ Coming'[j] = Coming[j]
         /\ \A j \in 1..Len(b) : j + Len(Coming) \in 1..Len(Coming') /\ Coming'[j + Len(Coming)] = b[j]
         /\ \A i \in 1..Len(Coming') : i \in 1..Len(Coming) \/ \E j \in 1..Len(b) : i = j + Len(Coming)
<1>. DEFINE a == Coming
<1>. HIDE DEF a
<1>1. a \in Seq(Deliveries)
  BY DEF a
<1>2. /\ \A j \in 1..Len(a) : j \in 1..Len(a \o b) /\ (a \o b)[j] = a[j]
      /\ \A j \in 1..Len(b) : j + Len(a) \in 1..Len(a \o b) /\ (a \o b)[j + Len(a)] = b[j]
      /\ \A i \in 1..Len(a \o b) : i \in 1..Len(a) \/ \E j \in 1..Len(b) : i = j + Len(a)
  BY <1>1, Joined
<1>. QED BY <1>2 DEF a

\* A turn's sign reaches the queue while the dispatch holds m's lock.
LEMMA AnnouncedRight ==
  ASSUME Core, Inv, NEW kind \in Signs, disp.pc \in {"lock", "relock"}, disp.need = <<>>, link = "on",
         Announce(kind), locks' = Unlocked("disp"),
         NEW pc \in {"turn", "done"}, disp' = [disp EXCEPT !.pc = pc],
         disp.pc = "relock" => kind = "done",
         kind = "started" => \A c \in disp.wins \cap Chans : epoch[c] = disp.auth[c],
         UNCHANGED <<anon, n, inM, scrollback, dms, link, blocked, ranges, epoch, liveFrom, load, hist, unseeded, untold, loop, dmMu>>
  PROVE  Core'
<1>. DEFINE x == [kind |-> kind, wins |-> disp.wins, ids |-> {}, id |-> 0]
            b == <<x>>
<1>0. Types /\ PlanRight /\ Held /\ Numbering /\ Attached /\ DirectRight /\ ChannelsRight /\ Dispatching
  BY DEF Core
<1>1. disp \in DispTypes /\ outbox \in Seq(Deliveries) /\ n \in Numbers
  BY <1>0 DEF Types
<1>2. x \in Deliveries /\ x.kind = kind /\ x.wins = disp.wins
  <2>1. x.kind = kind /\ x.wins = disp.wins /\ x.ids = {} /\ x.id = 0
    OBVIOUS
  <2>2. x \in [kind : Kinds, wins : SUBSET Windows, ids : SUBSET Chans, id : Nat]
    BY <1>1 DEF DispTypes, Kinds
  <2>. HIDE DEF x
  <2>3. Fits(x)
    BY <2>1 DEF Fits, Signs, Directs, Departs, Rows
  <2>. QED BY <2>1, <2>2, <2>3 DEF Deliveries
<1>. HIDE DEF x
<1>3. /\ b \in Seq(Deliveries) /\ Len(b) = 1 /\ \A i \in 1..Len(b) : i = 1 /\ b[i] = x
      /\ x.id = 0 /\ x.ids = {}
      /\ \A c : FilesAt(b, c) = {} /\ MovesAt(b, c) = {}
      /\ Waiting(b) = {}
  BY <1>2, SignIs
<1>. HIDE DEF b
<1>4. outbox' = outbox \o b
  <2>1. outbox' = Append(outbox, x)
    BY DEF Announce, x
  <2>2. Append(outbox, x) = outbox \o <<x>>
    BY <1>1, <1>2, AppendIsConcat
  <2>. QED BY <2>1, <2>2 DEF b
<1>5. locks["m"] = "disp"
  BY <1>0, LockIsHeld
<1>6. Coming = outbox /\ Pending = <<>> /\ Coming \in Seq(Deliveries)
  BY <1>0, <1>1, <1>5, NothingPending
<1>7. outbox' \in Seq(Deliveries)
  BY <1>1, <1>3, <1>4, ConcatProperties
<1>8. disp' \in DispTypes /\ disp'.pc = pc /\ disp'.wins = disp.wins /\ disp'.auth = disp.auth
  BY <1>1 DEF DispTypes
<1>9. Types'
  BY <1>0, <1>7, <1>8 DEF Types, Seeded
<1>10. Coming' = Coming \o b /\ Coming' \in Seq(Deliveries)
  <2>1. Pending' = <<>>
    BY <1>6 DEF Pending
  <2>2. Coming' = outbox' \o <<>>
    BY <2>1 DEF Coming
  <2>. QED BY <1>4, <1>6, <1>7, <2>2, ConcatEmptySeq
<1>11. PlanRight'
  BY <1>0 DEF PlanRight, RoutesRight
<1>12. Held'
  <2>1. NeedsM => loop.need # <<>> /\ Head(loop.need) = "m"
    BY <1>0, <1>5 DEF Held
  <2>2. load.pc # "read"
    BY <1>0, <1>5 DEF Held
  <2>3. NeedsM' <=> NeedsM
    BY DEF NeedsM
  <2>. QED BY <1>8, <2>1, <2>2, <2>3 DEF Held
<1>13. Numbering'
  <2>1. Spared' = Spared
    BY DEF Spared
  <2>. QED BY <1>0, <1>1, <1>3, <1>6, <1>10, <2>1, NumberingBeside
<1>14. Attached'
  BY <1>0 DEF Attached, Seeded
<1>15. DirectRight'
  <2>1. Waiting(outbox)' = Waiting(outbox)
    <3>1. Waiting(outbox \o b) = Waiting(outbox) \cup Waiting(b)
      BY <1>1, <1>3, WaitingJoined
    <3>2. Waiting(outbox') = Waiting(outbox)
      BY <1>3, <1>4, <3>1
    <3>. QED BY <3>2 DEF Waiting, DirectAt
  <2>2. n \in Nat
    BY <1>1 DEF Numbers
  <2>. QED BY <1>0, <2>1, <2>2, DirectLeft
<1>16. ChannelsRight'
  <2>1. SUFFICES ASSUME NEW c \in inM PROVE ChannelRight(c)'
    BY DEF ChannelsRight
  <2>2. ChannelRight(c)
    BY <1>0 DEF ChannelsRight
  <2>. QED BY <1>3, <1>6, <1>10, <2>2, ChannelBeside
<1>17. Dispatching'
  <2>1. SUFFICES ASSUME NEW i \in 1..Len(Coming'), Coming'[i].kind = "started"
                 PROVE  /\ disp'.pc \in {"turn", "relock", "done"} /\ Coming'[i].wins = disp'.wins
                        /\ link' = "on" /\ ~untold' => InItsStay(Coming, i)'
    BY <1>0, <1>8 DEF Dispatching
  <2>2. /\ \A j \in 1..Len(Coming) : Coming'[j] = Coming[j]
        /\ \A j \in 1..Len(b) : j + Len(Coming) \in 1..Len(Coming') /\ Coming'[j + Len(Coming)] = b[j]
        /\ i \in 1..Len(Coming) \/ \E j \in 1..Len(b) : i = j + Len(Coming)
    <3>1. b \in Seq(Deliveries) /\ Coming \in Seq(Deliveries) /\ Coming' = Coming \o b
      BY <1>3, <1>6, <1>10
    <3>. QED BY <3>1, ComingGrows
  <2>3. CASE i \in 1..Len(Coming)
    <3>1. Coming[i].kind = "started"
      BY <2>1, <2>2, <2>3
    <3>2. Coming[i].wins = disp.wins /\ (link = "on" /\ ~untold => InItsStay(Coming, i))
      BY <1>0, <2>3, <3>1 DEF Dispatching
    <3>3. \A c : MovesFrom(Coming', c, i) = MovesFrom(Coming, c, i)
      BY <1>3, <1>6, <1>10, <2>3, MovesFromEarlier
    <3>4. InItsStay(Coming, i) => InItsStay(Coming, i)'
      BY <1>8, <3>3 DEF InItsStay
    <3>. QED BY <1>8, <2>2, <2>3, <3>2, <3>4
  <2>4. CASE i = 1 + Len(Coming)
    <3>1. 1 \in 1..Len(b) /\ b[1] = x
      BY <1>3
    <3>2. Coming'[i] = x
      BY <2>2, <2>4, <3>1
    <3>3. kind = "started"
      BY <1>2, <2>1, <3>2
    <3>4. \A c : MovesFrom(Coming', c, i) = 0
      <4>1. SUFFICES ASSUME NEW c PROVE MovesFrom(Coming', c, i) = 0
        OBVIOUS
      <4>0. b \in Seq(Deliveries) /\ Coming \in Seq(Deliveries) /\ MovesAt(b, c) = {} /\ 1 \in 1..Len(b)
        BY <1>3, <1>6, <3>1
      <4>2. MovesFrom(Coming \o b, c, 1 + Len(Coming)) = MovesFrom(b, c, 1)
        BY <4>0, MovesFromLater
      <4>3. MovesFrom(b, c, 1) = 0
        BY <4>0, MovesFromSelf
      <4>. QED BY <1>10, <2>4, <4>2, <4>3
    <3>5. InItsStay(Coming, i)'
      <4>1. \A c \in Chans : epoch[c] - 0 = epoch[c]
        BY <1>0 DEF Types
      <4>2. \A c \in disp.wins \cap Chans : epoch[c] - MovesFrom(Coming', c, i) = disp.auth[c]
        BY <3>3, <3>4, <4>1
      <4>. QED BY <1>8, <4>2 DEF InItsStay
    <3>. QED BY <1>2, <1>8, <3>2, <3>5
  <2>. QED BY <1>3, <2>2, <2>3, <2>4
<1>. QED BY <1>9, <1>11, <1>12, <1>13, <1>14, <1>15, <1>16, <1>17 DEF Core

\* An announcement that is still due is planned for the membership that stands.
LEMMA StillDueStay ==
  ASSUME Dispatching, StillDue
  PROVE  \A c \in disp.wins \cap Chans : epoch[c] = disp.auth[c]
<1>1. SUFFICES ASSUME NEW c \in Chans, c \in disp.wins PROVE epoch[c] = disp.auth[c]
  OBVIOUS
<1>2. disp.wins = {c} /\ DOMAIN disp.auth = {c}
  BY <1>1, ReplayAssumption DEF Dispatching, Direct
<1>. QED BY <1>2 DEF StillDue

\* The announcements of a turn's start and end.
LEMMA AnnouncementsRight == ASSUME Core, Inv, Start \/ Done PROVE Core'
<1>0. Types /\ PlanRight /\ Held /\ Dispatching /\ disp \in DispTypes
  BY DEF Core, Types
<1>1. /\ disp.need = <<>> /\ locks' = Unlocked("disp")
      /\ UNCHANGED <<anon, n, inM, scrollback, dms, link, blocked, ranges, epoch, liveFrom, load, hist, unseeded, untold, loop, dmMu>>
  BY DEF Start, Done, events, members, store, client
<1>2. ASSUME UNCHANGED outbox, disp.pc \in {"lock", "relock"}, disp' = [disp EXCEPT !.pc = "done"] PROVE Core'
  <2>1. disp' \in DispTypes /\ disp'.pc = "done" /\ disp'.wins = disp.wins /\ disp'.auth = disp.auth
    BY <1>0, <1>2 DEF DispTypes
  <2>2. Coming' = Coming /\ (NeedsM' <=> NeedsM)
    BY <1>1, <1>2, ComingSame DEF NeedsM
  <2>3. Dispatching'
    BY <1>0, <1>1, <2>1, <2>2, DispatchingLeft
  <2>4. locks["m"] = "disp"
    BY <1>0, <1>1, <1>2, LockIsHeld
  <2>5. Held'
    BY <1>0, <1>1, <2>1, <2>2, <2>4 DEF Held
  <2>. QED BY <1>1, <1>2, <2>1, <2>3, <2>5, DispMovesRight
<1>3. CASE Start
  <2>1. disp.pc = "lock"
    BY <1>3 DEF Start
  <2>2. CASE StillDue
    <3>1. Announce("started") /\ disp' = [disp EXCEPT !.pc = "turn"] /\ link = "on" /\ "started" \in Signs
      BY <1>3, <2>2 DEF Start, StillDue, Signs
    <3>2. \A c \in disp.wins \cap Chans : epoch[c] = disp.auth[c]
      BY <1>0, <2>2, StillDueStay
    <3>. QED BY <1>1, <2>1, <3>1, <3>2, AnnouncedRight
  <2>3. CASE ~StillDue
    <3>1. UNCHANGED outbox /\ disp' = [disp EXCEPT !.pc = "done"]
      BY <1>3, <2>3 DEF Start
    <3>. QED BY <1>2, <2>1, <3>1
  <2>. QED BY <2>2, <2>3
<1>4. CASE Done
  <2>1. disp.pc = "relock" /\ disp' = [disp EXCEPT !.pc = "done"]
    BY <1>4 DEF Done
  <2>2. CASE link = "on"
    <3>1. Announce("done") /\ "done" \in Signs
      BY <1>4, <2>2 DEF Done, Signs
    <3>. QED BY <1>1, <2>1, <2>2, <3>1, AnnouncedRight
  <2>3. CASE link # "on"
    <3>1. UNCHANGED outbox
      BY <1>4, <2>3 DEF Done
    <3>. QED BY <1>2, <2>1, <3>1
  <2>. QED BY <2>2, <2>3
<1>. QED BY <1>3, <1>4
---------------------------------------------------------------------------
(* What a plan queues. *)

\* What a route's kind says of its windows.
LEMMA RouteFits ==
  ASSUME NEW r \in Routed
  PROVE  /\ r.kind \in Kinds /\ r.kind \notin Signs
         /\ \A c \in r.ids : r.kind \in Rows /\ c \in r.wins /\ c \in Chans
         /\ r.kind \notin Directs => r.wins \subseteq Chans
         /\ r.kind \in Directs => r.wins = {Direct}
         /\ r.kind \in Departs => r.ids = {}
         /\ r.kind \in Rows => r.wins = r.ids
<1>1. /\ r.kind \in Kinds /\ r.kind \notin Signs /\ r.wins \in SUBSET Windows /\ r.ids \in SUBSET Chans /\ Fits(r)
  BY DEF Routed
<1>2. r.kind \in Directs \/ r.kind \in Departs \/ r.kind \in Rows
  BY <1>1 DEF Kinds
<1>. QED BY <1>1, <1>2 DEF Fits

\* What is queued for a plan: one delivery of a channel for each row of it.
LEMMA QueuedIs ==
  ASSUME NEW kind, NEW win, NEW k \in Seq(Routed), RoutesRight(kind, win, k), NEW m \in Numbers
  PROVE  LET b == Items(k, m) IN
         /\ b \in Seq(Deliveries) /\ Len(b) = Len(k) /\ InOrder(b)
         /\ \A i \in 1..Len(b) : /\ b[i].id = m /\ b[i].kind = k[i].kind /\ b[i].kind \notin Signs
                                 /\ b[i].wins = k[i].wins /\ b[i].ids = k[i].ids
         /\ \A c \in Chans : ~Projected(k, c) => FilesAt(b, c) = {}
         /\ \A c \in Chans : Projected(k, c) => \E p \in 1..Len(b) : FilesAt(b, c) = {p}
         /\ kind \notin Turns => \A c : MovesAt(b, c) = {}
         /\ kind \in Turns => \A c \in Chans : c # win => FilesAt(b, c) = {} /\ MovesAt(b, c) = {} /\ ~Projected(k, c)
         /\ kind \in Turns /\ k # <<>> => MovesAt(b, win) = {1}
         /\ kind = "selfjoin" => FilesAt(b, win) = {1} /\ Projected(k, win)
         /\ kind \in Directs => Waiting(b) = {m} /\ Len(b) = 1 /\ b[1].wins = {Direct}
         /\ kind \notin Directs => Waiting(b) = {} /\ \A i \in 1..Len(b) : b[i].wins \subseteq Chans
<1>. DEFINE b == Items(k, m)
<1>1. /\ b \in Seq(Deliveries) /\ Len(b) = Len(k)
      /\ \A i \in 1..Len(k) : /\ b[i].kind = k[i].kind /\ b[i].wins = k[i].wins
                              /\ b[i].ids = k[i].ids /\ b[i].id = m
  BY ItemsAre
<1>. HIDE DEF b
<1>2. /\ Len(k) \in Nat /\ DOMAIN k = 1..Len(k) /\ \A i \in 1..Len(k) : k[i] \in Routed
  BY LenProperties, ElementOfSeq
<1>3. \A i \in 1..Len(k) : k[i].kind \in Kinds /\ k[i].kind \notin Signs
  BY <1>2, RouteFits
<1>4. Apart(k)
  BY DEF RoutesRight
<1>5. InOrder(b)
  <2>1. SUFFICES ASSUME NEW i \in 1..Len(b), NEW j \in 1..Len(b), i < j PROVE b[i].wins \cap b[j].wins = {}
    BY DEF InOrder
  <2>2. i # j
    BY <1>1, <1>2, <2>1
  <2>. QED BY <1>1, <1>4, <2>2 DEF Apart
<1>6. ASSUME NEW c \in Chans, NEW i \in 1..Len(b) PROVE i \in FilesAt(b, c) <=> c \in k[i].ids
  <2>1. i \in FilesAt(b, c) => c \in k[i].ids
    BY <1>1, FilesFit
  <2>2. ASSUME c \in k[i].ids PROVE i \in FilesAt(b, c)
    <3>1. k[i].kind \in Rows /\ c \in k[i].wins
      BY <1>1, <1>2, <2>2, RouteFits
    <3>2. Files(b[i], c)
      BY <1>1, <3>1 DEF Files, Rows
    <3>. QED BY <3>2 DEF FilesAt
  <2>. QED BY <2>1, <2>2
<1>7. ASSUME NEW c \in Chans, ~Projected(k, c) PROVE FilesAt(b, c) = {}
  <2>1. \A i \in 1..Len(k) : c \notin k[i].ids
    BY <1>2, <1>7 DEF Projected
  <2>. QED BY <1>1, <1>6, <2>1 DEF FilesAt
<1>8. ASSUME NEW c \in Chans, Projected(k, c) PROVE \E p \in 1..Len(b) : FilesAt(b, c) = {p}
  <2>1. PICK p \in 1..Len(b) : c \in k[p].ids
    BY <1>1, <1>2, <1>8 DEF Projected
  <2>2. ASSUME NEW i \in FilesAt(b, c) PROVE i = p
    <3>1. i \in 1..Len(b) /\ c \in k[i].ids
      BY <1>6, <2>2 DEF FilesAt
    <3>2. c \in k[i].wins /\ c \in k[p].wins
      BY <1>1, <1>2, <2>1, <3>1, RouteFits
    <3>. QED BY <1>1, <1>4, <2>1, <3>1, <3>2 DEF Apart
  <2>3. p \in FilesAt(b, c)
    BY <1>6, <2>1
  <2>4. FilesAt(b, c) = {p}
    BY <2>2, <2>3
  <2>. QED BY <2>4
<1>9. ASSUME kind \notin Turns, NEW c PROVE MovesAt(b, c) = {}
  <2>1. \A i \in 1..Len(k) : k[i].kind \notin Turns
    BY <1>9 DEF RoutesRight
  <2>. QED BY <1>1, <2>1 DEF MovesAt, Moves, Turns, Departs
<1>10. ASSUME kind \in Turns, NEW c \in Chans, c # win
       PROVE  FilesAt(b, c) = {} /\ MovesAt(b, c) = {} /\ ~Projected(k, c)
  <2>1. \A i \in 1..Len(k) : k[i].wins = {win}
    BY <1>10 DEF RoutesRight
  <2>2. \A i \in 1..Len(b) : c \notin b[i].wins
    BY <1>1, <1>10, <2>1
  <2>3. FilesAt(b, c) = {} /\ MovesAt(b, c) = {}
    BY <2>2 DEF FilesAt, MovesAt, Files, Moves
  <2>4. ~Projected(k, c)
    BY <1>1, <1>6, <1>2, <2>3 DEF Projected
  <2>. QED BY <2>3, <2>4
<1>11. ASSUME kind \in Turns, k # <<>>
       PROVE  Len(k) = 1 /\ 1 \in 1..Len(k) /\ k[1].kind = kind /\ k[1].wins = {win} /\ MovesAt(b, win) = {1}
  <2>1. Len(k) = 1
    <3>1. Len(k) <= 1
      BY <1>11 DEF RoutesRight
    <3>2. Len(k) # 0
      BY <1>11, EmptySeq
    <3>. QED BY <1>2, <3>1, <3>2
  <2>2. 1 \in 1..Len(k)
    BY <2>1
  <2>3. k[1].kind = kind /\ k[1].wins = {win}
    BY <1>11, <2>2 DEF RoutesRight
  <2>4. Moves(b[1], win)
    BY <1>1, <1>11, <2>2, <2>3 DEF Moves, Turns, Departs
  <2>5. \A i \in 1..Len(b) : i = 1
    BY <1>1, <2>1
  <2>. QED BY <1>1, <2>1, <2>2, <2>3, <2>4, <2>5 DEF MovesAt
<1>12. ASSUME kind = "selfjoin" PROVE FilesAt(b, win) = {1} /\ Projected(k, win)
  <2>1. kind \in Turns /\ k # <<>> /\ win \in Chans
    <3>1. kind \in Turns
      BY <1>12 DEF Turns
    <3>2. Len(k) = 1 /\ win \in Chans
      BY <1>12, <3>1 DEF RoutesRight
    <3>. QED BY <3>1, <3>2
  <2>2. Len(k) = 1 /\ 1 \in 1..Len(k) /\ k[1].kind = "selfjoin" /\ k[1].wins = {win}
    BY <1>11, <1>12, <2>1
  <2>3. win \in k[1].ids
    <3>1. k[1] \in Routed /\ k[1].kind \in Rows
      BY <1>2, <2>2 DEF Rows
    <3>. QED BY <2>2, <3>1, RouteFits
  <2>4. 1 \in FilesAt(b, win)
    BY <1>1, <1>6, <2>1, <2>2, <2>3
  <2>5. \A i \in FilesAt(b, win) : i = 1
    BY <1>1, <2>2 DEF FilesAt
  <2>6. Projected(k, win)
    BY <1>2, <2>2, <2>3 DEF Projected
  <2>. QED BY <2>4, <2>5, <2>6
<1>13. ASSUME kind \in Directs PROVE Waiting(b) = {m} /\ Len(b) = 1 /\ b[1].wins = {Direct}
  <2>1. Len(k) = 1
    BY <1>13 DEF RoutesRight
  <2>2. 1 \in 1..Len(k) /\ \A i \in 1..Len(b) : i = 1
    BY <1>1, <2>1
  <2>3. k[1].kind \in Directs
    BY <1>13, <2>2 DEF RoutesRight
  <2>4. b[1].kind \in Directs /\ b[1].id = m /\ 1 \in 1..Len(b)
    BY <1>1, <2>2, <2>3
  <2>5. Waiting(b) = {m}
    BY <2>2, <2>4 DEF Waiting, DirectAt
  <2>6. b[1].wins = {Direct}
    BY <1>1, <1>2, <2>2, <2>3, RouteFits
  <2>. QED BY <1>1, <2>1, <2>5, <2>6
<1>14. ASSUME kind \notin Directs PROVE Waiting(b) = {} /\ \A i \in 1..Len(b) : b[i].wins \subseteq Chans
  <2>1. \A i \in 1..Len(k) : k[i].kind \notin Directs
    BY <1>14 DEF RoutesRight
  <2>2. Waiting(b) = {}
    BY <1>1, <2>1, NoneWaiting
  <2>3. \A i \in 1..Len(k) : k[i].wins \subseteq Chans
    BY <1>2, <2>1, RouteFits
  <2>. QED BY <1>1, <2>2, <2>3
<1>15. \A i \in 1..Len(b) : /\ b[i].id = m /\ b[i].kind = k[i].kind /\ b[i].kind \notin Signs
                            /\ b[i].wins = k[i].wins /\ b[i].ids = k[i].ids
  BY <1>1, <1>3
<1>. QED BY <1>1, <1>5, <1>7, <1>8, <1>9, <1>10, <1>11, <1>12, <1>13, <1>14, <1>15 DEF b
---------------------------------------------------------------------------
(* A commit, and the queueing of what was committed. *)

\* What is queued takes the newest number, and nothing of its windows has it yet.
LEMMA NumberingGrows ==
  ASSUME Numbering, Types, n' \in Numbers, n <= n', NEW b \in Seq(Deliveries), Coming \in Seq(Deliveries), Coming' = Coming \o b,
         InOrder(b), \A i \in 1..Len(b) : b[i].id = n',
         \A i \in 1..Len(Coming), j \in 1..Len(b) :
            Coming[i].id # 0 /\ Coming[i].wins \cap b[j].wins # {} => Coming[i].id < n',
         UNCHANGED ranges,
         \A c \in Chans, j \in 1..Len(b) : c \in b[j].ids => ranges[c][2] < n',
         \A c \in Chans : Rising(scrollback'[c]) /\ \A x \in Range(scrollback'[c]) : x <= n',
         \A c \in Spared' : Fresh(c)'
  PROVE  Numbering'
<1>. DEFINE a == Coming
            q == Coming'
            m == n'
<1>1. m \in Nat /\ n \in Nat
  BY DEF Numbers, Types
<1>2. /\ \A i \in 1..Len(a) : q[i] = a[i]
      /\ \A i \in 1..Len(b) : q[i + Len(a)] = b[i]
      /\ \A i \in 1..Len(q) : i \in 1..Len(a) \/ \E j \in 1..Len(b) : i = j + Len(a)
  BY ComingGrows
<1>3. InOrder(q)
  BY InOrderGrows DEF Numbering
<1>4. \A i \in 1..Len(a) : a[i].id \in Nat /\ a[i].id <= n
  BY ElementOfSeq DEF Numbering, Deliveries
<1>5. \A c \in Chans : ranges[c][2] \in Nat /\ ranges[c][2] <= n
  BY DEF Numbering, Types
<1>6. \A i \in 1..Len(a), c \in Chans : c \in a[i].ids => ranges[c][2] < a[i].id
  BY DEF Numbering
<1>. HIDE DEF a, q, m
<1>7. \A i \in 1..Len(q) : q[i].id <= m
  <2>1. SUFFICES ASSUME NEW i \in 1..Len(q) PROVE q[i].id <= m
    OBVIOUS
  <2>2. CASE i \in 1..Len(a)
    BY <1>1, <1>2, <1>4, <2>2 DEF m
  <2>3. ASSUME NEW j \in 1..Len(b), i = j + Len(a) PROVE q[i].id <= m
    BY <1>1, <1>2, <2>3 DEF m
  <2>. QED BY <1>2, <2>2, <2>3
<1>8. ASSUME NEW c \in Chans, NEW i \in 1..Len(q), c \in q[i].ids PROVE ranges[c][2] < q[i].id
  <2>1. CASE i \in 1..Len(a)
    BY <1>2, <1>6, <1>8, <2>1
  <2>2. ASSUME NEW j \in 1..Len(b), i = j + Len(a) PROVE ranges[c][2] < q[i].id
    BY <1>2, <1>8, <2>2
  <2>. QED BY <1>2, <2>1, <2>2
<1>9. ASSUME NEW c \in Chans PROVE ranges[c][2] <= m
  BY <1>1, <1>5 DEF m
<1>. QED BY <1>3, <1>7, <1>8, <1>9 DEF Numbering, q, m

\* A row of a number that is new to the channel.
LEMMA RowsGrow ==
  ASSUME NEW r \in Seq(Numbers), NEW m \in Numbers, Rising(r), \A x \in Range(r) : x < m
  PROVE  /\ Append(r, m) \in Seq(Numbers) /\ Rising(Append(r, m))
         /\ \A x \in Range(Append(r, m)) : x <= m
<1>1. m \in Nat /\ \A x \in Range(r) : x \in Nat /\ x < m
  BY RangeIs DEF Numbers
<1>. QED BY <1>1, OneMoreRow

\* Deliveries that move nobody leave announced turns in their stays.
LEMMA DispatchingGrows ==
  ASSUME Dispatching, NEW b \in Seq(Deliveries), Coming \in Seq(Deliveries), Coming' = Coming \o b,
         \A i \in 1..Len(b) : b[i].kind \notin Signs,
         \A i \in 1..Len(Coming) : link' = "on" /\ ~untold' /\ InItsStay(Coming, i)
                                     => \A c \in disp.wins \cap Chans : epoch'[c] - MovesFrom(Coming', c, i) = disp.auth[c],
         link' = "on" /\ ~untold' => link = "on" /\ ~untold,
         UNCHANGED disp
  PROVE  Dispatching'
<1>1. SUFFICES ASSUME NEW i \in 1..Len(Coming'), Coming'[i].kind = "started"
               PROVE  /\ disp'.pc \in {"turn", "relock", "done"} /\ Coming'[i].wins = disp'.wins
                      /\ link' = "on" /\ ~untold' => InItsStay(Coming, i)'
  BY DEF Dispatching
<1>2. /\ \A j \in 1..Len(Coming) : Coming'[j] = Coming[j]
      /\ \A j \in 1..Len(b) : Coming'[j + Len(Coming)] = b[j]
      /\ i \in 1..Len(Coming) \/ \E j \in 1..Len(b) : i = j + Len(Coming)
  BY ComingGrows
<1>3. i \in 1..Len(Coming)
  BY <1>1, <1>2 DEF Signs
<1>4. Coming[i].kind = "started"
  BY <1>1, <1>2, <1>3
<1>5. /\ disp.pc \in {"turn", "relock", "done"} /\ Coming[i].wins = disp.wins
      /\ link = "on" /\ ~untold => InItsStay(Coming, i)
  BY <1>3, <1>4 DEF Dispatching
<1>6. ASSUME link' = "on" /\ ~untold' PROVE InItsStay(Coming, i)'
  <2>1. \A c \in disp.wins \cap Chans : epoch'[c] - MovesFrom(Coming', c, i) = disp.auth[c]
    BY <1>3, <1>5, <1>6
  <2>. QED BY <2>1 DEF InItsStay
<1>. QED BY <1>2, <1>3, <1>5, <1>6

\* The moves in a queue are counted.
LEMMA MovesFromType ==
  ASSUME NEW q \in Seq(Deliveries), NEW c, NEW i \in 1..Len(q)
  PROVE  MovesFrom(q, c, i) \in Nat
<1>1. Len(q) \in Nat
  BY LenProperties
<1>2. IsFiniteSet(i..Len(q))
  BY <1>1, FS_Interval
<1>3. IsFiniteSet({j \in i..Len(q) : Moves(q[j], c)})
  BY <1>2, FS_Subset
<1>. QED BY <1>3, FS_CardinalityType DEF MovesFrom

\* The loop goes on to queue what is authorised of its plan.
LEMMA GoesOnIs ==
  ASSUME Core, Inv, loop.pc = "commit",
         loop' = [loop EXCEPT !.pc = "queue", !.routes = Those(loop.routes, Authorised)],
         UNCHANGED outbox
  PROVE  /\ loop' \in LoopTypes /\ loop'.pc = "queue" /\ loop'.kind = loop.kind /\ loop'.win = loop.win
         /\ loop'.routes = Those(loop.routes, Authorised) /\ loop'.need = loop.need
         /\ loop'.routes \in Seq(Routed) /\ RoutesRight(loop.kind, loop.win, loop'.routes)
         /\ NeedsM' => NeedsM
         /\ loop'.routes # <<>> => link = "on"
         /\ loop'.routes # <<>> \/ loop.kind \in Turns => load.pc # "read"
         /\ Coming = outbox /\ Coming \in Seq(Deliveries)
         /\ Coming' = Coming \o Items(loop'.routes, n')
<1>. DEFINE k == Those(loop.routes, Authorised)
<1>0. Types /\ PlanRight /\ Held
  BY DEF Core
<1>1. loop \in LoopTypes /\ loop.routes \in Seq(Routed) /\ RoutesRight(loop.kind, loop.win, loop.routes)
  BY <1>0 DEF Types, LoopTypes, PlanRight
<1>2. k \in Seq(Routed) /\ RoutesRight(loop.kind, loop.win, k) /\ (k # <<>> => loop.routes # <<>>)
  BY <1>0, <1>1, AuthorisedRight
<1>3. loop' = [loop EXCEPT !.pc = "queue", !.routes = k]
  OBVIOUS
<1>. HIDE DEF k
<1>4. /\ loop' \in LoopTypes /\ loop'.pc = "queue" /\ loop'.kind = loop.kind /\ loop'.win = loop.win
      /\ loop'.routes = k /\ loop'.need = loop.need
  BY <1>1, <1>2, <1>3 DEF LoopTypes
<1>5. NeedsM' => NeedsM
  BY <1>2, <1>4 DEF NeedsM
<1>6. k # <<>> => link = "on"
  BY <1>0, <1>2 DEF RoutesRight, Types
<1>7. k # <<>> \/ loop.kind \in Turns => load.pc # "read"
  <2>1. k # <<>> \/ loop.kind \in Turns => locks["m"] = "loop"
    BY <1>0, <1>2, LockIsHeld DEF NeedsM
  <2>. QED BY <1>0, <2>1, LockIsHeld
<1>8. Coming = outbox /\ Coming \in Seq(Deliveries)
  BY <1>0, ComingIs
<1>9. Coming' = Coming \o Items(k, n')
  BY <1>4, <1>8 DEF Coming, Pending
<1>. QED BY <1>2, <1>4, <1>5, <1>6, <1>7, <1>8, <1>9 DEF k

\* A step that projects its plan's rows, of a kind that moves nobody.
LEMMA ChannelsGrow ==
  ASSUME Core, ChannelsRight, NEW b \in Seq(Deliveries), NEW k, NEW m \in Numbers,
         Coming \in Seq(Deliveries), Coming' = Coming \o b,
         \A i \in 1..Len(b) : b[i].id = m,
         \A c \in Chans : ~Projected(k, c) => FilesAt(b, c) = {},
         \A c \in Chans : Projected(k, c) => \E p \in 1..Len(b) : FilesAt(b, c) = {p},
         \A c : MovesAt(b, c) = {},
         \A c \in Chans : scrollback'[c] = IF Projected(k, c) THEN Append(scrollback[c], m) ELSE scrollback[c],
         \A c \in Chans : Projected(k, c) => load.pc # "read" /\ \A x \in Range(scrollback[c]) : x < m,
         UNCHANGED <<link, inM, load, hist>>
  PROVE  ChannelsRight'
<1>1. SUFFICES ASSUME link = "on", NEW c \in inM PROVE ChannelRight(c)'
  BY DEF ChannelsRight
<1>2. c \in Chans /\ ChannelRight(c) /\ scrollback[c] \in Seq(Numbers) /\ Rising(scrollback[c])
  BY <1>1 DEF ChannelsRight, Core, Types, Numbering
<1>3. CASE ~Projected(k, c)
  <2>1. FilesAt(b, c) = {} /\ MovesAt(b, c) = {} /\ scrollback'[c] = scrollback[c]
    BY <1>2, <1>3
  <2>. QED BY <1>2, <2>1, ChannelBeside
<1>4. CASE Projected(k, c)
  <2>1. PICK p \in 1..Len(b) : FilesAt(b, c) = {p}
    BY <1>2, <1>4
  <2>2. /\ MovesAt(b, c) = {} /\ b[p].id = m /\ scrollback'[c] = Append(scrollback[c], m)
        /\ load.pc # "read" /\ \A x \in Range(scrollback[c]) : x < m
    BY <1>2, <1>4
  <2>. QED BY <1>2, <2>1, <2>2, ChannelRow
<1>. QED BY <1>3, <1>4

\* A forced QUIT's rows are appended under the lock, before its deliveries are queued.
LEMMA LateAppendRight == ASSUME Core, Inv, LateAppend PROVE Core'
<1>. DEFINE k == Those(loop.routes, Authorised)
            b == Items(k, n)
<1>0. Types /\ PlanRight /\ Held /\ Numbering /\ Attached /\ DirectRight /\ ChannelsRight /\ Dispatching
  BY DEF Core
<1>1. /\ loop.pc = "commit" /\ loop.kind \in {"latequit", "lateparts"}
      /\ loop' = [loop EXCEPT !.pc = "queue", !.routes = k]
      /\ scrollback' = [c \in Chans |-> IF Projected(k, c) THEN Append(scrollback[c], n) ELSE scrollback[c]]
      /\ UNCHANGED <<anon, n, inM, dms, link, blocked, outbox, ranges, epoch, liveFrom, load, hist, unseeded, untold, disp, dmMu, locks>>
  BY DEF LateAppend, AppendScrollback, events, members, queue, client, mutexes
<1>2. /\ loop' \in LoopTypes /\ loop'.pc = "queue" /\ loop'.kind = loop.kind /\ loop'.win = loop.win
      /\ loop'.routes = k /\ loop'.need = loop.need
      /\ k \in Seq(Routed) /\ RoutesRight(loop.kind, loop.win, k)
      /\ NeedsM' => NeedsM
      /\ k # <<>> => link = "on"
      /\ k # <<>> => load.pc # "read"
      /\ Coming = outbox /\ Coming \in Seq(Deliveries)
      /\ Coming' = Coming \o b
  BY <1>1, GoesOnIs
<1>3. n \in Numbers /\ n \in Nat /\ scrollback \in [Chans -> Seq(Numbers)] /\ anon \in SUBSET Chans
  BY <1>0 DEF Types, Numbers
<1>4. loop.kind \notin Turns \cup Directs
  BY <1>1 DEF Turns, Departs, Directs
<1>. HIDE DEF k
<1>5. /\ b \in Seq(Deliveries) /\ Len(b) = Len(k) /\ InOrder(b)
      /\ \A i \in 1..Len(b) : /\ b[i].id = n /\ b[i].kind \notin Signs
                              /\ b[i].wins = k[i].wins /\ b[i].ids = k[i].ids
      /\ \A c \in Chans : ~Projected(k, c) => FilesAt(b, c) = {}
      /\ \A c \in Chans : Projected(k, c) => \E p \in 1..Len(b) : FilesAt(b, c) = {p}
      /\ \A c : MovesAt(b, c) = {}
      /\ \A i \in 1..Len(b) : b[i].wins \subseteq Chans
  <2>1. k \in Seq(Routed) /\ RoutesRight(loop.kind, loop.win, k) /\ n \in Numbers
    BY <1>2, <1>3
  <2>2. loop.kind \notin Turns /\ loop.kind \notin Directs
    BY <1>4
  <2>3. /\ b \in Seq(Deliveries) /\ Len(b) = Len(k) /\ InOrder(b)
        /\ \A i \in 1..Len(b) : /\ b[i].id = n /\ b[i].kind = k[i].kind /\ b[i].kind \notin Signs
                                /\ b[i].wins = k[i].wins /\ b[i].ids = k[i].ids
        /\ \A c \in Chans : ~Projected(k, c) => FilesAt(b, c) = {}
        /\ \A c \in Chans : Projected(k, c) => \E p \in 1..Len(b) : FilesAt(b, c) = {p}
    BY <2>1, QueuedIs
  <2>4. \A c : MovesAt(b, c) = {}
    BY <2>1, <2>2, QueuedIs
  <2>5. \A i \in 1..Len(b) : b[i].wins \subseteq Chans
    BY <2>1, <2>2, QueuedIs
  <2>. QED BY <2>3, <2>4, <2>5
<1>. HIDE DEF b
\* The windows of the late rows have nothing of this number.
<1>6. \A i \in 1..Len(b) : \A c \in b[i].wins : c \in Spared
  <2>1. CASE loop.kind = "latequit"
    BY <1>1, <1>5, <2>1 DEF Spared
  <2>2. CASE loop.kind = "lateparts"
    <3>1. \A i \in 1..Len(k) : k[i].wins \subseteq anon
      BY <1>2, <2>2 DEF RoutesRight
    <3>2. Spared = anon
      BY <1>1, <2>2 DEF Spared
    <3>. QED BY <1>5, <3>1, <3>2
  <2>. QED BY <1>1, <2>1, <2>2
<1>7. \A c \in Chans : Projected(k, c) => c \in Spared /\ k # <<>>
  <2>1. SUFFICES ASSUME NEW c \in Chans, Projected(k, c) PROVE c \in Spared /\ k # <<>>
    OBVIOUS
  <2>2. PICK p \in 1..Len(b) : FilesAt(b, c) = {p}
    BY <1>5, <2>1
  <2>3. p \in FilesAt(b, c)
    BY <2>2
  <2>4. c \in b[p].wins
    BY <1>5, <2>3, FilesFit
  <2>5. k # <<>>
    BY <2>1, <1>2, LenProperties, EmptySeq DEF Projected
  <2>. QED BY <1>6, <2>4, <2>5
<1>8. \A c \in Spared : c \in Chans /\ Fresh(c)
  BY <1>0, <1>3 DEF Spared, Numbering
<1>9. \A c \in Chans : /\ scrollback'[c] = IF Projected(k, c) THEN Append(scrollback[c], n) ELSE scrollback[c]
                       /\ scrollback[c] \in Seq(Numbers) /\ Rising(scrollback[c]) /\ \A x \in Range(scrollback[c]) : x <= n
                       /\ Projected(k, c) => \A x \in Range(scrollback[c]) : x < n
  BY <1>0, <1>1, <1>3, <1>7, <1>8 DEF Numbering, Fresh
<1>10. \A c \in Chans : scrollback'[c] \in Seq(Numbers) /\ Rising(scrollback'[c]) /\ \A x \in Range(scrollback'[c]) : x <= n
  <2>1. SUFFICES ASSUME NEW c \in Chans
                 PROVE  scrollback'[c] \in Seq(Numbers) /\ Rising(scrollback'[c]) /\ \A x \in Range(scrollback'[c]) : x <= n
    OBVIOUS
  <2>2. CASE Projected(k, c)
    <3>1. scrollback'[c] = Append(scrollback[c], n) /\ \A x \in Range(scrollback[c]) : x < n
      BY <1>9, <2>2
    <3>. QED BY <1>3, <1>9, <3>1, RowsGrow
  <2>3. CASE ~Projected(k, c)
    BY <1>9, <2>3
  <2>. QED BY <2>2, <2>3
<1>11. Types'
  <2>1. scrollback' \in [Chans -> Seq(Numbers)]
    BY <1>1, <1>10
  <2>. QED BY <1>0, <1>1, <1>2, <2>1 DEF Types, Seeded
<1>12. PlanRight'
  <2>1. RoutesRight(loop.kind, loop.win, loop.routes)'
    BY <1>1, <1>2 DEF RoutesRight
  <2>. QED BY <1>0, <1>1, <1>2, <2>1 DEF PlanRight
<1>13. Held'
  BY <1>0, <1>1, <1>2 DEF Held
<1>14. Numbering'
  <2>1. ASSUME NEW i \in 1..Len(Coming), NEW j \in 1..Len(b), Coming[i].wins \cap b[j].wins # {}
        PROVE  Coming[i].id < n
    <3>1. PICK c \in b[j].wins : c \in Coming[i].wins
      BY <2>1
    <3>2. c \in Spared
      BY <1>6, <3>1
    <3>. QED BY <1>8, <3>1, <3>2 DEF Fresh
  <2>2. ASSUME NEW c \in Chans, NEW j \in 1..Len(b), c \in b[j].ids PROVE ranges[c][2] < n
    <3>1. Projected(k, c)
      BY <1>2, <1>5, <2>2, LenProperties DEF Projected
    <3>. QED BY <1>7, <1>8, <3>1 DEF Fresh
  <2>3. ASSUME NEW c \in Spared' PROVE Fresh(c)'
    <3>1. loop.kind = "latequit" /\ c \in anon /\ c \in Spared
      BY <1>1, <1>2, <1>3, <2>3 DEF Spared
    <3>2. \A i \in 1..Len(b) : c \notin b[i].wins
      BY <1>2, <1>5, <3>1 DEF RoutesRight
    <3>3. ~Projected(k, c)
      <4>1. SUFFICES ASSUME Projected(k, c) PROVE FALSE
        OBVIOUS
      <4>2. PICK p \in 1..Len(b) : FilesAt(b, c) = {p}
        BY <1>3, <1>5, <3>1, <4>1
      <4>3. p \in FilesAt(b, c)
        BY <4>2
      <4>. QED BY <1>3, <1>5, <3>1, <3>2, <4>3, FilesFit
    <3>4. scrollback'[c] = scrollback[c]
      BY <1>3, <1>9, <3>1, <3>3
    <3>5. \A i \in 1..Len(Coming') : c \in Coming'[i].wins => Coming'[i].id < n
      <4>1. /\ \A j \in 1..Len(Coming) : Coming'[j] = Coming[j]
            /\ \A j \in 1..Len(b) : Coming'[j + Len(Coming)] = b[j]
            /\ \A i \in 1..Len(Coming') : i \in 1..Len(Coming) \/ \E j \in 1..Len(b) : i = j + Len(Coming)
        BY <1>2, <1>5, ComingGrows
      <4>2. \A i \in 1..Len(Coming) : c \in Coming[i].wins => Coming[i].id < n
        BY <1>8, <3>1 DEF Fresh
      <4>3. SUFFICES ASSUME NEW i \in 1..Len(Coming'), c \in Coming'[i].wins PROVE Coming'[i].id < n
        OBVIOUS
      <4>4. CASE i \in 1..Len(Coming)
        BY <4>1, <4>2, <4>3, <4>4
      <4>5. ~ \E j \in 1..Len(b) : i = j + Len(Coming)
        BY <3>2, <4>1, <4>3
      <4>. QED BY <4>1, <4>4, <4>5
    <3>. QED BY <1>1, <1>8, <3>1, <3>4, <3>5 DEF Fresh
  <2>4. n' \in Numbers /\ n <= n' /\ n' = n
    BY <1>1, <1>3
  <2>. QED BY <1>0, <1>1, <1>2, <1>5, <1>10, <2>1, <2>2, <2>3, <2>4, NumberingGrows
<1>15. Attached'
  BY <1>0, <1>1, AttachedLeft
<1>16. DirectRight'
  <2>1. Waiting(outbox)' = Waiting(outbox)
    BY <1>1
  <2>. QED BY <1>0, <1>1, <1>2, <1>3, <2>1, DirectLeft
<1>17. ChannelsRight'
  <2>1. \A c \in Chans : Projected(k, c) => load.pc # "read" /\ \A x \in Range(scrollback[c]) : x < n
    BY <1>2, <1>7, <1>9
  <2>2. \A i \in 1..Len(b) : b[i].id = n
    BY <1>5
  <2>3. \A c \in Chans : scrollback'[c] = IF Projected(k, c) THEN Append(scrollback[c], n) ELSE scrollback[c]
    BY <1>9
  <2>. QED BY <1>0, <1>1, <1>2, <1>3, <1>5, <2>1, <2>2, <2>3, ChannelsGrow
<1>18. Dispatching'
  <2>1. ASSUME NEW i \in 1..Len(Coming), InItsStay(Coming, i)
        PROVE  \A c \in disp.wins \cap Chans : epoch'[c] - MovesFrom(Coming', c, i) = disp.auth[c]
    <3>1. \A c : MovesFrom(Coming', c, i) = MovesFrom(Coming, c, i)
      BY <1>2, <1>5, MovesFromEarlier
    <3>. QED BY <1>1, <2>1, <3>1 DEF InItsStay
  <2>2. \A i \in 1..Len(b) : b[i].kind \notin Signs
    BY <1>5
  <2>. QED BY <1>0, <1>1, <1>2, <1>5, <2>1, <2>2, DispatchingGrows
<1>. QED BY <1>11, <1>12, <1>13, <1>14, <1>15, <1>16, <1>17, <1>18 DEF Core

\* A command that moves nobody commits.
LEMMA CommitStaysRight == ASSUME Core, Inv, Commit, loop.kind \notin Turns PROVE Core'
<1>. DEFINE k == Those(loop.routes, Authorised)
            b == Items(k, n')
<1>0. Types /\ PlanRight /\ Held /\ Numbering /\ Attached /\ DirectRight /\ ChannelsRight /\ Dispatching
  BY DEF Core
<1>1. /\ loop.pc = "commit" /\ loop.kind \notin {"latequit", "lateparts"}
      /\ loop' = [loop EXCEPT !.pc = "queue", !.routes = k]
      /\ n' = IF loop.kind \in Directs THEN n ELSE n + 1
      /\ Committed(k)
      /\ untold' = (untold \/ (loop.kind = "kick" /\ k = <<>> /\ link = "on"))
      /\ UNCHANGED <<anon, dms, link, blocked, outbox, ranges, liveFrom, load, hist, unseeded, disp, dmMu, locks>>
  BY DEF Commit, client, mutexes, Directs
<1>2. /\ loop' \in LoopTypes /\ loop'.pc = "queue" /\ loop'.kind = loop.kind /\ loop'.win = loop.win
      /\ loop'.routes = k /\ loop'.need = loop.need
      /\ k \in Seq(Routed) /\ RoutesRight(loop.kind, loop.win, k)
      /\ NeedsM' => NeedsM
      /\ k # <<>> => link = "on"
      /\ k # <<>> => load.pc # "read"
      /\ Coming = outbox /\ Coming \in Seq(Deliveries)
      /\ Coming' = Coming \o b
  BY <1>1, GoesOnIs
<1>3. n \in Numbers /\ n \in Nat /\ scrollback \in [Chans -> Seq(Numbers)] /\ untold \in BOOLEAN
  BY <1>0 DEF Types, Numbers
<1>4. n' \in Numbers /\ n' \in Nat /\ n <= n' /\ (loop.kind \notin Directs => n < n')
  BY <1>1, <1>3 DEF Numbers
<1>. HIDE DEF k
<1>5. /\ scrollback' = [c \in Chans |-> IF Projected(k, c) THEN Append(scrollback[c], n') ELSE scrollback[c]]
      /\ UNCHANGED <<epoch, inM>> /\ (untold' <=> untold)
  <2>1. loop.kind \notin {"part", "kick", "selfjoin"}
    BY DEF Turns, Departs
  <2>2. scrollback' = WithRows(scrollback, k) /\ UNCHANGED <<epoch, inM>>
    BY <1>1, <2>1 DEF Committed
  <2>3. untold' <=> untold
    BY <1>1, <2>1
  <2>. QED BY <2>2, <2>3 DEF WithRows
<1>6. /\ b \in Seq(Deliveries) /\ Len(b) = Len(k) /\ InOrder(b)
      /\ \A i \in 1..Len(b) : /\ b[i].id = n' /\ b[i].kind = k[i].kind /\ b[i].kind \notin Signs
                              /\ b[i].wins = k[i].wins /\ b[i].ids = k[i].ids
      /\ \A c \in Chans : ~Projected(k, c) => FilesAt(b, c) = {}
      /\ \A c \in Chans : Projected(k, c) => \E p \in 1..Len(b) : FilesAt(b, c) = {p}
  <2>1. k \in Seq(Routed) /\ RoutesRight(loop.kind, loop.win, k) /\ n' \in Numbers
    BY <1>2, <1>4
  <2>. QED BY <2>1, QueuedIs
<1>7. \A c : MovesAt(b, c) = {}
  <2>1. k \in Seq(Routed) /\ RoutesRight(loop.kind, loop.win, k) /\ n' \in Numbers
    BY <1>2, <1>4
  <2>. QED BY <2>1, QueuedIs
<1>8. loop.kind \in Directs => link = "on" /\ b[1].wins = {Direct} /\ Len(b) = 1
  <2>1. k \in Seq(Routed) /\ RoutesRight(loop.kind, loop.win, k) /\ n' \in Numbers
    BY <1>2, <1>4
  <2>2. loop.kind \in Directs => b[1].wins = {Direct} /\ Len(b) = 1
    BY <2>1, QueuedIs
  <2>3. loop.kind \in Directs => link = "on"
    BY <2>1 DEF RoutesRight
  <2>. QED BY <2>2, <2>3
<1>. HIDE DEF b
<1>9. \A c \in Chans : Projected(k, c) => loop.kind \notin Directs /\ k # <<>>
  <2>1. SUFFICES ASSUME NEW c \in Chans, Projected(k, c) PROVE loop.kind \notin Directs /\ k # <<>>
    OBVIOUS
  <2>2. PICK p \in 1..Len(b) : FilesAt(b, c) = {p}
    BY <1>6, <2>1
  <2>3. c \in b[p].wins
    BY <1>6, <2>2, FilesFit
  <2>4. loop.kind \notin Directs
    <3>1. SUFFICES ASSUME loop.kind \in Directs PROVE FALSE
      OBVIOUS
    <3>2. p \in 1..1
      BY <1>8, <3>1
    <3>3. p = 1
      BY <3>2
    <3>. QED BY <1>8, <2>3, <3>1, <3>3, ReplayAssumption DEF Direct
  <2>5. k # <<>>
    BY <2>1, <1>2, LenProperties, EmptySeq DEF Projected
  <2>. QED BY <2>4, <2>5
\* What has the number already is of other windows.
<1>10. ASSUME NEW i \in 1..Len(Coming), NEW j \in 1..Len(b), Coming[i].id # 0, Coming[i].wins \cap b[j].wins # {}
       PROVE  Coming[i].id < n'
  <2>1. Coming[i] \in Deliveries /\ Coming[i].id \in Nat /\ Coming[i].id <= n
    <3>1. Coming[i] \in Deliveries
      BY <1>2, ElementOfSeq
    <3>. QED BY <1>0, <3>1 DEF Numbering, Deliveries
  <2>2. CASE loop.kind \notin Directs
    BY <1>3, <1>4, <2>1, <2>2
  <2>3. CASE loop.kind \in Directs
    <3>1. Direct \in Coming[i].wins
      BY <1>8, <1>10, <2>3
    <3>2. Coming[i].kind \in Directs
      BY <1>10, <2>1, <3>1, ReplayAssumption DEF Deliveries, Fits, Kinds, Direct
    <3>3. Coming[i].id \in Waiting(outbox)
      BY <1>2, <3>2 DEF Waiting, DirectAt
    <3>4. Coming[i].id \in Told
      BY <1>0, <1>8, <2>3, <3>3 DEF DirectRight, Conversed
    <3>5. Coming[i].id # n
      BY <2>3, <3>4 DEF Told
    <3>. QED BY <1>3, <1>4, <2>1, <3>5
  <2>. QED BY <2>2, <2>3
<1>11. \A c \in Chans : /\ scrollback'[c] = IF Projected(k, c) THEN Append(scrollback[c], n') ELSE scrollback[c]
                        /\ scrollback[c] \in Seq(Numbers) /\ Rising(scrollback[c])
                        /\ \A x \in Range(scrollback[c]) : x \in Nat /\ x <= n
  <2>1. SUFFICES ASSUME NEW c \in Chans
                 PROVE  /\ scrollback'[c] = IF Projected(k, c) THEN Append(scrollback[c], n') ELSE scrollback[c]
                        /\ scrollback[c] \in Seq(Numbers) /\ Rising(scrollback[c])
                        /\ \A x \in Range(scrollback[c]) : x \in Nat /\ x <= n
    OBVIOUS
  <2>2. scrollback[c] \in Seq(Numbers) /\ Rising(scrollback[c]) /\ \A x \in Range(scrollback[c]) : x <= n
    BY <1>0, <1>3 DEF Numbering
  <2>3. \A x \in Range(scrollback[c]) : x \in Numbers
    BY <2>2, RangeIs
  <2>. QED BY <1>5, <2>2, <2>3 DEF Numbers
<1>12. \A c \in Chans : Projected(k, c) => /\ load.pc # "read" /\ n < n' /\ \A x \in Range(scrollback[c]) : x < n'
  <2>1. SUFFICES ASSUME NEW c \in Chans, Projected(k, c)
                 PROVE  load.pc # "read" /\ n < n' /\ \A x \in Range(scrollback[c]) : x < n'
    OBVIOUS
  <2>2. load.pc # "read" /\ n < n'
    BY <1>2, <1>4, <1>9, <2>1
  <2>. QED BY <1>3, <1>4, <1>11, <2>2
<1>13. \A c \in Chans : scrollback'[c] \in Seq(Numbers) /\ Rising(scrollback'[c]) /\ \A x \in Range(scrollback'[c]) : x <= n'
  <2>1. SUFFICES ASSUME NEW c \in Chans
                 PROVE  scrollback'[c] \in Seq(Numbers) /\ Rising(scrollback'[c]) /\ \A x \in Range(scrollback'[c]) : x <= n'
    OBVIOUS
  <2>2. CASE Projected(k, c)
    <3>1. scrollback'[c] = Append(scrollback[c], n') /\ \A x \in Range(scrollback[c]) : x < n'
      BY <1>11, <1>12, <2>2
    <3>2. scrollback[c] \in Seq(Numbers) /\ Rising(scrollback[c])
      BY <1>11
    <3>. QED BY <1>4, <3>1, <3>2, RowsGrow
  <2>3. CASE ~Projected(k, c)
    <3>1. scrollback'[c] = scrollback[c]
      BY <1>11, <2>3
    <3>. QED BY <1>3, <1>4, <1>11, <3>1
  <2>. QED BY <2>2, <2>3
<1>14. Types'
  <2>1. scrollback' \in [Chans -> Seq(Numbers)]
    BY <1>5, <1>13
  <2>2. untold' \in BOOLEAN
    BY <1>1, <1>3
  <2>. QED BY <1>0, <1>1, <1>2, <1>4, <1>5, <2>1, <2>2 DEF Types, Seeded
<1>15. PlanRight'
  <2>1. RoutesRight(loop.kind, loop.win, loop.routes)'
    BY <1>1, <1>2 DEF RoutesRight
  <2>2. k # <<>> => loop.routes # <<>>
    <3>1. loop.routes \in Seq(Routed) /\ RoutesRight(loop.kind, loop.win, loop.routes)
      BY <1>0 DEF Types, LoopTypes, PlanRight
    <3>. QED BY <1>0, <3>1, AuthorisedRight DEF k
  <2>. QED BY <1>0, <1>1, <1>2, <2>1, <2>2 DEF PlanRight
<1>16. Held'
  BY <1>0, <1>1, <1>2 DEF Held
<1>17. Numbering'
  <2>1. ASSUME NEW c \in Chans, NEW j \in 1..Len(b), c \in b[j].ids PROVE ranges[c][2] < n'
    <3>1. Projected(k, c)
      BY <1>2, <1>6, <2>1, LenProperties DEF Projected
    <3>2. ranges[c][2] \in Nat /\ ranges[c][2] <= n
      BY <1>0 DEF Types, Numbering
    <3>. QED BY <1>3, <1>4, <1>12, <3>1, <3>2
  <2>2. Spared' = {}
    BY <1>1, <1>2 DEF Spared
  <2>3. \A i \in 1..Len(b) : b[i].id = n'
    BY <1>6
  <2>. QED BY <1>0, <1>1, <1>2, <1>4, <1>6, <1>10, <1>13, <2>1, <2>2, <2>3, NumberingGrows
<1>18. Attached'
  BY <1>0, <1>1, AttachedLeft
<1>19. DirectRight'
  <2>1. Waiting(outbox)' = Waiting(outbox)
    BY <1>1
  <2>2. loop.kind \in Directs => n' = n
    BY <1>1
  <2>. QED BY <1>0, <1>1, <1>2, <1>4, <2>1, <2>2, DirectLeft
<1>20. ChannelsRight'
  <2>1. \A i \in 1..Len(b) : b[i].id = n'
    BY <1>6
  <2>2. \A c \in Chans : scrollback'[c] = IF Projected(k, c) THEN Append(scrollback[c], n') ELSE scrollback[c]
    BY <1>11
  <2>3. \A c \in Chans : Projected(k, c) => load.pc # "read" /\ \A x \in Range(scrollback[c]) : x < n'
    BY <1>12
  <2>4. UNCHANGED <<link, inM, load, hist>>
    BY <1>1, <1>5
  <2>. QED BY <1>0, <1>2, <1>4, <1>6, <1>7, <2>1, <2>2, <2>3, <2>4, ChannelsGrow
<1>21. Dispatching'
  <2>1. ASSUME NEW i \in 1..Len(Coming), InItsStay(Coming, i)
        PROVE  \A c \in disp.wins \cap Chans : epoch'[c] - MovesFrom(Coming', c, i) = disp.auth[c]
    <3>1. \A c : MovesFrom(Coming', c, i) = MovesFrom(Coming, c, i)
      BY <1>2, <1>6, <1>7, MovesFromEarlier
    <3>. QED BY <1>5, <2>1, <3>1 DEF InItsStay
  <2>2. \A i \in 1..Len(b) : b[i].kind \notin Signs
    BY <1>6
  <2>3. link' = "on" /\ ~untold' => link = "on" /\ ~untold
    BY <1>1, <1>5
  <2>. QED BY <1>0, <1>1, <1>2, <1>6, <2>1, <2>2, <2>3, DispatchingGrows
<1>. QED BY <1>14, <1>15, <1>16, <1>17, <1>18, <1>19, <1>20, <1>21 DEF Core

\* m parts, is kicked or joins: its membership and the rows of it change together.
LEMMA CommitTurnsRight == ASSUME Core, Inv, Commit, loop.kind \in Turns PROVE Core'
<1>. DEFINE k == Those(loop.routes, Authorised)
            b == Items(k, n')
            w == loop.win
<1>0. Types /\ PlanRight /\ Held /\ Numbering /\ Attached /\ DirectRight /\ ChannelsRight /\ Dispatching
  BY DEF Core
<1>1. /\ loop.pc = "commit" /\ loop.kind \notin {"latequit", "lateparts"} /\ loop.kind \notin Directs
      /\ loop' = [loop EXCEPT !.pc = "queue", !.routes = k]
      /\ n' = n + 1
      /\ Committed(k)
      /\ untold' = (untold \/ (loop.kind = "kick" /\ k = <<>> /\ link = "on"))
      /\ UNCHANGED <<anon, dms, link, blocked, outbox, ranges, liveFrom, load, hist, unseeded, disp, dmMu, locks>>
  BY DEF Commit, client, mutexes, Directs, Turns, Departs
<1>2. /\ loop' \in LoopTypes /\ loop'.pc = "queue" /\ loop'.kind = loop.kind /\ loop'.win = loop.win
      /\ loop'.routes = k /\ loop'.need = loop.need
      /\ k \in Seq(Routed) /\ RoutesRight(loop.kind, loop.win, k)
      /\ NeedsM' => NeedsM
      /\ Coming = outbox /\ Coming \in Seq(Deliveries)
      /\ Coming' = Coming \o b
  BY <1>1, GoesOnIs
<1>3. n \in Numbers /\ n \in Nat /\ scrollback \in [Chans -> Seq(Numbers)] /\ untold \in BOOLEAN /\ inM \in SUBSET Chans
      /\ epoch \in [Chans -> Nat]
  BY <1>0 DEF Types, Numbers
<1>4. n' \in Numbers /\ n' \in Nat /\ n < n'
  BY <1>1, <1>3 DEF Numbers
<1>5. w \in Chans /\ (loop.kind \in {"part", "selfjoin"} => load.pc = "done" /\ k # <<>>)
  <2>1. w \in Chans /\ (loop.kind \in {"part", "selfjoin"} => load.pc = "done" /\ Len(k) = 1)
    BY <1>2 DEF RoutesRight
  <2>2. Len(k) = 1 => k # <<>>
    BY EmptySeq
  <2>. QED BY <2>1, <2>2
<1>. HIDE DEF k
<1>6. /\ b \in Seq(Deliveries) /\ Len(b) = Len(k) /\ InOrder(b)
      /\ \A i \in 1..Len(b) : /\ b[i].id = n' /\ b[i].kind = k[i].kind /\ b[i].kind \notin Signs
                              /\ b[i].wins = k[i].wins /\ b[i].ids = k[i].ids
      /\ \A c \in Chans : ~Projected(k, c) => FilesAt(b, c) = {}
      /\ \A c \in Chans : Projected(k, c) => \E p \in 1..Len(b) : FilesAt(b, c) = {p}
  <2>1. k \in Seq(Routed) /\ RoutesRight(loop.kind, loop.win, k) /\ n' \in Numbers
    BY <1>2, <1>4
  <2>. QED BY <2>1, QueuedIs
<1>7. /\ \A c \in Chans : c # w => FilesAt(b, c) = {} /\ MovesAt(b, c) = {} /\ ~Projected(k, c)
      /\ k # <<>> => MovesAt(b, w) = {1}
      /\ loop.kind = "selfjoin" => FilesAt(b, w) = {1} /\ Projected(k, w)
  <2>1. k \in Seq(Routed) /\ RoutesRight(loop.kind, loop.win, k) /\ n' \in Numbers
    BY <1>2, <1>4
  <2>. QED BY <2>1, QueuedIs
<1>8. loop.kind \in Departs => ~Projected(k, w)
  <2>1. SUFFICES ASSUME loop.kind \in Departs, NEW i \in DOMAIN k PROVE w \notin k[i].ids
    BY DEF Projected
  <2>2. k[i] \in Routed /\ k[i].kind = loop.kind
    BY <1>2, <2>1, ElementOfSeq, LenProperties DEF RoutesRight
  <2>. QED BY <2>1, <2>2, RouteFits
<1>. HIDE DEF b, w
<1>9. loop.kind \in Departs \/ loop.kind = "selfjoin"
  BY DEF Turns
<1>10. /\ scrollback' = WithRows([scrollback EXCEPT ![w] = <<>>], k)
       /\ epoch' = [epoch EXCEPT ![w] = @ + 1]
       /\ inM' = IF loop.kind = "selfjoin" THEN inM \cup {w} ELSE inM \ {w}
  BY <1>1 DEF Committed, Turns, Departs, w
<1>11. /\ \A c \in Chans : c # w => scrollback'[c] = scrollback[c]
       /\ loop.kind \in Departs => scrollback'[w] = <<>>
       /\ loop.kind = "selfjoin" => scrollback'[w] = <<n'>>
       /\ scrollback' = [c \in Chans |-> scrollback'[c]]
  <2>. DEFINE r == [scrollback EXCEPT ![w] = <<>>]
  <2>1. /\ \A c \in Chans : c # w => r[c] = scrollback[c]
        /\ r[w] = <<>>
    BY <1>3, <1>5
  <2>. HIDE DEF r
  <2>2. scrollback' = [c \in Chans |-> IF Projected(k, c) THEN Append(r[c], n') ELSE r[c]]
    BY <1>10 DEF WithRows, r
  <2>3. Append(<<>>, n') = <<n'>>
    OBVIOUS
  <2>. QED BY <1>5, <1>7, <1>8, <2>1, <2>2, <2>3
<1>12. /\ Rising(<<>>) /\ Range(<<>>) = {} /\ <<>> \in Seq(Numbers)
       /\ Rising(<<n'>>) /\ Range(<<n'>>) = {n'} /\ <<n'>> \in Seq(Numbers)
  <2>1. <<>> \in Seq(Numbers) /\ <<n'>> \in Seq(Numbers) /\ Len(<<>>) = 0 /\ Len(<<n'>>) = 1 /\ <<n'>>[1] = n'
    BY <1>4
  <2>2. \A s \in Seq(Numbers) : Range(s) = {s[i] : i \in 1..Len(s)}
    BY RangeIs
  <2>3. Range(<<>>) = {} /\ Rising(<<>>)
    <3>. DEFINE s == <<>>
    <3>1. s \in Seq(Numbers) /\ Len(s) = 0
      BY <2>1
    <3>. HIDE DEF s
    <3>2. Range(s) = {s[i] : i \in 1..0}
      BY <2>2, <3>1
    <3>3. Range(s) = {}
      BY <3>2
    <3>4. Rising(s)
      BY <3>1 DEF Rising
    <3>. QED BY <3>3, <3>4 DEF s
  <2>4. Range(<<n'>>) = {n'}
    <3>. DEFINE s == <<n'>>
    <3>1. s \in Seq(Numbers) /\ Len(s) = 1 /\ s[1] = n'
      BY <2>1
    <3>. HIDE DEF s
    <3>2. Range(s) = {s[i] : i \in 1..1}
      BY <2>2, <3>1
    <3>3. Range(s) = {n'}
      BY <3>1, <3>2
    <3>. QED BY <3>3 DEF s
  <2>5. Rising(<<n'>>)
    BY <2>1 DEF Rising
  <2>. QED BY <2>1, <2>3, <2>4, <2>5
<1>13. \A c \in Chans : scrollback'[c] \in Seq(Numbers) /\ Rising(scrollback'[c]) /\ \A x \in Range(scrollback'[c]) : x <= n'
  <2>1. SUFFICES ASSUME NEW c \in Chans
                 PROVE  scrollback'[c] \in Seq(Numbers) /\ Rising(scrollback'[c]) /\ \A x \in Range(scrollback'[c]) : x <= n'
    OBVIOUS
  <2>2. CASE c # w
    <3>1. scrollback'[c] = scrollback[c] /\ scrollback[c] \in Seq(Numbers)
      BY <1>3, <1>11, <2>2
    <3>2. Rising(scrollback[c]) /\ \A x \in Range(scrollback[c]) : x <= n /\ x \in Numbers
      BY <1>0, <3>1, RangeIs DEF Numbering
    <3>. QED BY <1>3, <1>4, <3>1, <3>2 DEF Numbers
  <2>3. CASE c = w
    <3>1. scrollback'[c] = <<>> \/ scrollback'[c] = <<n'>>
      BY <1>9, <1>11, <2>3
    <3>2. CASE scrollback'[c] = <<>>
      BY <1>12, <3>2
    <3>3. CASE scrollback'[c] = <<n'>>
      <4>. DEFINE s == <<n'>>
      <4>1. Rising(s) /\ Range(s) = {n'} /\ s \in Seq(Numbers) /\ scrollback'[c] = s
        BY <1>12, <3>3
      <4>. HIDE DEF s
      <4>. QED BY <1>4, <4>1
    <3>. QED BY <3>1, <3>2, <3>3
  <2>. QED BY <2>2, <2>3
<1>14. Types'
  <2>1. scrollback' \in [Chans -> Seq(Numbers)]
    BY <1>11, <1>13
  <2>2. untold' \in BOOLEAN /\ epoch' \in [Chans -> Nat] /\ inM' \in SUBSET Chans
    BY <1>1, <1>3, <1>5, <1>10
  <2>. QED BY <1>0, <1>1, <1>2, <1>4, <2>1, <2>2 DEF Types, Seeded
<1>15. PlanRight'
  <2>1. RoutesRight(loop.kind, loop.win, loop.routes)'
    BY <1>1, <1>2 DEF RoutesRight
  <2>2. loop.kind # "none"
    BY DEF Turns, Departs
  <2>. QED BY <1>0, <1>1, <1>2, <2>1, <2>2 DEF PlanRight
<1>16. Held'
  BY <1>0, <1>1, <1>2 DEF Held
<1>17. Numbering'
  <2>1. ASSUME NEW c \in Chans, NEW j \in 1..Len(b), c \in b[j].ids PROVE ranges[c][2] < n'
    <3>1. ranges[c][2] \in Nat /\ ranges[c][2] <= n
      BY <1>0 DEF Types, Numbering
    <3>. QED BY <1>3, <1>4, <3>1
  <2>2. Spared' = {}
    BY <1>1, <1>2 DEF Spared
  <2>3. \A i \in 1..Len(b) : b[i].id = n'
    BY <1>6
  <2>4. ASSUME NEW i \in 1..Len(Coming) PROVE Coming[i].id < n'
    <3>1. Coming[i].id \in Nat /\ Coming[i].id <= n
      BY <1>0, <1>2, ElementOfSeq DEF Numbering, Deliveries
    <3>. QED BY <1>3, <1>4, <3>1
  <2>5. n <= n'
    BY <1>3, <1>4
  <2>. QED BY <1>0, <1>1, <1>2, <1>4, <1>6, <1>13, <2>1, <2>2, <2>3, <2>4, <2>5, NumberingGrows
<1>18. Attached'
  BY <1>0, <1>1, AttachedLeft
<1>19. DirectRight'
  <2>1. Waiting(outbox)' = Waiting(outbox)
    BY <1>1
  <2>2. n <= n'
    BY <1>3, <1>4
  <2>. QED BY <1>0, <1>1, <1>2, <1>4, <2>1, <2>2, DirectLeft
<1>20. ChannelsRight'
  <2>1. SUFFICES ASSUME link = "on", NEW c \in inM' PROVE ChannelRight(c)'
    BY <1>1 DEF ChannelsRight
  <2>2. CASE c # w
    <3>1. c \in Chans /\ ChannelRight(c) /\ scrollback'[c] = scrollback[c]
      BY <1>0, <1>3, <1>10, <1>11, <2>1, <2>2 DEF ChannelsRight
    <3>2. FilesAt(b, c) = {} /\ MovesAt(b, c) = {}
      BY <1>7, <2>2, <3>1
    <3>. QED BY <1>1, <1>2, <1>6, <3>1, <3>2, ChannelBeside
  <2>3. CASE c = w
    <3>1. loop.kind = "selfjoin"
      BY <1>10, <2>1, <2>3
    <3>2. load.pc = "done" /\ load.todo = {}
      BY <1>0, <1>5, <3>1 DEF Attached
    <3>3. HistoryLoaded(c)'
      BY <1>1, <3>2 DEF HistoryLoaded
    <3>4. FilesAt(b, w) = {1} /\ MovesAt(b, w) = {1} /\ scrollback'[w] = <<n'>>
      BY <1>5, <1>7, <1>11, <3>1
    <3>5. b[1].id = n' /\ n' \in Numbers
      <4>1. 1 \in FilesAt(b, w)
        BY <3>4
      <4>2. 1 \in 1..Len(b)
        BY <4>1 DEF FilesAt
      <4>. QED BY <1>4, <1>6, <4>2
    <3>6. Known(hist[w]) \in Seq(Numbers)
      BY <1>0, <1>5 DEF Types
    <3>7. Matches(hist, Coming \o b, <<b[1].id>>, w)
      <4>1. b[1].id \in Numbers
        BY <3>5
      <4>. QED BY <1>2, <1>6, <3>4, <3>6, <4>1, MatchesJoin
    <3>8. Matches(hist, Coming, scrollback[w], w)'
      <4>1. hist' = hist /\ Coming' = Coming \o b /\ scrollback'[w] = <<b[1].id>>
        BY <1>1, <1>2, <3>4, <3>5
      <4>2. Matches(hist', Coming', scrollback'[w], w)
        BY <3>7, <4>1
      <4>3. w' = w
        BY <1>2 DEF w
      <4>. QED BY <4>2, <4>3
    <3>9. w' = w
      BY <1>2 DEF w
    <3>. QED BY <2>3, <3>3, <3>8, <3>9 DEF ChannelRight
  <2>. QED BY <2>2, <2>3
<1>21. Dispatching'
  <2>1. ASSUME NEW i \in 1..Len(Coming), InItsStay(Coming, i), link' = "on", ~untold'
        PROVE  \A c \in disp.wins \cap Chans : epoch'[c] - MovesFrom(Coming', c, i) = disp.auth[c]
    <3>1. SUFFICES ASSUME NEW c \in disp.wins \cap Chans
                   PROVE  epoch'[c] - MovesFrom(Coming', c, i) = disp.auth[c]
      OBVIOUS
    <3>2. epoch[c] - MovesFrom(Coming, c, i) = disp.auth[c]
      BY <2>1 DEF InItsStay
    <3>3. CASE c # w
      <4>1. MovesFrom(Coming', c, i) = MovesFrom(Coming, c, i)
        BY <1>2, <1>6, <1>7, <3>3, MovesFromEarlier
      <4>2. epoch'[c] = epoch[c]
        BY <1>3, <1>10, <3>3
      <4>. QED BY <3>2, <4>1, <4>2
    <3>4. CASE c = w
      <4>1. k # <<>>
        <5>1. ~(loop.kind = "kick" /\ k = <<>>)
          BY <1>1, <2>1
        <5>. QED BY <1>5, <5>1 DEF Turns, Departs
      <4>2. MovesAt(b, c) = {1}
        BY <1>7, <3>4, <4>1
      <4>3. MovesFrom(Coming', c, i) = MovesFrom(Coming, c, i) + 1
        <5>1. Coming \in Seq(Deliveries) /\ b \in Seq(Deliveries) /\ i \in 1..Len(Coming) /\ Coming' = Coming \o b
          BY <1>2, <1>6
        <5>2. \E p : MovesAt(b, c) = {p}
          BY <4>2
        <5>3. MovesFrom(Coming \o b, c, i) = MovesFrom(Coming, c, i) + 1
          BY <5>1, <5>2, MovesFromOneMore
        <5>. QED BY <5>1, <5>3
      <4>4. epoch'[c] = epoch[c] + 1 /\ epoch[c] \in Nat
        BY <1>3, <1>10, <3>4
      <4>5. MovesFrom(Coming, c, i) \in Nat
        BY <1>2, MovesFromType
      <4>. QED BY <3>2, <4>3, <4>4, <4>5
    <3>. QED BY <3>3, <3>4
  <2>2. \A i \in 1..Len(b) : b[i].kind \notin Signs
    BY <1>6
  <2>3. link' = "on" /\ ~untold' => link = "on" /\ ~untold
    BY <1>1
  <2>. QED BY <1>0, <1>1, <1>2, <1>6, <2>1, <2>2, <2>3, DispatchingGrows
<1>. QED BY <1>14, <1>15, <1>16, <1>17, <1>18, <1>19, <1>20, <1>21 DEF Core

\* A stuttering step.
LEMMA UnchangedRight ==
  ASSUME Core, UNCHANGED <<anon, n, inM, scrollback, dms, link, blocked, outbox, ranges, epoch, liveFrom, loop, disp, locks, dmMu,
                           load, hist, unseeded, untold>>
  PROVE  Core'
<1>0. Types /\ PlanRight /\ Held /\ Numbering /\ Attached /\ DirectRight /\ ChannelsRight /\ Dispatching
  BY DEF Core
<1>1. Coming' = Coming /\ Spared' = Spared
  BY DEF Coming, Pending, Spared
<1>2. disp' \in DispTypes
  BY <1>0 DEF Types
<1>3. Held'
  BY <1>0 DEF Held, NeedsM
<1>4. Dispatching'
  BY <1>0, <1>1, DispatchingLeft
<1>. QED BY <1>2, <1>3, <1>4, DispMovesRight

\* The commands of the loop.
LEMMA CommandsRight ==
  ASSUME Core, Inv, SessionCommands, \A kind \in Directs : Message(kind) => Core'
  PROVE  Core'
<1>1. ASSUME NEW c \in Chans, NEW kind \in {"say", "own", "topic", "join", "kick"}, Begin(kind, c) PROVE Core'
  <2>1. Due(kind, c) /\ c \in Windows \cup {"none"} /\ kind \notin Directs /\ kind \notin {"latequit", "lateparts"}
    BY DEF Due, Plans, Directs, Turns, Departs, Windows
  <2>. QED BY <1>1, <2>1, BeginRight
<1>2. ASSUME NEW kind \in {"nick", "quit"}, Begin(kind, "none") PROVE Core'
  <2>1. Due(kind, "none") /\ "none" \in Windows \cup {"none"} /\ kind \notin Directs /\ kind \notin {"latequit", "lateparts"}
    BY DEF Due, Plans, Directs, Turns, Departs
  <2>. QED BY <1>2, <2>1, BeginRight
<1>3. ASSUME NEW c \in Chans, NEW kind \in {"part", "selfjoin"}, Turning, kind = "part" => c \in inM, Begin(kind, c) PROVE Core'
  <2>1. Due(kind, c) /\ c \in Windows \cup {"none"} /\ kind \notin Directs /\ kind \notin {"latequit", "lateparts"}
    BY <1>3 DEF Turning, Due, Plans, Directs, Turns, Departs, Windows
  <2>. QED BY <1>3, <2>1, BeginRight
<1>4. ASSUME NEW c \in Chans, Say(c) \/ Own(c) \/ Topic(c) \/ JoinEvent(c) \/ KickEvent(c) PROVE Core'
  BY <1>1, <1>4 DEF Say, Own, Topic, JoinEvent, KickEvent
<1>5. ASSUME NEW c \in Chans, PartEvent(c) \/ SelfJoin(c) PROVE Core'
  BY <1>3, <1>5 DEF PartEvent, SelfJoin
<1>6. ASSUME NickEvent \/ QuitEvent PROVE Core'
  BY <1>2, <1>6 DEF NickEvent, QuitEvent
<1>. QED BY <1>4, <1>5, <1>6 DEF SessionCommands, Directs

\* A direct message is in the log before it is queued, under dmHistoryMu.
LEMMA MessageRight == ASSUME Core, Inv, NEW kind \in Directs, Message(kind) PROVE Core'
<1>0. Types /\ PlanRight /\ Held /\ Numbering /\ Attached /\ DirectRight /\ ChannelsRight /\ Dispatching
  BY DEF Core
<1>1. /\ loop.pc = "idle" /\ link = "on" /\ dmMu = "free"
      /\ UNCHANGED <<anon, inM, scrollback, link, blocked, outbox, ranges, epoch, liveFrom, disp, locks, load, hist, unseeded, untold>>
  BY DEF Message, MayCommand, members, queue, client
<1>2. CASE UNCHANGED <<n, dms, dmMu, loop>>
  BY <1>1, <1>2, UnchangedRight
<1>3. CASE /\ n' = n + 1 /\ dms' = Append(dms, n') /\ dmMu' = "loop"
           /\ loop' = Planned(kind, Direct, Routes(kind, Direct))
  <2>1. Due(kind, Direct) /\ Direct \in Windows \cup {"none"}
    BY <1>1 DEF Due, Plans, Directs, Turns, Departs, Windows
  <2>2. /\ loop' \in LoopTypes /\ loop'.kind = kind /\ loop'.win = Direct /\ loop'.routes = Routes(kind, Direct)
        /\ loop'.pc \in {"lock", "commit"}
        /\ RoutesRight(kind, Direct, loop'.routes)
        /\ NeedsM' => loop'.need # <<>> /\ Head(loop'.need) = "m"
    BY <1>0, <1>3, <2>1, PlannedIs
  <2>3. n \in Nat /\ n' \in Numbers /\ n' \in Nat /\ n < n' /\ dms \in Seq(Numbers)
    BY <1>0, <1>3 DEF Types, Numbers
  <2>4. \A x \in Range(dms) : x \in Nat /\ x < n'
    <3>1. \A x \in Range(dms) : x \in Numbers /\ x <= n
      BY <1>0, <2>3, RangeIs DEF DirectRight
    <3>. QED BY <2>3, <3>1 DEF Numbers
  <2>5. dms' \in Seq(Numbers) /\ Rising(dms') /\ Range(dms') = Range(dms) \cup {n'}
    BY <1>0, <1>3, <2>3, <2>4, OneMoreRow DEF DirectRight
  <2>6. Types'
    BY <1>0, <1>1, <1>3, <2>2, <2>3, <2>5 DEF Types, Seeded
  <2>7. PlanRight'
    <3>1. RoutesRight(loop.kind, loop.win, loop.routes)'
      BY <1>1, <2>2 DEF RoutesRight
    <3>2. loop'.kind # "none"
      BY <2>2 DEF Directs
    <3>. QED BY <1>3, <2>2, <3>1, <3>2 DEF PlanRight
  <2>8. Held'
    BY <1>0, <1>1, <2>2 DEF Held
  <2>9. Coming = outbox /\ Coming' = Coming
    <3>1. Coming = outbox
      BY <1>0, <1>1, ComingIs
    <3>2. Coming' = outbox'
      BY <2>2, <2>6, ComingNext
    <3>. QED BY <1>1, <3>1, <3>2
  <2>10. Numbering'
    <3>1. Spared' = {}
      BY <2>2 DEF Spared, Directs
    <3>2. \A i \in 1..Len(Coming) : Coming[i].id <= n'
      <4>1. Coming \in Seq(Deliveries)
        BY <1>0, ComingIs
      <4>2. \A i \in 1..Len(Coming) : Coming[i].id \in Nat /\ Coming[i].id <= n
        BY <1>0, <4>1, ElementOfSeq DEF Numbering, Deliveries
      <4>. QED BY <2>3, <4>2
    <3>3. \A c \in Chans : \A x \in Range(scrollback[c]) : x <= n'
      <4>1. \A c \in Chans : \A x \in Range(scrollback[c]) : x \in Numbers /\ x <= n
        BY <1>0, RangeIs DEF Numbering, Types
      <4>2. SUFFICES ASSUME NEW c \in Chans, NEW x \in Range(scrollback[c]) PROVE x <= n'
        OBVIOUS
      <4>3. x \in Nat /\ x <= n
        BY <4>1 DEF Numbers
      <4>. QED BY <2>3, <4>3
    <3>4. \A c \in Chans : ranges[c][2] <= n'
      <4>1. \A c \in Chans : ranges[c][2] \in Nat /\ ranges[c][2] <= n
        BY <1>0 DEF Numbering, Types
      <4>. QED BY <2>3, <4>1
    <3>. QED BY <1>0, <1>1, <2>9, <3>1, <3>2, <3>3, <3>4 DEF Numbering
  <2>11. Attached'
    BY <1>0, <1>1, AttachedLeft
  <2>12. DirectRight'
    <3>1. loop.kind \notin Directs
      BY <1>0, <1>1 DEF PlanRight
    <3>2. Told = Range(dms) /\ Told' = Range(dms)
      BY <2>2, <2>3, <2>4, <2>5, <3>1 DEF Told
    <3>3. Conversed(hist[Direct], unseeded, liveFrom, Waiting(outbox), Told)
      BY <1>0, <1>1 DEF DirectRight
    <3>4. Conversed(hist[Direct], unseeded, liveFrom, Waiting(outbox), Told)'
      <4>1. Waiting(outbox)' = Waiting(outbox)
        BY <1>1
      <4>. QED BY <1>1, <3>2, <3>3, <4>1
    <3>5. \A x \in Range(dms') : x <= n'
      BY <2>3, <2>4, <2>5
    <3>6. liveFrom' <= n' /\ n' \in Range(dms')
      <4>1. liveFrom \in Nat /\ liveFrom <= n
        BY <1>0 DEF Types, DirectRight
      <4>. QED BY <1>1, <2>3, <2>5, <4>1
    <3>. QED BY <2>5, <3>4, <3>5, <3>6 DEF DirectRight
  <2>13. ChannelsRight'
    BY <1>0, <1>1, <2>9, ChannelsLeft
  <2>14. Dispatching'
    BY <1>0, <1>1, <2>9, DispatchingLeft
  <2>. QED BY <2>6, <2>7, <2>8, <2>10, <2>11, <2>12, <2>13, <2>14 DEF Core
<1>. QED BY <1>2, <1>3 DEF Message

\* A QUIT whose transaction failed is planned again.
LEMMA QuitFailsRight == ASSUME Core, Inv, QuitFails PROVE Core'
<1>0. Types /\ PlanRight /\ Held /\ Numbering /\ Attached /\ DirectRight /\ ChannelsRight /\ Dispatching
  BY DEF Core
<1>1. /\ loop.pc = "commit" /\ loop.kind = "quit" /\ n' = n + 1
      /\ loop' = Planned("latequit", "none", Routes("latequit", "none")) /\ locks' = Unlocked("loop")
      /\ UNCHANGED <<anon, inM, scrollback, dms, link, blocked, outbox, ranges, epoch, liveFrom, disp, dmMu, load, hist, unseeded, untold>>
  BY DEF QuitFails, members, store, queue, client
<1>2. Due("latequit", "none")
  BY DEF Due, Plans, Directs, Turns, Departs
<1>3. /\ loop' \in LoopTypes /\ loop'.kind = "latequit" /\ loop'.win = "none"
      /\ loop'.pc \in {"lock", "commit"}
      /\ RoutesRight("latequit", "none", loop'.routes)
      /\ NeedsM' => loop'.need # <<>> /\ Head(loop'.need) = "m"
  BY <1>0, <1>1, <1>2, PlannedIs
<1>4. n \in Nat /\ n' \in Numbers /\ n' \in Nat /\ n < n'
  BY <1>0, <1>1 DEF Types, Numbers
<1>5. Types'
  BY <1>0, <1>1, <1>3, <1>4 DEF Types, Seeded
<1>6. PlanRight'
  <2>1. RoutesRight(loop.kind, loop.win, loop.routes)'
    BY <1>1, <1>3 DEF RoutesRight
  <2>. QED BY <1>0, <1>1, <1>3, <2>1 DEF PlanRight, Directs
<1>7. Held'
  BY <1>0, <1>1, <1>3, UnlockedLeaves DEF Held
<1>8. Coming = outbox /\ Coming' = Coming /\ Coming \in Seq(Deliveries)
  <2>1. Coming = outbox /\ Coming \in Seq(Deliveries)
    BY <1>0, <1>1, ComingIs
  <2>2. Coming' = outbox'
    BY <1>3, <1>5, ComingNext
  <2>. QED BY <1>1, <2>1, <2>2
<1>9. /\ \A i \in 1..Len(Coming) : Coming[i].id < n' /\ Coming[i].id <= n'
      /\ \A c \in Chans : /\ \A x \in Range(scrollback[c]) : x < n' /\ x <= n'
                          /\ ranges[c][2] < n' /\ ranges[c][2] <= n'
  <2>1. \A i \in 1..Len(Coming) : Coming[i].id \in Nat /\ Coming[i].id <= n
    BY <1>0, <1>8, ElementOfSeq DEF Numbering, Deliveries
  <2>2. \A c \in Chans : \A x \in Range(scrollback[c]) : x \in Numbers /\ x <= n
    BY <1>0, RangeIs DEF Numbering, Types
  <2>3. \A c \in Chans : ranges[c][2] \in Nat /\ ranges[c][2] <= n
    BY <1>0 DEF Numbering, Types
  <2>4. \A i \in 1..Len(Coming) : Coming[i].id < n' /\ Coming[i].id <= n'
    BY <1>4, <2>1
  <2>5. ASSUME NEW c \in Chans, NEW x \in Range(scrollback[c]) PROVE x < n' /\ x <= n'
    <3>1. x \in Nat /\ x <= n
      BY <2>2 DEF Numbers
    <3>. QED BY <1>4, <3>1
  <2>6. \A c \in Chans : ranges[c][2] < n' /\ ranges[c][2] <= n'
    BY <1>4, <2>3
  <2>. QED BY <2>4, <2>5, <2>6
<1>10. Numbering'
  <2>1. Spared' \subseteq Chans
    BY <1>3 DEF Spared
  <2>2. \A c \in Chans : Fresh(c)'
    BY <1>1, <1>8, <1>9 DEF Fresh
  <2>. QED BY <1>0, <1>1, <1>8, <1>9, <2>1, <2>2 DEF Numbering
<1>11. Attached'
  BY <1>0, <1>1, AttachedLeft
<1>12. DirectRight'
  <2>1. Waiting(outbox)' = Waiting(outbox)
    BY <1>1
  <2>2. loop.kind \notin Directs /\ loop'.kind \notin Directs
    BY <1>1, <1>3 DEF Directs
  <2>3. n <= n'
    BY <1>4
  <2>. QED BY <1>0, <1>1, <1>4, <2>1, <2>2, <2>3, DirectLeft
<1>13. ChannelsRight'
  BY <1>0, <1>1, <1>8, ChannelsLeft
<1>14. Dispatching'
  BY <1>0, <1>1, <1>8, DispatchingLeft
<1>. QED BY <1>5, <1>6, <1>7, <1>10, <1>11, <1>12, <1>13, <1>14 DEF Core

\* Rows that cannot be appended end the client.
LEMMA UnreplayableEnds == Unreplayable => link' = "gone"
BY DEF Unreplayable

\* A message that was being fanned out now waits; the first one bounds the snapshot.
LEMMA ConversedGrows ==
  ASSUME NEW h, NEW u \in Seq(Numbers), h # NoBuf => h \in Seq(Numbers), NEW l \in Nat, NEW w, NEW t \in SUBSET Numbers,
         NEW x \in Numbers, l <= x, \A y \in t : y < x, Conversed(h, u, l, w, t)
  PROVE  Conversed(h, u, IF l = 0 THEN x ELSE l, w \cup {x}, t \cup {x})
<1>. DEFINE k == IF l = 0 THEN x ELSE l
<1>0. x \in Nat /\ x # 0 /\ \A y \in t : y \in Nat /\ y < x
  BY DEF Numbers
<1>1. w \cup {x} \subseteq t \cup {x}
  BY DEF Conversed
<1>2. ASSUME h # NoBuf
      PROVE  Rising(h) /\ (\A z \in Range(h), y \in w \cup {x} : z < y) /\ Range(h) \cup (w \cup {x}) = t \cup {x}
  <2>1. Rising(h) /\ (\A z \in Range(h), y \in w : z < y) /\ Range(h) \cup w = t
    BY <1>2 DEF Conversed
  <2>2. \A z \in Range(h) : z < x
    BY <1>0, <2>1
  <2>. QED BY <2>1, <2>2
<1>3. ASSUME h = NoBuf
      PROVE  /\ Rising(u) /\ (\A z \in Range(u), y \in w \cup {x} : z < y) /\ Range(u) \subseteq t \cup {x}
             /\ \A z \in t \cup {x} : (k # 0 /\ z >= k) <=> z \in Range(u) \cup (w \cup {x})
  <2>1. /\ Rising(u) /\ (\A z \in Range(u), y \in w : z < y) /\ Range(u) \subseteq t
        /\ \A z \in t : (l # 0 /\ z >= l) <=> z \in Range(u) \cup w
    BY <1>3 DEF Conversed
  <2>2. \A z \in Range(u) : z < x
    BY <1>0, <2>1
  <2>3. ASSUME NEW z \in t PROVE (k # 0 /\ z >= k) <=> z \in Range(u) \cup (w \cup {x})
    <3>1. z \in Nat /\ z < x /\ z # x
      BY <1>0
    <3>2. (l # 0 /\ z >= l) <=> z \in Range(u) \cup w
      BY <2>1
    <3>3. (k # 0 /\ z >= k) <=> (l # 0 /\ z >= l)
      BY <1>0, <3>1
    <3>4. z \in Range(u) \cup (w \cup {x}) <=> z \in Range(u) \cup w
      BY <3>1
    <3>. QED BY <3>2, <3>3, <3>4
  <2>4. k # 0 /\ x >= k
    BY <1>0
  <2>. QED BY <2>1, <2>2, <2>3, <2>4
<1>. QED BY <1>1, <1>2, <1>3 DEF Conversed

\* enqueueRoutes: what was committed is queued in the same order.
LEMMA QueueRight == ASSUME Core, Inv, Queue PROVE Core'
<1>. DEFINE b == Items(loop.routes, n)
<1>0. Types /\ PlanRight /\ Held /\ Numbering /\ Attached /\ DirectRight /\ ChannelsRight /\ Dispatching
  BY DEF Core
<1>1. /\ loop.pc = "queue" /\ outbox' = outbox \o b /\ NoteLive(loop.routes)
      /\ UNCHANGED <<anon, n, inM, scrollback, dms, link, blocked, ranges, epoch, disp, load, hist, unseeded, untold>>
      /\ locks' = Unlocked("loop")
  BY DEF Queue, LoopDone, events, store, client
<1>2. n \in Nat /\ n \in Numbers /\ dms \in Seq(Numbers) /\ liveFrom \in Nat
  BY <1>0 DEF Types, Numbers
<1>3. loop.routes \in Seq(Routed) /\ RoutesRight(loop.kind, loop.win, loop.routes)
  BY <1>0 DEF Types, LoopTypes, PlanRight
<1>4. /\ b \in Seq(Deliveries)
      /\ loop.kind \in Directs => Waiting(b) = {n}
      /\ loop.kind \notin Directs => Waiting(b) = {}
  BY <1>2, <1>3, QueuedIs
<1>5. Coming = outbox \o b /\ Coming = outbox'
  BY <1>1 DEF Coming, Pending
<1>. HIDE DEF b
<1>6. outbox \in Seq(Deliveries) /\ outbox' \in Seq(Deliveries)
  BY <1>0, <1>5, ComingIs DEF Types
<1>7. liveFrom' = IF liveFrom = 0 /\ (\E i \in DOMAIN loop.routes : loop.routes[i].wins = {Direct}) THEN n ELSE liveFrom
  BY <1>1 DEF NoteLive
<1>8. (\E i \in DOMAIN loop.routes : loop.routes[i].wins = {Direct}) <=> loop.kind \in Directs
  <2>1. \A i \in 1..Len(loop.routes) : loop.routes[i] \in Routed
    BY <1>3, ElementOfSeq
  <2>2. DOMAIN loop.routes = 1..Len(loop.routes)
    BY <1>3, LenProperties
  <2>3. \A i \in 1..Len(loop.routes) : loop.routes[i].kind \in Directs <=> loop.kind \in Directs
    BY <1>3 DEF RoutesRight
  <2>4. ASSUME NEW i \in 1..Len(loop.routes) PROVE loop.routes[i].wins = {Direct} <=> loop.kind \in Directs
    <3>1. loop.routes[i].kind \notin Directs => loop.routes[i].wins \subseteq Chans
      BY <2>1, RouteFits
    <3>2. loop.routes[i].kind \in Directs => loop.routes[i].wins = {Direct}
      BY <2>1, RouteFits
    <3>. QED BY <2>3, <3>1, <3>2, ReplayAssumption DEF Direct
  <2>5. loop.kind \in Directs => Len(loop.routes) = 1
    BY <1>3 DEF RoutesRight
  <2>6. ASSUME loop.kind \in Directs PROVE 1 \in 1..Len(loop.routes)
    <3>1. Len(loop.routes) = 1
      BY <2>5, <2>6
    <3>2. 1 \in 1..1
      OBVIOUS
    <3>. QED BY <3>1, <3>2
  <2>. QED BY <2>2, <2>4, <2>6
<1>9. liveFrom' = IF liveFrom = 0 /\ loop.kind \in Directs THEN n ELSE liveFrom
  BY <1>7, <1>8
<1>10. liveFrom' \in Nat /\ liveFrom' <= n
  BY <1>0, <1>2, <1>9 DEF DirectRight
\* The loop goes on to the parts of a failed QUIT, or rests.
<1>11. /\ loop' \in LoopTypes /\ loop'.pc # "queue" /\ Spared' \subseteq Spared /\ PlanRight' /\ loop'.kind \notin Directs
       /\ NeedsM' => loop'.need # <<>> /\ Head(loop'.need) = "m"
       /\ dmMu' = "free"
  <2>1. CASE loop.kind = "latequit"
    <3>1. loop' = Planned("lateparts", "none", Routes("lateparts", "none")) /\ UNCHANGED dmMu
      BY <2>1 DEF Queue
    <3>2. Due("lateparts", "none")
      BY DEF Due, Plans, Directs, Turns, Departs
    <3>3. /\ loop' \in LoopTypes /\ loop'.kind = "lateparts" /\ loop'.win = "none"
          /\ loop'.pc \in {"lock", "commit"}
          /\ RoutesRight("lateparts", "none", loop'.routes)
          /\ NeedsM' => loop'.need # <<>> /\ Head(loop'.need) = "m"
      BY <1>0, <3>1, <3>2, PlannedIs
    <3>4. RoutesRight(loop.kind, loop.win, loop.routes)'
      BY <1>1, <3>3 DEF RoutesRight
    <3>5. loop'.kind \notin Directs /\ dmMu' = "free"
      BY <1>0, <2>1, <3>1, <3>3 DEF PlanRight, Directs
    <3>6. PlanRight'
      BY <3>3, <3>4, <3>5 DEF PlanRight
    <3>7. Spared' \subseteq Spared
      BY <1>1, <2>1, <3>3 DEF Spared
    <3>. QED BY <3>3, <3>5, <3>6, <3>7
  <2>2. CASE loop.kind # "latequit"
    <3>1. loop' = NoPlan /\ dmMu' = "free"
      BY <1>0, <2>2 DEF Queue, LoopDone, Types
    <3>. QED BY <1>0, <3>1, NoPlanRight
  <2>. QED BY <2>1, <2>2
<1>12. Types'
  BY <1>0, <1>1, <1>6, <1>10, <1>11 DEF Types, Seeded
<1>13. Coming' = Coming
  <2>1. Coming' = outbox'
    BY <1>11, <1>12, ComingNext
  <2>. QED BY <1>5, <2>1
<1>14. Held'
  BY <1>0, <1>1, <1>11, UnlockedLeaves DEF Held
<1>15. Numbering'
  BY <1>0, <1>1, <1>11, <1>13, NumberingLeft
<1>16. Attached'
  <2>1. link = "off" => outbox' = outbox /\ liveFrom' = liveFrom
    <3>1. link = "off" => loop.routes = <<>> /\ loop.kind \notin Directs
      BY <1>3 DEF RoutesRight
    <3>2. loop.routes = <<>> => Coming = outbox
      BY <1>0, ComingIs
    <3>. QED BY <1>5, <1>9, <3>1, <3>2
  <2>. QED BY <1>0, <1>1, <2>1 DEF Attached, Seeded
<1>17. DirectRight'
  <2>1. Waiting(outbox') = Waiting(outbox) \cup Waiting(b)
    BY <1>1, <1>4, <1>6, WaitingJoined
  <2>2. CASE loop.kind \notin Directs
    <3>1. Waiting(outbox)' = Waiting(outbox)
      BY <1>4, <2>1, <2>2
    <3>2. liveFrom' = liveFrom
      BY <1>9, <2>2
    <3>. QED BY <1>0, <1>1, <1>2, <1>11, <2>2, <3>1, <3>2, DirectLeft
  <2>3. CASE loop.kind \in Directs
    <3>1. link = "on" /\ n \in Range(dms)
      BY <1>0, <1>3, <2>3 DEF DirectRight, RoutesRight
    <3>2. Told = Range(dms) \ {n} /\ Told' = Told \cup {n}
      BY <1>1, <1>11, <2>3, <3>1 DEF Told
    <3>3. Told \in SUBSET Numbers /\ \A y \in Told : y < n
      <4>1. \A y \in Range(dms) : y \in Numbers /\ y <= n
        BY <1>0, <1>2, RangeIs DEF DirectRight
      <4>2. ASSUME NEW y \in Told PROVE y \in Numbers /\ y < n
        <5>1. y \in Numbers /\ y \in Nat /\ y <= n /\ y # n
          BY <3>2, <4>1 DEF Numbers
        <5>. QED BY <1>2, <5>1
      <4>. QED BY <4>2
    <3>4. Conversed(hist[Direct], unseeded, liveFrom, Waiting(outbox), Told)
      BY <1>0, <3>1 DEF DirectRight
    <3>5. unseeded \in Seq(Numbers) /\ (hist[Direct] # NoBuf => hist[Direct] \in Seq(Numbers)) /\ liveFrom <= n
      BY <1>0 DEF Types, Seeded, DirectRight
    <3>6. Conversed(hist[Direct], unseeded, IF liveFrom = 0 THEN n ELSE liveFrom, Waiting(outbox) \cup {n}, Told \cup {n})
      BY <1>2, <3>3, <3>4, <3>5, ConversedGrows
    <3>7. Waiting(outbox') = Waiting(outbox) \cup {n} /\ liveFrom' = IF liveFrom = 0 THEN n ELSE liveFrom
      BY <1>4, <1>9, <2>1, <2>3
    <3>8. Conversed(hist[Direct], unseeded, liveFrom, Waiting(outbox), Told)'
      BY <1>1, <3>2, <3>6, <3>7
    <3>. QED BY <1>0, <1>1, <1>10, <1>11, <3>8 DEF DirectRight
  <2>. QED BY <2>2, <2>3
<1>18. ChannelsRight'
  BY <1>0, <1>1, <1>13, ChannelsLeft
<1>19. Dispatching'
  BY <1>0, <1>1, <1>13, DispatchingLeft
<1>. QED BY <1>11, <1>12, <1>14, <1>15, <1>16, <1>17, <1>18, <1>19 DEF Core

\* The fan-outs of the loop.
LEMMA FanoutRight == ASSUME Core, Inv, Fanout PROVE link' = "gone" \/ Core'
BY LockRight, CommitStaysRight, CommitTurnsRight, CommitFailsRight, QuitFailsRight, LateAppendRight, UnreplayableEnds,
   QueueRight DEF Fanout

\* The commands and the dispatches.
LEMMA OthersRight == ASSUME Core, Inv, SessionCommands \/ Dispatches PROVE Core'
<1>1. ASSUME SessionCommands PROVE Core'
  BY <1>1, CommandsRight, MessageRight
<1>2. ASSUME Dispatches PROVE Core'
  BY <1>2, DispatchesRight, AnnouncementsRight DEF Dispatches
<1>. QED BY <1>1, <1>2
---------------------------------------------------------------------------
(* The client attaches. *)

(* m attaches. *)
LEMMA SubscribeRight == ASSUME Core, Inv, Subscribe PROVE Core'
<1>0. Types /\ PlanRight /\ Held /\ Numbering /\ Attached /\ DirectRight /\ ChannelsRight /\ Dispatching
  BY DEF Core
<1>1. /\ link = "off" /\ link' = "on" /\ blocked' = TRUE
      /\ UNCHANGED <<anon, n, inM, scrollback, dms, outbox, ranges, epoch, liveFrom, loop, disp, locks, dmMu, load, hist, unseeded, untold>>
  BY DEF Subscribe, events, members, store, client, mutexes
<1>2. load.pc = "none" /\ outbox = <<>> /\ liveFrom = 0 /\ unseeded = <<>> /\ hist[Direct] = NoBuf
  BY <1>0, <1>1 DEF Attached, Seeded
<1>3. Types'
  BY <1>0, <1>1 DEF Types, Seeded
<1>4. loop.routes = <<>> /\ loop.kind \notin Directs /\ loop.kind \notin {"part", "selfjoin"}
  BY <1>0, <1>1 DEF PlanRight, RoutesRight
<1>5. PlanRight'
  <2>1. RoutesRight(loop.kind, loop.win, loop.routes)'
    BY <1>0, <1>1, <1>4 DEF PlanRight, RoutesRight
  <2>. QED BY <1>0, <1>1, <2>1 DEF PlanRight
<1>6. Held'
  BY <1>0, <1>1 DEF Held, NeedsM
<1>7. Coming' = Coming /\ Coming = <<>> /\ Spared' = Spared
  <2>1. Coming = outbox
    BY <1>0, <1>4, ComingIs
  <2>. QED BY <1>1, <1>2, <2>1 DEF Coming, Pending, Spared
<1>8. Numbering'
  BY <1>0, <1>1, <1>7, NumberingLeft
<1>9. Attached'
  BY <1>0, <1>1, <1>2 DEF Attached
<1>10. DirectRight'
  <2>1. Waiting(<<>>) = {} /\ Rising(<<>>) /\ Range(<<>>) = {}
    <3>1. <<>> \in Seq(Numbers) /\ Len(<<>>) = 0
      OBVIOUS
    <3>. DEFINE s == <<>>
    <3>2. s \in Seq(Numbers) /\ Len(s) = 0
      BY <3>1
    <3>. HIDE DEF s
    <3>3. \A x \in Range(s) : \E i \in 1..Len(s) : s[i] = x
      BY <3>2, RangeIs
    <3>4. Range(s) = {}
      BY <3>2, <3>3
    <3>5. Rising(s) /\ Waiting(s) = {}
      BY <3>2 DEF Rising, Waiting, DirectAt
    <3>. QED BY <3>4, <3>5 DEF s
  <2>2. Conversed(NoBuf, <<>>, 0, {}, Told)
    BY <2>1 DEF Conversed
  <2>3. Conversed(hist[Direct], unseeded, liveFrom, Waiting(outbox), Told)'
    <3>1. Told' = Told
      BY <1>1 DEF Told
    <3>. QED BY <1>1, <1>2, <2>1, <2>2, <3>1
  <2>. QED BY <1>0, <1>1, <2>3 DEF DirectRight
<1>11. ChannelsRight'
  <2>1. ASSUME NEW c PROVE Ahead(<<>>, scrollback[c], c)
    <3>1. FilesAt(<<>>, c) = {} /\ MovesAt(<<>>, c) = {}
      BY DEF FilesAt, MovesAt
    <3>. QED BY <3>1 DEF Ahead
  <2>2. \A c : ~HistoryLoaded(c)'
    BY <1>1, <1>2 DEF HistoryLoaded
  <2>3. \A c : Ahead(Coming, scrollback[c], c)'
    BY <1>1, <1>7, <2>1
  <2>4. load'.pc # "read"
    BY <1>1, <1>2
  <2>. QED BY <2>2, <2>3, <2>4 DEF ChannelsRight, ChannelRight
<1>12. Dispatching'
  <2>1. Len(Coming') = 0
    BY <1>7
  <2>. QED BY <1>0, <1>1, <2>1 DEF Dispatching
<1>. QED BY <1>3, <1>5, <1>6, <1>8, <1>9, <1>10, <1>11, <1>12 DEF Core

\* The steps of the load that read nothing.
LEMMA LoadMoves ==
  ASSUME Core, Inv, link = "on", load.pc \in {"none", "next", "replies"}, load' \in LoadTypes, load'.pc \in {"next", "read"},
         load'.pc = "read" => locks'["m"] = "load" /\ load'.win \in load'.todo,
         locks' = locks \/ (locks["m"] = "free" /\ locks'["m"] = "load"),
         \A c \in inM : HistoryLoaded(c)' <=> HistoryLoaded(c),
         load'.pc = "read" => ReadsUpTo(Coming, scrollback[load'.win], load'.before, load'.win),
         UNCHANGED <<anon, n, inM, scrollback, dms, link, blocked, outbox, ranges, epoch, liveFrom, loop, disp, dmMu, hist, unseeded, untold>>
  PROVE  Core'
<1>0. Types /\ PlanRight /\ Held /\ Numbering /\ Attached /\ DirectRight /\ ChannelsRight /\ Dispatching
  BY DEF Core
<1>1. Types'
  BY <1>0 DEF Types, Seeded
<1>2. PlanRight'
  <2>1. loop.kind \notin {"part", "selfjoin"}
    BY <1>0 DEF PlanRight, RoutesRight
  <2>2. RoutesRight(loop.kind, loop.win, loop.routes)'
    BY <1>0, <2>1 DEF PlanRight, RoutesRight
  <2>. QED BY <1>0, <2>2 DEF PlanRight
<1>3. Held'
  BY <1>0 DEF Held, NeedsM
<1>4. Coming' = Coming /\ Spared' = Spared
  BY DEF Coming, Pending, Spared
<1>5. Numbering'
  BY <1>0, <1>4, NumberingLeft
<1>6. Attached'
  BY <1>0 DEF Attached
<1>7. DirectRight'
  <2>1. n \in Nat /\ Waiting(outbox)' = Waiting(outbox)
    BY <1>0 DEF Types, Numbers
  <2>. QED BY <1>0, <2>1, DirectLeft
<1>8. ChannelsRight'
  <2>1. SUFFICES ASSUME NEW c \in inM PROVE ChannelRight(c)'
    BY DEF ChannelsRight
  <2>2. ChannelRight(c)
    BY <1>0 DEF ChannelsRight
  <2>3. HistoryLoaded(c)' => Matches(hist, Coming, scrollback[c], c)'
    BY <1>4, <2>2 DEF ChannelRight
  <2>4. ~HistoryLoaded(c)' => Ahead(Coming, scrollback[c], c)'
    BY <1>4, <2>2 DEF ChannelRight
  <2>5. load'.pc = "read" /\ load'.win = c => ReadsUpTo(Coming', scrollback'[c], load'.before, c)
    BY <1>4
  <2>. QED BY <2>3, <2>4, <2>5 DEF ChannelRight
<1>9. Dispatching'
  BY <1>0, <1>4, DispatchingLeft
<1>. QED BY <1>1, <1>2, <1>3, <1>5, <1>6, <1>7, <1>8, <1>9 DEF Core

\* The channels m is in are what it has to read.
LEMMA ListChannelsRight == ASSUME Core, Inv, ListChannels PROVE Core'
<1>0. Types
  BY DEF Core
<1>1. /\ link = "on" /\ load.pc = "none" /\ load' = [load EXCEPT !.pc = "next", !.todo = inM]
      /\ UNCHANGED <<anon, n, inM, scrollback, dms, link, blocked, outbox, ranges, epoch, liveFrom, loop, disp, locks, dmMu, hist, unseeded, untold>>
  BY DEF ListChannels, events, members, store, queue, mutexes
<1>2. load \in LoadTypes /\ inM \in SUBSET Chans
  BY <1>0 DEF Types
<1>3. load' \in LoadTypes /\ load'.pc = "next" /\ load'.todo = inM
  BY <1>1, <1>2 DEF LoadTypes
<1>4. \A c \in inM : ~HistoryLoaded(c) /\ ~HistoryLoaded(c)'
  BY <1>1, <1>3 DEF HistoryLoaded
<1>. QED BY <1>1, <1>3, <1>4, LoadMoves

\* A window whose replies are read is loaded.
LEMMA RepliesRight == ASSUME Core, Inv, Replies PROVE link' = "gone" \/ Core'
<1>0. Types /\ Attached
  BY DEF Core
<1>1. CASE AttachFails
  BY <1>1 DEF AttachFails
<1>2. CASE load' = [load EXCEPT !.pc = "next", !.todo = @ \ {load.win}] /\ UNCHANGED <<queue, hist, unseeded>>
  <2>1. /\ link = "on" /\ load.pc = "replies"
        /\ UNCHANGED <<anon, n, inM, scrollback, dms, link, blocked, outbox, ranges, epoch, liveFrom, loop, disp, locks, dmMu, hist, unseeded, untold>>
    BY <1>2 DEF Replies, events, members, store, queue, mutexes
  <2>2. load \in LoadTypes
    BY <1>0 DEF Types
  <2>3. load' \in LoadTypes /\ load'.pc = "next" /\ load'.todo = load.todo \ {load.win}
    BY <1>2, <2>2 DEF LoadTypes
  <2>4. \A c \in inM : HistoryLoaded(c)' <=> HistoryLoaded(c)
    BY <2>1, <2>3 DEF HistoryLoaded
  <2>. QED BY <2>1, <2>3, <2>4, LoadMoves
<1>. QED BY <1>1, <1>2 DEF Replies

\* A read ends before the first row that waits, and all that follows it waits.
LEMMA FirstQueuedIs ==
  ASSUME Core, NEW c \in Chans, blocked, Coming = outbox, Ahead(Coming, scrollback[c], c)
  PROVE  FirstQueued(c) \in Nat /\ ReadsUpTo(Coming, scrollback[c], FirstQueued(c), c)
<1>. DEFINE q == outbox
            r == scrollback[c]
            f == FilesAt(q, c)
<1>0. Types /\ Numbering
  BY DEF Core
<1>1. q \in Seq(Deliveries) /\ r \in Seq(Numbers) /\ n \in Nat
  BY <1>0 DEF Types, Numbers
<1>2. InOrder(q) /\ \A x \in Range(r) : x \in Nat /\ x <= n
  <2>1. InOrder(q) /\ \A x \in Range(r) : x <= n
    BY <1>0 DEF Numbering
  <2>. QED BY <1>1, <2>1, RangeIs DEF Numbers
<1>3. {i \in DOMAIN q : c \in q[i].ids} = f
  <2>1. DOMAIN q = 1..Len(q)
    BY <1>1, LenProperties
  <2>2. ASSUME NEW i \in 1..Len(q), c \in q[i].ids PROVE i \in f
    <3>1. q[i] \in Deliveries
      BY <1>1, ElementOfSeq
    <3>2. q[i].kind \in Rows /\ c \in q[i].wins
      BY <2>2, <3>1 DEF Deliveries, Fits, Kinds
    <3>3. q[i].kind \notin {"part", "kick", "started", "done"}
      BY <3>2 DEF Rows
    <3>. QED BY <3>2, <3>3 DEF FilesAt, Files
  <2>3. \A i \in f : i \in 1..Len(q) /\ c \in q[i].ids
    BY <1>1, FilesFit
  <2>. QED BY <2>1, <2>2, <2>3
<1>4. FirstQueued(c) = IF f # {} THEN q[Min(f)].id ELSE n + 1
  BY <1>3 DEF FirstQueued
<1>5. \A i \in f : i \in 1..Len(q) /\ i \in Nat /\ c \in q[i].wins /\ q[i].id \in Nat /\ q[i].id # 0 /\ q[i].id \in Range(r)
  <2>1. \A i \in f : i \in 1..Len(q) /\ c \in q[i].wins /\ q[i].id \in Numbers
    BY <1>1, FilesFit
  <2>2. \A i \in f : q[i].id \in Range(r)
    BY DEF Ahead
  <2>. QED BY <2>1, <2>2 DEF Numbers
<1>6. \A i \in f, x \in Range(r) : x >= q[i].id => \E j \in f : x = q[j].id
  BY DEF Ahead
<1>. HIDE DEF f, q, r
<1>7. CASE f = {}
  <2>1. FirstQueued(c) = n + 1
    BY <1>4, <1>7
  <2>2. \A y \in Range(r) : ~(y >= n + 1)
    BY <1>1, <1>2
  <2>. QED BY <1>1, <1>7, <2>1, <2>2 DEF ReadsUpTo, q, r, f
<1>8. CASE f # {}
  <2>1. \E x \in f : \A y \in f : x <= y
    BY <1>5, <1>8, LeastNumber
  <2>2. Min(f) \in f /\ \A y \in f : Min(f) <= y
    BY <2>1 DEF Min
  <2>. DEFINE p == Min(f)
  <2>3. p \in f /\ (\A y \in f : p <= y) /\ FirstQueued(c) = q[p].id
    BY <1>4, <1>8, <2>2
  <2>. HIDE DEF p
  <2>4. ASSUME NEW i \in f PROVE q[i].id >= q[p].id
    <3>1. CASE i = p
      BY <1>5, <2>3, <3>1
    <3>2. CASE i # p
      <4>1. p < i
        BY <1>5, <2>3, <3>2
      <4>2. q[p].wins \cap q[i].wins # {}
        BY <1>5, <2>3
      <4>3. q[p].id < q[i].id
        BY <1>2, <1>5, <2>3, <4>1, <4>2 DEF InOrder
      <4>. QED BY <1>5, <2>3, <4>3
    <3>. QED BY <3>1, <3>2
  <2>5. ASSUME NEW y \in Range(r) PROVE y >= q[p].id <=> \E i \in f : y = q[i].id
    <3>1. y >= q[p].id => \E i \in f : y = q[i].id
      BY <1>6, <2>3
    <3>2. (\E i \in f : y = q[i].id) => y >= q[p].id
      BY <2>4
    <3>. QED BY <3>1, <3>2
  <2>6. q[p].id \in Nat
    BY <1>5, <2>3
  <2>. QED BY <2>3, <2>5, <2>6 DEF ReadsUpTo, q, r, f
<1>. QED BY <1>7, <1>8

\* A read begins under m's replay lock and ends before the first row queued.
LEMMA ScrollbackBeginRight == ASSUME Core, Inv, NEW c \in Chans, ScrollbackBegin(c) PROVE link' = "gone" \/ Core'
<1>0. Types /\ Held /\ ChannelsRight /\ Attached
  BY DEF Core
<1>1. CASE AttachFails
  BY <1>1 DEF AttachFails
<1>2. CASE c \in inM /\ ~AttachFails
  <2>1. /\ load.pc = "next" /\ c \in load.todo /\ link = "on"
        /\ locks["m"] = "free" /\ locks' = [locks EXCEPT !["m"] = "load"]
        /\ load' = [load EXCEPT !.pc = "read", !.win = c, !.before = FirstQueued(c), !.epoch = epoch[c]]
        /\ UNCHANGED <<anon, n, inM, scrollback, dms, link, blocked, outbox, ranges, epoch, liveFrom, loop, disp, dmMu, hist, unseeded, untold>>
    BY <1>2 DEF ScrollbackBegin, Free, events, members, store, queue
  <2>2. load \in LoadTypes /\ epoch[c] \in Nat
    BY <1>0 DEF Types
  <2>3. locks'["m"] = "load"
    BY <2>1 DEF Inv, Clients
  <2>4. Coming = outbox
    BY <1>0, <2>1, NothingPending
  <2>5. blocked = TRUE
    BY <1>0, <2>1 DEF Attached, Types
  <2>6. Ahead(Coming, scrollback[c], c)
    <3>1. ~HistoryLoaded(c)
      BY <2>1 DEF HistoryLoaded
    <3>. QED BY <1>0, <1>2, <2>1, <3>1 DEF ChannelsRight, ChannelRight
  <2>7. FirstQueued(c) \in Nat /\ ReadsUpTo(Coming, scrollback[c], FirstQueued(c), c)
    BY <2>4, <2>5, <2>6, FirstQueuedIs
  <2>. DEFINE x == FirstQueued(c)
  <2>8. load' = [load EXCEPT !.pc = "read", !.win = c, !.before = x, !.epoch = epoch[c]] /\ x \in Nat
    BY <2>1, <2>7
  <2>. HIDE DEF x
  <2>9. load' \in LoadTypes /\ load'.pc = "read" /\ load'.win = c /\ load'.before = x /\ load'.todo = load.todo
    BY <2>2, <2>8 DEF LoadTypes
  <2>10. \A d \in inM : HistoryLoaded(d)' <=> HistoryLoaded(d)
    BY <2>1, <2>9 DEF HistoryLoaded
  <2>11. ReadsUpTo(Coming, scrollback[load'.win], load'.before, load'.win) /\ load'.win \in load'.todo
    BY <2>1, <2>7, <2>9 DEF x
  <2>. QED BY <2>1, <2>3, <2>9, <2>10, <2>11, LoadMoves
<1>. QED BY <1>1, <1>2 DEF ScrollbackBegin

\* A window's history decides whether it matches.
LEMMA MatchesSame ==
  ASSUME NEW g, NEW h, NEW q, NEW r, NEW c, g[c] = h[c], Matches(h, q, r, c)
  PROVE  Matches(g, q, r, c)
<1>1. Left(g, q, c) = Left(h, q, c)
  BY DEF Left
<1>. QED BY <1>1 DEF Matches

\* The last of the rows that are read comes before all that wait.
LEMMA LastRead ==
  ASSUME NEW r \in Seq(Numbers), Rising(r), NEW x \in Nat, Before(r, x) # <<>>
  PROVE  LET s == Before(r, x) IN
         /\ s \in Seq(Numbers) /\ s[1] \in Nat /\ Last(s) \in Nat /\ Last(s) \in Range(r) /\ Last(s) < x
<1>. DEFINE s == Before(r, x)
<1>1. s \in Seq(Numbers) /\ Range(s) = {y \in Range(r) : y < x}
  BY BeforeIs, NumbersAreNat
<1>. HIDE DEF s
<1>2. s # <<>>
  BY DEF s
<1>3. Len(s) \in Nat /\ Len(s) # 0
  BY <1>1, <1>2, LenProperties, EmptySeq
<1>4. 1 \in 1..Len(s) /\ Len(s) \in 1..Len(s)
  BY <1>3
<1>5. s[1] \in Numbers /\ s[Len(s)] \in Numbers
  BY <1>1, <1>4, ElementOfSeq
<1>6. s[Len(s)] \in Range(s)
  BY <1>1, <1>4, RangeIs
<1>7. Last(s) = s[Len(s)]
  BY DEF Last
<1>. QED BY <1>1, <1>5, <1>6, <1>7 DEF Numbers, s

\* The rows read and the rows queued are, together, the rows of the store.
LEMMA ScrollbackReadRight == ASSUME Core, Inv, ScrollbackRead PROVE link' = "gone" \/ Core'
<1>. DEFINE c == load.win
            stored == Before(scrollback[c], load.before)
<1>0. Types /\ PlanRight /\ Held /\ Numbering /\ Attached /\ DirectRight /\ ChannelsRight /\ Dispatching
  BY DEF Core
<1>1. CASE AttachFails
  BY <1>1 DEF AttachFails
<1>2. CASE ~AttachFails
  <2>1. /\ load.pc = "read" /\ link = "on" /\ c \in inM /\ locks' = Unlocked("load")
        /\ hist' = [hist EXCEPT ![c] = stored]
        /\ ranges' = IF blocked /\ stored # <<>> THEN [ranges EXCEPT ![c] = <<stored[1], Last(stored)>>] ELSE ranges
        /\ load' = [load EXCEPT !.pc = "replies"]
        /\ UNCHANGED <<anon, n, inM, scrollback, dms, link, blocked, outbox, epoch, liveFrom, loop, disp, dmMu, unseeded, untold>>
    BY <1>2 DEF ScrollbackRead, events, members, store
  <2>2. load \in LoadTypes /\ inM \in SUBSET Chans /\ n \in Nat
    BY <1>0 DEF Types, Numbers
  <2>3. load' \in LoadTypes /\ load'.pc = "replies" /\ load'.win = load.win /\ load'.todo = load.todo
    BY <2>1, <2>2 DEF LoadTypes
  <2>4. load.before \in Nat /\ c \in Chans /\ c \in load.todo
    BY <1>0, <2>1, <2>2 DEF LoadTypes, Attached
  <2>5. scrollback[c] \in Seq(Numbers) /\ Rising(scrollback[c])
    BY <1>0, <2>4 DEF Types, Numbering
  <2>6. stored \in Seq(Numbers)
    BY <2>5, NumbersAreNat, BeforeIs
  <2>7. locks["m"] = "load" /\ Coming = outbox /\ Coming \in Seq(Deliveries)
    BY <1>0, <2>1, NothingPending, LockIsHeld, ComingIs
  <2>8. ~HistoryLoaded(c) /\ ChannelRight(c)
    BY <1>0, <2>1, <2>4 DEF HistoryLoaded, ChannelsRight
  <2>9. Ahead(Coming, scrollback[c], c) /\ ReadsUpTo(Coming, scrollback[c], load.before, c)
    BY <2>1, <2>8 DEF ChannelRight
  <2>10. stored # <<>> => /\ stored[1] \in Nat /\ Last(stored) \in Nat /\ Last(stored) \in Range(scrollback[c])
                          /\ Last(stored) < load.before
    BY <2>4, <2>5, LastRead
  <2>11. hist'[c] = stored /\ (\A w \in Windows : w # c => hist'[w] = hist[w]) /\ hist' = [w \in Windows |-> hist'[w]]
         /\ hist'[Direct] = hist[Direct]
    <3>1. hist = [w \in Windows |-> hist[w]] /\ c \in Windows /\ Direct \in Windows /\ Direct # c
      BY <1>0, <2>4, ReplayAssumption DEF Types, Windows, Direct
    <3>2. \A f, x : f = [w \in Windows |-> f[w]] =>
             LET g == [f EXCEPT ![c] = x] IN
             g[c] = x /\ (\A w \in Windows : w # c => g[w] = f[w]) /\ g = [w \in Windows |-> g[w]]
      BY <3>1
    <3>3. /\ hist'[c] = stored /\ (\A w \in Windows : w # c => hist'[w] = hist[w])
          /\ hist' = [w \in Windows |-> hist'[w]]
      BY <2>1, <3>1, <3>2
    <3>. QED BY <3>1, <3>3
  <2>. HIDE DEF stored
  <2>12. /\ ranges' \in [Chans -> Nat \X Nat]
         /\ \A d \in Chans : \/ ranges'[d] = ranges[d]
                             \/ d = c /\ stored # <<>> /\ ranges'[d][2] = Last(stored)
    <3>1. ranges \in [Chans -> Nat \X Nat]
      BY <1>0 DEF Types
    <3>2. CASE blocked /\ stored # <<>>
      <4>. DEFINE p == <<stored[1], Last(stored)>>
      <4>1. p \in Nat \X Nat /\ p[2] = Last(stored)
        BY <2>10, <3>2
      <4>. HIDE DEF p
      <4>2. ranges' = [ranges EXCEPT ![c] = p]
        BY <2>1, <3>2 DEF p
      <4>. QED BY <2>4, <3>1, <3>2, <4>1, <4>2
    <3>3. CASE ~(blocked /\ stored # <<>>)
      BY <2>1, <3>1, <3>3
    <3>. QED BY <3>2, <3>3
  <2>13. Types'
    <3>1. \A d \in Chans : Known(hist'[d]) \in Seq(Numbers)
      <4>1. Known(stored) = stored
        BY <2>6, KnownIs
      <4>2. \A d \in Chans : d \in Windows /\ Known(hist[d]) \in Seq(Numbers)
        BY <1>0 DEF Types, Windows
      <4>3. SUFFICES ASSUME NEW d \in Chans PROVE Known(hist'[d]) \in Seq(Numbers)
        OBVIOUS
      <4>4. CASE d = c
        BY <2>6, <2>11, <4>1, <4>4
      <4>5. CASE d # c
        BY <2>11, <4>2, <4>5
      <4>. QED BY <4>4, <4>5
    <3>2. Seeded' => hist'[Direct] \in Seq(Numbers)
      BY <1>0, <2>11 DEF Types, Seeded
    <3>. QED BY <1>0, <2>1, <2>3, <2>11, <2>12, <3>1, <3>2 DEF Types
  <2>14. PlanRight'
    <3>1. loop.kind \notin {"part", "selfjoin"}
      BY <1>0, <2>1 DEF PlanRight, RoutesRight
    <3>2. RoutesRight(loop.kind, loop.win, loop.routes)'
      BY <1>0, <2>1, <3>1 DEF PlanRight, RoutesRight
    <3>. QED BY <1>0, <2>1, <3>2 DEF PlanRight
  <2>15. Held'
    <3>1. NeedsM' <=> NeedsM
      BY <2>1 DEF NeedsM
    <3>2. NeedsM => loop.need # <<>> /\ Head(loop.need) = "m"
      BY <1>0, <2>7 DEF Held
    <3>3. disp.pc \in {"lock", "relock"} => disp.need # <<>> /\ Head(disp.need) = "m"
      BY <1>0, <2>7 DEF Held
    <3>. QED BY <2>1, <2>3, <3>1, <3>2, <3>3 DEF Held
  <2>16. Coming' = Coming /\ Spared' = Spared
    BY <2>1 DEF Coming, Pending, Spared
  <2>17. Numbering'
    <3>1. \A d \in Chans : ranges'[d][2] <= n
      <4>1. \A x \in Range(scrollback[c]) : x <= n
        BY <1>0, <2>4 DEF Numbering
      <4>. QED BY <1>0, <2>10, <2>12, <4>1 DEF Numbering
    <3>2. ASSUME NEW d \in Chans, NEW i \in 1..Len(Coming), d \in Coming[i].ids PROVE ranges'[d][2] < Coming[i].id
      <4>1. CASE ranges'[d] = ranges[d]
        BY <1>0, <3>2, <4>1 DEF Numbering
      <4>2. CASE d = c /\ stored # <<>> /\ ranges'[d][2] = Last(stored)
        <5>1. Coming[i] \in Deliveries
          BY <2>7, ElementOfSeq
        <5>2. Coming[i].kind \in Rows /\ c \in Coming[i].wins /\ Coming[i].id \in Nat
          BY <3>2, <4>2, <5>1 DEF Deliveries, Fits, Kinds
        <5>3. i \in FilesAt(Coming, c)
          BY <5>2 DEF FilesAt, Files, Rows
        <5>4. Coming[i].id \in Range(scrollback[c])
          BY <2>9, <5>3 DEF Ahead
        <5>5. Coming[i].id >= load.before
          BY <2>9, <5>3, <5>4 DEF ReadsUpTo
        <5>. QED BY <2>4, <2>10, <4>2, <5>2, <5>5
      <4>. QED BY <2>12, <4>1, <4>2
    <3>3. ASSUME NEW d \in Spared PROVE Fresh(d)'
      <4>1. Fresh(d) /\ d \in Chans
        <5>1. anon \in SUBSET Chans
          BY <1>0 DEF Types
        <5>. QED BY <1>0, <5>1 DEF Numbering, Spared
      <4>2. ranges'[d][2] < n
        <5>1. CASE ranges'[d] = ranges[d]
          BY <4>1, <5>1 DEF Fresh
        <5>2. CASE d = c /\ stored # <<>> /\ ranges'[d][2] = Last(stored)
          BY <2>10, <4>1, <5>2 DEF Fresh
        <5>. QED BY <2>12, <4>1, <5>1, <5>2
      <4>. QED BY <2>1, <2>16, <4>1, <4>2 DEF Fresh
    <3>. QED BY <1>0, <2>1, <2>16, <3>1, <3>2, <3>3 DEF Numbering
  <2>18. Attached'
    BY <1>0, <2>1, <2>3, <2>4 DEF Attached
  <2>19. DirectRight'
    <3>1. Told' = Told /\ Waiting(outbox)' = Waiting(outbox)
      BY <2>1 DEF Told
    <3>2. Conversed(hist[Direct], unseeded, liveFrom, Waiting(outbox), Told)
      BY <1>0, <2>1 DEF DirectRight
    <3>3. Conversed(hist[Direct], unseeded, liveFrom, Waiting(outbox), Told)'
      BY <2>1, <2>11, <3>1, <3>2
    <3>. QED BY <1>0, <2>1, <3>3 DEF DirectRight
  <2>20. ChannelsRight'
    <3>1. SUFFICES ASSUME NEW d \in inM PROVE ChannelRight(d)'
      BY <2>1 DEF ChannelsRight
    <3>2. d \in Chans /\ d \in Windows /\ ChannelRight(d)
      BY <1>0, <2>1, <2>2 DEF ChannelsRight, Windows
    <3>3. CASE d = c
      <4>1. MovesAt(Coming, c) = {} /\ \A i \in FilesAt(Coming, c) : Coming[i].id \in Range(scrollback[c])
        BY <2>9 DEF Ahead
      <4>2. \A x \in Range(scrollback[c]) : x >= load.before <=> \E i \in FilesAt(Coming, c) : x = Coming[i].id
        BY <2>9 DEF ReadsUpTo
      <4>3. hist'[c] = Before(scrollback[c], load.before)
        BY <2>11 DEF stored
      <4>4. Matches(hist', Coming, scrollback[c], c)
        BY <2>4, <2>5, <2>7, <4>1, <4>2, <4>3, MatchesLoad
      <4>5. Matches(hist, Coming, scrollback[d], d)'
        BY <2>1, <2>16, <3>3, <4>4
      <4>6. HistoryLoaded(d)'
        BY <2>3, <3>3 DEF HistoryLoaded
      <4>. QED BY <4>5, <4>6 DEF ChannelRight
    <3>4. CASE d # c
      <4>1. HistoryLoaded(d)' <=> HistoryLoaded(d)
        BY <2>1, <2>3, <3>4 DEF HistoryLoaded
      <4>2. hist'[d] = hist[d]
        BY <2>11, <3>2, <3>4
      <4>3. HistoryLoaded(d) => Matches(hist', Coming, scrollback[d], d)
        BY <3>2, <4>2, MatchesSame DEF ChannelRight
      <4>4. HistoryLoaded(d)' => Matches(hist, Coming, scrollback[d], d)'
        BY <2>1, <2>16, <4>1, <4>3
      <4>5. ~HistoryLoaded(d)' => Ahead(Coming, scrollback[d], d)'
        BY <2>1, <2>16, <3>2, <4>1 DEF ChannelRight
      <4>6. load'.pc # "read"
        BY <2>3
      <4>. QED BY <4>4, <4>5, <4>6 DEF ChannelRight
    <3>. QED BY <3>3, <3>4
  <2>21. Dispatching'
    BY <1>0, <2>1, <2>16, DispatchingLeft
  <2>. QED BY <2>13, <2>14, <2>15, <2>17, <2>18, <2>19, <2>20, <2>21 DEF Core
<1>. QED BY <1>1, <1>2

\* Nothing that waits was read, so all of it stays.
LEMMA AllKept ==
  ASSUME NEW q \in Seq(Deliveries), ranges \in [Chans -> Nat \X Nat],
         \A i \in 1..Len(q), c \in Chans : c \in q[i].ids => ranges[c][2] < q[i].id
  PROVE  KeptAll(q) = q
<1>1. \A i \in 1..Len(q) : q[i] \in Deliveries
  BY ElementOfSeq
<1>2. ASSUME NEW i \in 1..Len(q), NEW c \in q[i].ids PROVE ~Replayed(q[i], c)
  <2>1. c \in Chans /\ q[i].id \in Nat
    BY <1>1 DEF Deliveries
  <2>2. ranges[c][2] \in Nat /\ ranges[c][2] < q[i].id
    BY <2>1
  <2>. QED BY <2>1, <2>2 DEF Replayed
<1>3. \A i \in 1..Len(q) : Keeps(q[i])
  BY <1>2 DEF Keeps
<1>4. \A i \in 1..Len(q) : AfterReplay(q[i]) = q[i]
  <2>1. SUFFICES ASSUME NEW i \in 1..Len(q) PROVE AfterReplay(q[i]) = q[i]
    OBVIOUS
  <2>. DEFINE x == q[i]
              w == {v \in x.wins : ~(v \in x.ids /\ Replayed(x, v))}
  <2>2. w = x.wins
    BY <1>2
  <2>3. AfterReplay(x) = x \/ AfterReplay(x) = [x EXCEPT !.wins = w]
    BY DEF AfterReplay
  <2>. HIDE DEF w
  <2>4. x \in [kind : Kinds, wins : SUBSET Windows, ids : SUBSET Chans, id : Nat]
    BY <1>1 DEF Deliveries
  <2>. HIDE DEF x
  <2>5. [x EXCEPT !.wins = w] = x
    BY <2>2, <2>4
  <2>. QED BY <2>3, <2>5 DEF x
<1>5. DOMAIN q = 1..Len(q)
  BY LenProperties
<1>6. Those(q, Keeps) = q
  <2>1. {i \in DOMAIN q : Keeps(q[i])} = 1..Len(q)
    BY <1>3, <1>5
  <2>. QED BY <2>1, AllSelected DEF Those
<1>7. KeptAll(q) = [i \in DOMAIN q |-> AfterReplay(q[i])]
  BY <1>6 DEF KeptAll
<1>8. q = [i \in DOMAIN q |-> q[i]]
  BY LenProperties
<1>. QED BY <1>4, <1>5, <1>7, <1>8

\* A delivery that was projected has a number.
LEMMA ProjectedIs ==
  ASSUME NEW q \in Seq(Deliveries), NEW i \in 1..Len(q), NEW c \in q[i].ids
  PROVE  q[i].id \in Nat /\ q[i].id > 0
<1>1. q[i] \in Deliveries
  BY ElementOfSeq
<1>2. q[i].kind \notin Signs /\ q[i].id \in Nat
  BY <1>1 DEF Deliveries, Fits
<1>3. q[i].id # 0
  BY <1>1, <1>2 DEF Deliveries
<1>. QED BY <1>2, <1>3

\* What waits comes first in what is to come.
LEMMA WaitsFirst ==
  ASSUME Types
  PROVE  /\ outbox \in Seq(Deliveries) /\ Len(outbox) \in Nat
         /\ \A i \in 1..Len(outbox) : i \in 1..Len(Coming) /\ Coming[i] = outbox[i]
<1>1. outbox \in Seq(Deliveries) /\ Pending \in Seq(Deliveries)
  BY ComingIs DEF Types
<1>. QED BY <1>1, Joined DEF Coming

\* The replay takes no delivery from the queue: none of them was read.
LEMMA KeepsWaiting == ASSUME Types, Numbering PROVE KeptAll(outbox) = outbox
<1>1. ranges \in [Chans -> Nat \X Nat]
  BY DEF Types
<1>2. /\ outbox \in Seq(Deliveries) /\ \A i \in 1..Len(outbox) : i \in 1..Len(Coming) /\ Coming[i] = outbox[i]
  BY WaitsFirst
<1>3. \A i \in 1..Len(outbox), c \in Chans : c \in outbox[i].ids => ranges[c][2] < outbox[i].id
  BY <1>2 DEF Numbering
<1>. QED BY <1>1, <1>2, <1>3, AllKept

\* Activation keeps the queue and opens it.
LEMMA ActivateRight == ASSUME Core, Inv, ActivateClient PROVE Core'
<1>0. Types /\ PlanRight /\ Held /\ Numbering /\ Attached /\ DirectRight /\ ChannelsRight /\ Dispatching
  BY DEF Core
<1>1. /\ load.pc = "next" /\ load.todo = {} /\ link = "on" /\ load' = [load EXCEPT !.pc = "done"]
      /\ outbox' = KeptAll(outbox) /\ blocked' = FALSE /\ ranges' = [c \in Chans |-> NoRange]
      /\ UNCHANGED <<anon, n, inM, scrollback, dms, link, epoch, liveFrom, loop, disp, locks, dmMu, hist, unseeded, untold>>
  BY DEF ActivateClient, events, members, store, mutexes
<1>2. load \in LoadTypes
  BY <1>0 DEF Types
<1>3. load' \in LoadTypes /\ load'.pc = "done" /\ load'.todo = {} /\ load'.win = load.win
  BY <1>1, <1>2 DEF LoadTypes
<1>4. outbox' = outbox
  BY <1>0, <1>1, KeepsWaiting
<1>5. ranges' \in [Chans -> Nat \X Nat] /\ \A c \in Chans : ranges'[c][2] = 0
  <2>. DEFINE p == NoRange
  <2>1. p \in Nat \X Nat /\ p[2] = 0
    BY DEF NoRange
  <2>. HIDE DEF p
  <2>2. ranges' = [c \in Chans |-> p]
    BY <1>1 DEF p
  <2>. QED BY <2>1, <2>2
<1>6. Types'
  BY <1>0, <1>1, <1>3, <1>4, <1>5 DEF Types, Seeded
<1>7. PlanRight'
  <2>1. loop.kind \notin {"part", "selfjoin"}
    BY <1>0, <1>1 DEF PlanRight, RoutesRight
  <2>2. RoutesRight(loop.kind, loop.win, loop.routes)'
    BY <1>0, <1>1, <2>1 DEF PlanRight, RoutesRight
  <2>. QED BY <1>0, <1>1, <2>2 DEF PlanRight
<1>8. Held'
  BY <1>0, <1>1, <1>3 DEF Held, NeedsM
<1>9. Coming' = Coming /\ Spared' = Spared /\ Coming \in Seq(Deliveries) /\ n \in Nat /\ n > 0
  <2>1. Coming' = Coming /\ Spared' = Spared
    BY <1>1, <1>4 DEF Coming, Pending, Spared
  <2>2. Coming \in Seq(Deliveries)
    BY <1>0, ComingIs
  <2>. QED BY <1>0, <2>1, <2>2 DEF Types, Numbers
<1>10. Numbering'
  <2>1. \A i \in 1..Len(Coming), c \in Chans : c \in Coming[i].ids => Coming[i].id \in Nat /\ Coming[i].id > 0
    BY <1>9, ProjectedIs
  <2>2. \A i \in 1..Len(Coming), c \in Chans : c \in Coming[i].ids => ranges'[c][2] < Coming[i].id
    BY <1>5, <2>1
  <2>3. \A c \in Chans : ranges'[c][2] <= n /\ ranges'[c][2] < n
    BY <1>5, <1>9
  <2>4. anon \in SUBSET Chans
    BY <1>0 DEF Types
  <2>5. ASSUME NEW c \in Spared PROVE Fresh(c)'
    <3>1. Fresh(c) /\ c \in Chans
      BY <1>0, <2>4 DEF Numbering, Spared
    <3>. QED BY <1>1, <1>9, <2>3, <3>1 DEF Fresh
  <2>. QED BY <1>0, <1>1, <1>9, <2>2, <2>3, <2>5 DEF Numbering
<1>11. Attached'
  BY <1>0, <1>1, <1>3, <1>4 DEF Attached
<1>12. DirectRight'
  <2>1. n \in Nat /\ Waiting(outbox)' = Waiting(outbox)
    BY <1>4, <1>9
  <2>. QED BY <1>0, <1>1, <2>1, DirectLeft
<1>13. ChannelsRight'
  <2>1. SUFFICES ASSUME NEW c \in inM PROVE ChannelRight(c)'
    BY <1>1 DEF ChannelsRight
  <2>2. ChannelRight(c) /\ HistoryLoaded(c) /\ HistoryLoaded(c)'
    BY <1>0, <1>1, <1>3 DEF ChannelsRight, HistoryLoaded
  <2>3. Matches(hist, Coming, scrollback[c], c)'
    BY <1>1, <1>9, <2>2 DEF ChannelRight
  <2>. QED BY <2>2, <2>3 DEF ChannelRight
<1>14. Dispatching'
  BY <1>0, <1>1, <1>9, DispatchingLeft
<1>. QED BY <1>6, <1>7, <1>8, <1>10, <1>11, <1>12, <1>13, <1>14 DEF Core
---------------------------------------------------------------------------
(* The client reads its queue, a burst at a time. *)

\* A sequence that holds nothing is empty.
LEMMA NothingIn == ASSUME NEW S, NEW s \in Seq(S), Range(s) = {} PROVE s = <<>>
<1>1. \A i \in 1..Len(s) : s[i] \in Range(s)
  BY RangeIs
<1>2. Len(s) = 0
  <2>1. Len(s) \in Nat
    OBVIOUS
  <2>2. Len(s) # 0 => 1 \in 1..Len(s)
    BY <2>1
  <2>. QED BY <1>1, <2>2
<1>. QED BY <1>2

\* A window that is open files what is read after what it has.
LEMMA ConversedFiles ==
  ASSUME NEW h \in Seq(Numbers), NEW d \in Seq(Numbers), Rising(d), NEW u, NEW l, NEW wo, NEW t,
         \A x \in Range(d), y \in wo : x < y, Conversed(h, u, l, Range(d) \cup wo, t), NEW v, NEW m
  PROVE  h \o d \in Seq(Numbers) /\ Conversed(h \o d, v, m, wo, t)
<1>1. h # NoBuf
  BY NumbersSeeded
<1>2. Rising(h) /\ (\A x \in Range(h), y \in Range(d) \cup wo : x < y) /\ Range(h) \cup (Range(d) \cup wo) = t
  BY <1>1 DEF Conversed
<1>3. \A x \in Range(h), y \in Range(d) : x < y
  BY <1>2
<1>4. h \o d \in Seq(Numbers) /\ Rising(h \o d) /\ Range(h \o d) = Range(h) \cup Range(d)
  BY <1>2, <1>3, NumbersAreNat, RisingConcat
<1>5. h \o d # NoBuf
  BY <1>4, NumbersSeeded
<1>6. /\ \A x \in Range(h) \cup Range(d), y \in wo : x < y
      /\ (Range(h) \cup Range(d)) \cup wo = t /\ wo \subseteq t
  BY <1>2
<1>. QED BY <1>4, <1>5, <1>6 DEF Conversed

\* A window that stays closed keeps what is read for when it opens.
LEMMA ConversedKeeps ==
  ASSUME NEW u \in Seq(Numbers), NEW d \in Seq(Numbers), Rising(d), NEW l, NEW wo, NEW t,
         \A x \in Range(d), y \in wo : x < y, Conversed(NoBuf, u, l, Range(d) \cup wo, t)
  PROVE  u \o d \in Seq(Numbers) /\ Conversed(NoBuf, u \o d, l, wo, t)
<1>2. /\ Rising(u) /\ (\A x \in Range(u), y \in Range(d) \cup wo : x < y) /\ Range(u) \subseteq t
      /\ Range(d) \cup wo \subseteq t
      /\ \A x \in t : (l # 0 /\ x >= l) <=> x \in Range(u) \cup (Range(d) \cup wo)
  BY DEF Conversed
<1>3. \A x \in Range(u), y \in Range(d) : x < y
  BY <1>2
<1>4. u \o d \in Seq(Numbers) /\ Rising(u \o d) /\ Range(u \o d) = Range(u) \cup Range(d)
  BY <1>2, <1>3, NumbersAreNat, RisingConcat
<1>5. /\ \A x \in Range(u) \cup Range(d), y \in wo : x < y
      /\ Range(u) \cup Range(d) \subseteq t /\ wo \subseteq t
  BY <1>2
<1>6. \A x \in t : (l # 0 /\ x >= l) <=> x \in (Range(u) \cup Range(d)) \cup wo
  BY <1>2
<1>. QED BY <1>4, <1>5, <1>6 DEF Conversed

\* A window that opens has the log up to the first message that waited, then
\* those that waited.
LEMMA ConversedOpens ==
  ASSUME NEW s \in Seq(Numbers), Rising(s), NEW u \in Seq(Numbers), NEW d \in Seq(Numbers), Rising(d), d # <<>>,
         NEW l \in Nat, NEW wo, \A x \in Range(d), y \in wo : x < y,
         Conversed(NoBuf, u, l, Range(d) \cup wo, Range(s)), NEW v, NEW m
  PROVE  /\ l # 0 /\ (Before(s, l) \o u) \o d \in Seq(Numbers)
         /\ Conversed((Before(s, l) \o u) \o d, v, m, wo, Range(s))
<1>. DEFINE t == Range(s)
            b == Before(s, l)
<1>1. b \in Seq(Numbers) /\ Rising(b) /\ Range(b) = {y \in t : y < l}
  BY NumbersAreNat, BeforeIs
<1>2. t \subseteq Numbers
  BY RangeIs
<1>. HIDE DEF t, b
<1>3. /\ Rising(u) /\ (\A x \in Range(u), y \in Range(d) \cup wo : x < y) /\ Range(u) \subseteq t
      /\ Range(d) \cup wo \subseteq t
      /\ \A x \in t : (l # 0 /\ x >= l) <=> x \in Range(u) \cup (Range(d) \cup wo)
  BY DEF Conversed, t
<1>4. Range(d) # {}
  BY NothingIn
<1>5. l # 0
  BY <1>3, <1>4
<1>6. \A x \in Range(b), y \in Range(u) \cup Range(d) \cup wo : x < y
  <2>1. SUFFICES ASSUME NEW x \in Range(b), NEW y \in Range(u) \cup Range(d) \cup wo PROVE x < y
    OBVIOUS
  <2>2. x \in Nat /\ x < l
    BY <1>1, <1>2, NumbersAreNat
  <2>3. y \in t /\ y \in Range(u) \cup (Range(d) \cup wo)
    BY <1>3
  <2>4. y \in Nat /\ y >= l
    BY <1>2, <1>3, <2>3, NumbersAreNat
  <2>. QED BY <2>2, <2>4
<1>7. \A x \in Range(b), y \in Range(u) : x < y
  BY <1>6
<1>8. b \o u \in Seq(Numbers) /\ Rising(b \o u) /\ Range(b \o u) = Range(b) \cup Range(u)
  BY <1>1, <1>3, <1>7, NumbersAreNat, RisingConcat
<1>. DEFINE e == b \o u
<1>. HIDE DEF e
<1>9. \A x \in Range(e), y \in Range(d) : x < y
  BY <1>3, <1>6, <1>8 DEF e
<1>10. e \o d \in Seq(Numbers) /\ Rising(e \o d) /\ Range(e \o d) = Range(e) \cup Range(d)
  BY <1>8, <1>9, NumbersAreNat, RisingConcat DEF e
<1>11. e \o d # NoBuf
  BY <1>10, NumbersSeeded
<1>12. \A x \in Range(e \o d), y \in wo : x < y
  BY <1>3, <1>6, <1>8, <1>10 DEF e
<1>13. Range(e \o d) \cup wo = t
  <2>1. \A x \in t : x < l \/ x >= l
    BY <1>2, NumbersAreNat
  <2>2. \A x \in t : x \in Range(b) \cup Range(u) \cup Range(d) \cup wo
    BY <1>1, <1>3, <1>5, <2>1
  <2>3. Range(b) \cup Range(u) \cup Range(d) \cup wo \subseteq t
    BY <1>1, <1>3
  <2>. QED BY <1>8, <1>10, <2>2, <2>3 DEF e
<1>14. wo \subseteq t
  BY <1>3
<1>15. Conversed(e \o d, v, m, wo, t)
  BY <1>10, <1>11, <1>12, <1>13, <1>14 DEF Conversed
<1>. QED BY <1>5, <1>10, <1>15 DEF e, b, t

\* A burst is the first of what waits.
LEMMA BurstSplits ==
  ASSUME Types, NEW k \in 1..Len(outbox)
  PROVE  LET a == SubSeq(outbox, 1, k)
             o == SubSeq(outbox, k + 1, Len(outbox))
         IN /\ a \in Seq(Deliveries) /\ o \in Seq(Deliveries)
            /\ outbox = a \o o /\ Coming = a \o (o \o Pending)
<1>. DEFINE a == SubSeq(outbox, 1, k)
            o == SubSeq(outbox, k + 1, Len(outbox))
<1>1. outbox \in Seq(Deliveries) /\ Pending \in Seq(Deliveries)
  BY ComingIs DEF Types
<1>2. Len(outbox) \in Nat /\ k \in Nat
  BY <1>1
<1>3. a \in Seq(Deliveries) /\ o \in Seq(Deliveries)
  <2>1. \A i \in 1..Len(outbox) : outbox[i] \in Deliveries
    BY <1>1, ElementOfSeq
  <2>2. \A i \in 1..k : outbox[i] \in Deliveries
    BY <1>2, <2>1
  <2>3. \A i \in (k + 1)..Len(outbox) : outbox[i] \in Deliveries
    BY <1>2, <2>1
  <2>4. a \in Seq(Deliveries)
    BY <1>1, <1>2, <2>2, SubSeqProperties
  <2>5. o \in Seq(Deliveries)
    BY <1>1, <1>2, <2>3, SubSeqProperties
  <2>. QED BY <2>4, <2>5
<1>4. outbox = a \o o
  <2>1. SubSeq(outbox, 1, k) \o SubSeq(outbox, k + 1, Len(outbox)) = SubSeq(outbox, 1, Len(outbox))
    BY <1>1, <1>2, ConcatAdjacentSubSeq
  <2>2. SubSeq(outbox, 1, Len(outbox)) = outbox
    BY <1>1, SubSeqFull
  <2>. QED BY <2>1, <2>2
<1>. HIDE DEF a, o
<1>5. (a \o o) \o Pending = a \o (o \o Pending)
  <2>1. \A s, t, u \in Seq(Deliveries) : (s \o t) \o u = s \o (t \o u)
    BY ConcatAssociative
  <2>. QED BY <1>1, <1>3, <2>1
<1>6. Coming = (a \o o) \o Pending
  BY <1>4 DEF Coming
<1>. QED BY <1>3, <1>4, <1>5, <1>6 DEF a, o

\* What is read leaves the numbering of the rest.
LEMMA NumberingRead ==
  ASSUME Types, Numbering, NEW a \in Seq(Deliveries), NEW b \in Seq(Deliveries), Coming = a \o b, Coming' = b,
         UNCHANGED <<anon, n, scrollback, ranges, loop>>
  PROVE  Numbering'
<1>1. InOrder(b)
  BY PartsInOrder DEF Numbering
<1>2. \A i \in 1..Len(b) : i + Len(a) \in 1..Len(Coming) /\ Coming[i + Len(a)] = b[i]
  BY Joined
<1>3. \A i \in 1..Len(b) : b[i].id <= n
  BY <1>2 DEF Numbering
<1>4. \A c \in Chans : \A i \in 1..Len(b) : c \in b[i].ids => ranges[c][2] < b[i].id
  BY <1>2 DEF Numbering
<1>5. Spared' = Spared
  BY DEF Spared
<1>6. ASSUME NEW c \in Spared PROVE Fresh(c)'
  <2>1. Fresh(c)
    BY <1>6 DEF Numbering
  <2>2. \A i \in 1..Len(b) : c \in b[i].wins => b[i].id < n
    BY <1>2, <2>1 DEF Fresh
  <2>. QED BY <2>1, <2>2 DEF Fresh
<1>. QED BY <1>1, <1>3, <1>4, <1>5, <1>6 DEF Numbering

\* What is read leaves what is announced in the rest of the queue.
LEMMA DispatchingRead ==
  ASSUME Dispatching, NEW a \in Seq(Deliveries), NEW b \in Seq(Deliveries), Coming = a \o b, Coming' = b,
         UNCHANGED <<link, untold, epoch, disp>>
  PROVE  Dispatching'
<1>1. \A i \in 1..Len(b) : i + Len(a) \in 1..Len(Coming) /\ Coming[i + Len(a)] = b[i]
  BY Joined
<1>2. ASSUME NEW i \in 1..Len(b), InItsStay(Coming, i + Len(a)) PROVE InItsStay(Coming, i)'
  <2>1. \A c : MovesFrom(a \o b, c, i + Len(a)) = MovesFrom(b, c, i)
    BY MovesFromLater
  <2>2. \A c : MovesFrom(Coming, c, i + Len(a)) = MovesFrom(Coming', c, i)
    BY <2>1
  <2>. QED BY <1>2, <2>2 DEF InItsStay
<1>3. \A i \in 1..Len(b) : b[i].kind = "started" =>
        /\ disp.pc \in {"turn", "relock", "done"} /\ b[i].wins = disp.wins
        /\ link = "on" /\ ~untold => InItsStay(Coming, i)'
  BY <1>1, <1>2 DEF Dispatching
<1>. QED BY <1>3 DEF Dispatching

\* A burst files its channels' rows, and moves the rest on.
LEMMA ChannelsRead ==
  ASSUME Types, Numbering, ChannelsRight, link = "on", \A c \in inM : HistoryLoaded(c),
         NEW a \in Seq(Deliveries), NEW b \in Seq(Deliveries), Coming = a \o b, Coming' = b,
         \A c \in Chans : hist'[c] = FileChannels(hist, a)[c],
         UNCHANGED <<link, inM, scrollback, load>>
  PROVE  ChannelsRight'
<1>1. SUFFICES ASSUME NEW c \in inM PROVE ChannelRight(c)'
  BY DEF ChannelsRight
<1>2. c \in Chans /\ Matches(hist, a \o b, scrollback[c], c) /\ InOrder(a \o b)
  BY DEF Types, Numbering, ChannelsRight, ChannelRight
<1>3. Matches(FileChannels(hist, a), b, scrollback[c], c)
  BY <1>2, MatchesRead
<1>4. hist'[c] = FileChannels(hist, a)[c]
  BY <1>2
<1>5. Matches(hist', b, scrollback[c], c)
  BY <1>3, <1>4, MatchesSame
<1>6. Matches(hist, Coming, scrollback[c], c)'
  BY <1>5
<1>7. HistoryLoaded(c)'
  BY DEF HistoryLoaded
<1>. QED BY <1>6, <1>7 DEF ChannelRight

\* The direct messages of a burst come before those that follow it.
LEMMA DirectsFirst ==
  ASSUME NEW a \in Seq(Deliveries), NEW b \in Seq(Deliveries), InOrder(a \o b)
  PROVE  \A x \in Waiting(a), y \in Waiting(b) : x < y
<1>1. SUFFICES ASSUME NEW i \in DirectAt(a), NEW j \in DirectAt(b) PROVE a[i].id < b[j].id
  BY DEF Waiting
<1>2. i \in 1..Len(a) /\ j \in 1..Len(b) /\ a[i].kind \in Directs /\ b[j].kind \in Directs
  BY DEF DirectAt
<1>3. /\ i \in 1..Len(a \o b) /\ (a \o b)[i] = a[i]
      /\ j + Len(a) \in 1..Len(a \o b) /\ (a \o b)[j + Len(a)] = b[j]
      /\ Len(a) \in Nat
  BY <1>2, Joined
<1>4. i < j + Len(a)
  BY <1>2, <1>3
<1>5. \A x \in Deliveries : x.kind \in Directs => x.wins = {Direct} /\ x.id # 0
  <2>1. \A k \in Directs : k \notin Signs
    BY DEF Directs, Signs
  <2>. QED BY <2>1 DEF Deliveries, Fits
<1>6. a[i] \in Deliveries /\ b[j] \in Deliveries
  BY <1>2, ElementOfSeq
<1>7. a[i].wins \cap b[j].wins # {} /\ a[i].id # 0 /\ b[j].id # 0
  BY <1>2, <1>5, <1>6
<1>. QED BY <1>3, <1>4, <1>7 DEF InOrder

\* What a burst does to the direct window.
DirectRead(d, reads) ==
  LET opens == d # <<>> /\ ~Seeded IN
  /\ ~reads => opens
  /\ opens /\ reads => dmMu = "free"
  /\ hist'[Direct] = IF Seeded THEN hist[Direct] \o d ELSE IF opens /\ reads THEN Snapshot \o d ELSE NoBuf
  /\ unseeded' = IF ~reads THEN unseeded \o d ELSE IF opens THEN <<>> ELSE unseeded
  /\ liveFrom' = IF opens /\ reads THEN 0 ELSE liveFrom

\* Whether it opens the window, fails to, or has no message of it, the burst
\* leaves the direct conversation right.
LEMMA ConversedRead ==
  ASSUME Types, PlanRight, Rising(dms), NEW d \in Seq(Numbers), Rising(d), NEW wo, \A x \in Range(d), y \in wo : x < y,
         NEW reads \in BOOLEAN, DirectRead(d, reads), Conversed(hist[Direct], unseeded, liveFrom, Range(d) \cup wo, Told)
  PROVE  /\ Seeded' => hist'[Direct] \in Seq(Numbers)
         /\ unseeded' \in Seq(Numbers) /\ liveFrom' \in {liveFrom, 0}
         /\ Conversed(hist'[Direct], unseeded', liveFrom', wo, Told)
<1>0. unseeded \in Seq(Numbers) /\ liveFrom \in Nat /\ dms \in Seq(Numbers) /\ (Seeded => hist[Direct] \in Seq(Numbers))
  BY DEF Types
<1>1. CASE Seeded
  <2>1. reads /\ hist'[Direct] = hist[Direct] \o d /\ unseeded' = unseeded /\ liveFrom' = liveFrom
    BY <1>1 DEF DirectRead
  <2>2. hist[Direct] \in Seq(Numbers)
    BY <1>0, <1>1
  <2>3. hist[Direct] \o d \in Seq(Numbers) /\ Conversed(hist[Direct] \o d, unseeded, liveFrom, wo, Told)
    BY <2>2, ConversedFiles
  <2>. QED BY <1>0, <2>1, <2>3
<1>2. CASE ~Seeded /\ d # <<>> /\ reads
  <2>1. dmMu = "free" /\ hist'[Direct] = Snapshot \o d /\ unseeded' = <<>> /\ liveFrom' = 0
    BY <1>2 DEF DirectRead
  <2>2. Told = Range(dms)
    BY <2>1 DEF PlanRight, Told
  <2>3. Conversed(NoBuf, unseeded, liveFrom, Range(d) \cup wo, Range(dms))
    BY <1>2, <2>2 DEF Seeded
  <2>. DEFINE s == (Before(dms, liveFrom) \o unseeded) \o d
  <2>4. liveFrom # 0 /\ s \in Seq(Numbers) /\ Conversed(s, <<>>, 0, wo, Range(dms))
    BY <1>0, <1>2, <2>3, ConversedOpens
  <2>5. Snapshot \o d = s
    BY <2>4 DEF Snapshot, Cutoff
  <2>6. <<>> \in Seq(Numbers)
    OBVIOUS
  <2>. QED BY <2>1, <2>2, <2>4, <2>5, <2>6
<1>3. CASE ~Seeded /\ d # <<>> /\ ~reads
  <2>1. hist'[Direct] = NoBuf /\ unseeded' = unseeded \o d /\ liveFrom' = liveFrom
    BY <1>3 DEF DirectRead
  <2>2. hist[Direct] = NoBuf
    BY <1>3 DEF Seeded
  <2>3. unseeded \o d \in Seq(Numbers) /\ Conversed(NoBuf, unseeded \o d, liveFrom, wo, Told)
    BY <1>0, <2>2, ConversedKeeps
  <2>. QED BY <2>1, <2>3 DEF Seeded
<1>4. CASE ~Seeded /\ d = <<>>
  <2>1. reads /\ hist'[Direct] = NoBuf /\ unseeded' = unseeded /\ liveFrom' = liveFrom
    BY <1>4 DEF DirectRead
  <2>2. hist[Direct] = NoBuf
    BY <1>4 DEF Seeded
  <2>3. Range(d) = {}
    <3>1. Len(d) = 0
      BY <1>4
    <3>2. \A x \in Range(d) : \E i \in 1..Len(d) : d[i] = x
      BY RangeIs
    <3>. QED BY <3>1, <3>2
  <2>4. Conversed(NoBuf, unseeded, liveFrom, wo, Told)
    <3>1. Range(d) \cup wo = wo
      BY <2>3
    <3>. QED BY <2>2, <3>1
  <2>. QED BY <1>0, <2>1, <2>4 DEF Seeded
<1>. QED BY <1>1, <1>2, <1>3, <1>4

\* A burst files the first of the queue and leaves the rest.
LEMMA BurstRight == ASSUME Core, Inv, NEW k \in 1..Len(outbox), NEW reads \in BOOLEAN, Burst(k, reads) PROVE Core'
<1>. DEFINE a == SubSeq(outbox, 1, k)
            o == SubSeq(outbox, k + 1, Len(outbox))
            d == DirectIds(a)
            x == IF Seeded THEN hist[Direct] \o d
                 ELSE IF d # <<>> /\ ~Seeded /\ reads THEN Snapshot \o d ELSE NoBuf
<1>0. Types /\ PlanRight /\ Held /\ Numbering /\ Attached /\ DirectRight /\ ChannelsRight /\ Dispatching
  BY DEF Core
<1>1. /\ link = "on" /\ load.pc = "done" /\ ~blocked
      /\ ~reads => d # <<>> /\ ~Seeded
      /\ d # <<>> /\ ~Seeded /\ reads => dmMu = "free"
      /\ hist' = [FileChannels(hist, a) EXCEPT ![Direct] = x]
      /\ unseeded' = IF ~reads THEN unseeded \o d ELSE IF d # <<>> /\ ~Seeded THEN <<>> ELSE unseeded
      /\ liveFrom' = IF d # <<>> /\ ~Seeded /\ reads THEN 0 ELSE liveFrom
      /\ outbox' = o
      /\ UNCHANGED <<anon, n, inM, scrollback, dms, link, blocked, ranges, epoch, loop, disp, locks, dmMu, load, untold>>
  BY DEF Burst, members, store, mutexes
<1>2. a \in Seq(Deliveries) /\ o \in Seq(Deliveries) /\ outbox = a \o o /\ Coming = a \o (o \o Pending)
  BY <1>0, BurstSplits
<1>. HIDE DEF a, o
<1>3. Pending \in Seq(Deliveries) /\ Coming \in Seq(Deliveries)
  BY <1>0, ComingIs
<1>4. Coming' = o \o Pending
  <2>1. Pending' = Pending
    BY <1>1 DEF Pending
  <2>. QED BY <1>1, <2>1 DEF Coming
<1>5. o \o Pending \in Seq(Deliveries)
  BY <1>2, <1>3, Joined
<1>6. InOrder(Coming) /\ InOrder(outbox) /\ InOrder(a)
  <2>1. InOrder(Coming)
    BY <1>0 DEF Numbering
  <2>2. Coming = outbox \o Pending /\ outbox \in Seq(Deliveries)
    BY <1>0 DEF Coming, Types
  <2>3. InOrder(outbox)
    BY <1>3, <2>1, <2>2, PartsInOrder
  <2>4. InOrder(a)
    BY <1>2, <2>3, PartsInOrder
  <2>. QED BY <2>1, <2>3, <2>4
<1>7. d \in Seq(Numbers) /\ Rising(d) /\ Range(d) = Waiting(a)
  BY <1>2, <1>6, DirectIdsAre DEF Waiting
<1>8. Waiting(outbox) = Range(d) \cup Waiting(o) /\ \A y \in Range(d), z \in Waiting(o) : y < z
  BY <1>2, <1>6, <1>7, WaitingJoined, DirectsFirst
<1>9. /\ hist'[Direct] = x /\ (\A c \in Chans : hist'[c] = FileChannels(hist, a)[c])
      /\ hist' = [w \in Windows |-> hist'[w]]
  <2>. DEFINE f == FileChannels(hist, a)
  <2>1. f = [w \in Windows |-> f[w]]
    BY DEF FileChannels
  <2>2. Direct \in Windows /\ \A c \in Chans : c \in Windows /\ c # Direct
    BY ReplayAssumption DEF Windows, Direct
  <2>3. \A g, y : g = [w \in Windows |-> g[w]] =>
          LET e == [g EXCEPT ![Direct] = y] IN
          e[Direct] = y /\ (\A w \in Windows : w # Direct => e[w] = g[w]) /\ e = [w \in Windows |-> e[w]]
    BY <2>2
  <2>. HIDE DEF f, x
  <2>4. hist' = [f EXCEPT ![Direct] = x]
    BY <1>1 DEF f
  <2>5. hist'[Direct] = x /\ (\A w \in Windows : w # Direct => hist'[w] = f[w]) /\ hist' = [w \in Windows |-> hist'[w]]
    BY <2>1, <2>3, <2>4
  <2>. QED BY <2>2, <2>5 DEF f
<1>10. DirectRead(d, reads)
  BY <1>1, <1>9 DEF DirectRead
<1>. HIDE DEF d, x
<1>11. Rising(dms) /\ Conversed(hist[Direct], unseeded, liveFrom, Waiting(outbox), Told)
  BY <1>0, <1>1 DEF DirectRight
<1>12. Conversed(hist[Direct], unseeded, liveFrom, Range(d) \cup Waiting(o), Told)
  BY <1>8, <1>11
<1>13. /\ Seeded' => hist'[Direct] \in Seq(Numbers)
       /\ unseeded' \in Seq(Numbers) /\ liveFrom' \in {liveFrom, 0}
       /\ Conversed(hist'[Direct], unseeded', liveFrom', Waiting(o), Told)
  BY <1>0, <1>7, <1>8, <1>10, <1>11, <1>12, ConversedRead
<1>14. Types'
  <2>1. \A c \in Chans : Known(hist'[c]) \in Seq(Numbers)
    <3>1. SUFFICES ASSUME NEW c \in Chans PROVE Known(hist'[c]) \in Seq(Numbers)
      OBVIOUS
    <3>2. Known(hist[c]) \in Seq(Numbers)
      BY <1>0 DEF Types
    <3>3. /\ Left(hist, a, c) \in Seq(Numbers)
          /\ Known(FileChannels(hist, a)[c]) = Left(hist, a, c) \o FiledIn(a, c)
      BY <1>2, <1>6, <3>2, FileChannelsIs
    <3>4. FiledIn(a, c) \in Seq(Numbers)
      BY <1>2, <1>6, FiledInIs
    <3>5. Left(hist, a, c) \o FiledIn(a, c) \in Seq(Numbers)
      BY <3>3, <3>4, Joined
    <3>. QED BY <1>9, <3>3, <3>5
  <2>2. liveFrom' \in Nat
    BY <1>0, <1>13 DEF Types
  <2>. QED BY <1>0, <1>1, <1>2, <1>9, <1>13, <2>1, <2>2 DEF Types
<1>15. PlanRight'
  <2>1. RoutesRight(loop.kind, loop.win, loop.routes)'
    BY <1>0, <1>1 DEF PlanRight, RoutesRight
  <2>. QED BY <1>0, <1>1, <2>1 DEF PlanRight
<1>16. Held'
  BY <1>0, <1>1 DEF Held, NeedsM
<1>17. Numbering'
  BY <1>0, <1>1, <1>2, <1>4, <1>5, NumberingRead
<1>18. Attached'
  BY <1>0, <1>1 DEF Attached
<1>19. DirectRight'
  <2>1. Told' = Told
    BY <1>1 DEF Told
  <2>2. Conversed(hist[Direct], unseeded, liveFrom, Waiting(outbox), Told)'
    BY <1>1, <1>13, <2>1
  <2>3. liveFrom' <= n
    BY <1>0, <1>13 DEF DirectRight, Types, Numbers
  <2>. QED BY <1>0, <1>1, <2>2, <2>3 DEF DirectRight
<1>20. ChannelsRight'
  <2>1. \A c \in inM : HistoryLoaded(c)
    BY <1>0, <1>1 DEF Attached, HistoryLoaded
  <2>. QED BY <1>0, <1>1, <1>2, <1>4, <1>5, <1>9, <2>1, ChannelsRead
<1>21. Dispatching'
  BY <1>0, <1>1, <1>2, <1>4, <1>5, DispatchingRead
<1>. QED BY <1>14, <1>15, <1>16, <1>17, <1>18, <1>19, <1>20, <1>21 DEF Core
---------------------------------------------------------------------------
(* The start, and the whole. *)

\* A single number rises.
LEMMA OneNumber ==
  ASSUME NEW x \in Numbers
  PROVE  <<x>> \in Seq(Numbers) /\ Rising(<<x>>) /\ Range(<<x>>) = {x}
<1>. DEFINE s == <<x>>
<1>1. s \in Seq(Numbers) /\ Len(s) = 1 /\ s[1] = x
  OBVIOUS
<1>. HIDE DEF s
<1>2. Rising(s)
  BY <1>1 DEF Rising
<1>3. Range(s) = {x}
  <2>1. Range(s) = {s[i] : i \in 1..Len(s)}
    BY <1>1, RangeIs
  <2>2. \A i \in 1..1 : i = 1
    OBVIOUS
  <2>3. 1 \in 1..1
    OBVIOUS
  <2>. QED BY <1>1, <2>1, <2>2, <2>3
<1>. QED BY <1>1, <1>2, <1>3 DEF s

\* No number rises too.
LEMMA NoNumber == <<>> \in Seq(Numbers) /\ Rising(<<>>) /\ Range(<<>>) = {}
<1>. DEFINE s == <<>>
<1>1. s \in Seq(Numbers) /\ Len(s) = 0
  OBVIOUS
<1>. HIDE DEF s
<1>2. Rising(s)
  BY <1>1 DEF Rising
<1>3. Range(s) = {}
  <2>1. \A x \in Range(s) : \E i \in 1..Len(s) : s[i] = x
    BY <1>1, RangeIs
  <2>. QED BY <1>1, <2>1
<1>. QED BY <1>1, <1>2, <1>3 DEF s

\* The server and the client start right.
LEMMA InitCore == ReplayInit => Core
<1>. SUFFICES ASSUME ReplayInit PROVE Core
  OBVIOUS
<1>1. /\ anon \in Masks /\ n = 2 /\ inM = Stored /\ inP = Stored
      /\ scrollback = [c \in Chans |-> IF c \in Stored THEN <<1>> ELSE <<>>] /\ dms = <<2>>
      /\ link = "off" /\ blocked = FALSE /\ outbox = <<>> /\ liveFrom = 0
      /\ ranges = [c \in Chans |-> NoRange] /\ epoch = [c \in Chans |-> 0] /\ loop = NoPlan
      /\ disp = [pc |-> "none", wins |-> {}, auth |-> <<>>, need |-> <<>>]
      /\ locks = [x \in {"m", "p"} |-> "free"] /\ dmMu = "free"
      /\ load = [pc |-> "none", todo |-> {}, win |-> "none", before |-> 0, epoch |-> 0]
      /\ hist = [w \in Windows |-> NoBuf] /\ unseeded = <<>> /\ untold = FALSE
  BY DEF ReplayInit
<1>2. anon \in SUBSET Chans /\ inM \in SUBSET Chans
  BY <1>1, ReplayAssumption
<1>3. n \in Numbers /\ 1 \in Numbers
  BY <1>1 DEF Numbers
<1>4. dms \in Seq(Numbers) /\ Rising(dms) /\ Range(dms) = {2}
  BY <1>1, <1>3, OneNumber
<1>5. \A c \in Chans : scrollback[c] \in Seq(Numbers) /\ Rising(scrollback[c]) /\ \A x \in Range(scrollback[c]) : x = 1
  <2>. DEFINE s == <<1>>
              e == <<>>
  <2>1. s \in Seq(Numbers) /\ Rising(s) /\ Range(s) = {1}
    BY <1>3, OneNumber
  <2>2. e \in Seq(Numbers) /\ Rising(e) /\ Range(e) = {}
    BY NoNumber
  <2>. HIDE DEF s, e
  <2>3. scrollback = [c \in Chans |-> IF c \in Stored THEN s ELSE e]
    BY <1>1 DEF s, e
  <2>4. \A c \in Chans : scrollback[c] = s \/ scrollback[c] = e
    BY <2>3
  <2>. QED BY <2>1, <2>2, <2>4
<1>6. scrollback \in [Chans -> Seq(Numbers)]
  <2>1. scrollback = [c \in Chans |-> scrollback[c]]
    BY <1>1
  <2>. QED BY <1>5, <2>1
<1>7. ranges \in [Chans -> Nat \X Nat] /\ \A c \in Chans : ranges[c][2] = 0
  <2>. DEFINE p == NoRange
  <2>1. p \in Nat \X Nat /\ p[2] = 0
    BY DEF NoRange
  <2>. HIDE DEF p
  <2>2. ranges = [c \in Chans |-> p]
    BY <1>1 DEF p
  <2>. QED BY <2>1, <2>2
<1>8. outbox \in Seq(Deliveries) /\ Len(outbox) = 0
  BY <1>1
<1>9. /\ loop \in LoopTypes /\ loop.pc = "idle" /\ loop.kind = "none" /\ loop.routes = <<>> /\ Len(loop.routes) = 0
  BY <1>1, NoRoutes DEF NoPlan, LoopTypes, Orders
<1>10. disp \in DispTypes /\ disp.pc = "none" /\ disp.wins = {}
  <2>. DEFINE f == <<>>
  <2>1. f \in Auths
    <3>1. f \in [{} -> Nat] /\ {} \in SUBSET Chans
      OBVIOUS
    <3>. QED BY <3>1 DEF Auths
  <2>. HIDE DEF f
  <2>2. disp = [pc |-> "none", wins |-> {}, auth |-> f, need |-> <<>>]
    BY <1>1 DEF f
  <2>3. <<>> \in Orders
    BY DEF Orders
  <2>. QED BY <2>1, <2>2, <2>3 DEF DispTypes
<1>11. load \in LoadTypes /\ load.pc = "none" /\ load.todo = {}
  BY <1>1 DEF LoadTypes
<1>12. (\A w \in Windows : hist[w] = NoBuf) /\ hist = [w \in Windows |-> hist[w]]
  BY <1>1
<1>13. ~Seeded
  BY <1>12 DEF Seeded, Windows
<1>14. Types
  <2>1. \A c \in Chans : Known(hist[c]) \in Seq(Numbers)
    <3>1. Known(NoBuf) = <<>>
      BY DEF Known
    <3>2. \A c \in Chans : Known(hist[c]) = <<>>
      BY <1>12, <3>1 DEF Windows
    <3>. QED BY <3>2, NoNumber
  <2>2. unseeded \in Seq(Numbers)
    BY <1>1, NoNumber
  <2>3. epoch \in [Chans -> Nat]
    BY <1>1
  <2>4. link \in {"off", "on"} /\ blocked \in BOOLEAN /\ liveFrom \in Nat /\ dmMu \in {"free", "loop"} /\ untold \in BOOLEAN
    BY <1>1
  <2>. QED BY <1>2, <1>3, <1>4, <1>6, <1>7, <1>8, <1>9, <1>10, <1>11, <1>12, <1>13, <2>1, <2>2, <2>3, <2>4 DEF Types
<1>15. PlanRight
  <2>1. RoutesRight(loop.kind, loop.win, loop.routes)
    BY <1>9, NoRoutes DEF RoutesRight, Directs, Turns, Departs
  <2>. QED BY <1>1, <1>9, <2>1 DEF PlanRight, Directs
<1>16. Held
  BY <1>9, <1>10, <1>11 DEF Held, NeedsM, Turns, Departs
<1>17. Coming = outbox /\ Len(Coming) = 0 /\ Spared = {}
  <2>1. Coming = outbox
    BY <1>9, <1>14, ComingIs
  <2>. QED BY <1>8, <1>9, <2>1 DEF Spared
<1>18. Numbering
  <2>1. InOrder(Coming) /\ \A i \in 1..Len(Coming) : FALSE
    BY <1>17 DEF InOrder
  <2>2. \A c \in Chans : (\A x \in Range(scrollback[c]) : x <= n) /\ ranges[c][2] <= n
    BY <1>1, <1>5, <1>7
  <2>. QED BY <1>5, <1>17, <2>1, <2>2 DEF Numbering
<1>19. Attached
  BY <1>1, <1>11, <1>13 DEF Attached
<1>20. DirectRight
  BY <1>1, <1>4, <1>9 DEF DirectRight, Directs
<1>21. ChannelsRight
  BY <1>1 DEF ChannelsRight
<1>22. Dispatching
  BY <1>10, <1>17 DEF Dispatching
<1>. QED BY <1>14, <1>15, <1>16, <1>18, <1>19, <1>20, <1>21, <1>22 DEF Core
---------------------------------------------------------------------------
\* A client that is gone does not come back.
LEMMA GoneStays == ASSUME link = "gone", [ReplayNext]_replayVars PROVE link' = "gone"
<1>1. CASE UNCHANGED replayVars
  BY <1>1 DEF replayVars, queue
<1>2. ASSUME SessionCommands PROVE link' = "gone"
  <2>1. ASSUME NEW kind, NEW c, Begin(kind, c) PROVE FALSE
    BY <2>1 DEF Begin, MayCommand
  <2>2. ASSUME NEW kind, Message(kind) PROVE FALSE
    BY <2>2 DEF Message
  <2>. QED BY <1>2, <2>1, <2>2 DEF SessionCommands, Say, Own, Topic, JoinEvent, PartEvent, KickEvent, SelfJoin, NickEvent, QuitEvent
<1>3. ASSUME Fanout PROVE link' = "gone"
  BY <1>3 DEF Fanout, Lock, Commit, CommitFails, QuitFails, LateAppend, Unreplayable, Queue, queue
<1>4. ASSUME Dispatches PROVE link' = "gone"
  BY <1>4 DEF Dispatches, BeginDispatch, BeginDirectDispatch, AdmitDispatch, LockDispatch, Start, TurnEnds, Done, queue
<1>5. ASSUME Client PROVE link' = "gone"
  <2>1. ASSUME NEW k, NEW reads, Burst(k, reads) PROVE FALSE
    BY <2>1 DEF Burst
  <2>2. ASSUME NEW c, ScrollbackBegin(c) PROVE FALSE
    BY <2>2 DEF ScrollbackBegin
  <2>3. Subscribe \/ ListChannels \/ Replies \/ ActivateClient \/ ScrollbackRead => link' = "gone"
    BY DEF Subscribe, ListChannels, Replies, ActivateClient, ScrollbackRead, AttachFails
  <2>. QED BY <1>5, <2>1, <2>2, <2>3 DEF Client
<1>. QED BY <1>1, <1>2, <1>3, <1>4, <1>5 DEF ReplayNext

\* The steps of m's own attachment and loop.
LEMMA ClientRight == ASSUME Core, Inv, Client PROVE link' = "gone" \/ Core'
<1>1. ASSUME NEW k \in 1..Len(outbox), NEW reads \in BOOLEAN, Burst(k, reads) PROVE Core'
  BY <1>1, BurstRight
<1>2. ASSUME NEW c \in Chans, ScrollbackBegin(c) PROVE link' = "gone" \/ Core'
  BY <1>2, ScrollbackBeginRight
<1>3. Subscribe \/ ListChannels \/ Replies \/ ActivateClient \/ ScrollbackRead => link' = "gone" \/ Core'
  BY SubscribeRight, ListChannelsRight, RepliesRight, ActivateRight, ScrollbackReadRight
<1>. QED BY <1>1, <1>2, <1>3 DEF Client

\* Whatever happens, all of it holds or the client is gone.
LEMMA CoreKept == Inv /\ (link = "gone" \/ Core) /\ [ReplayNext]_replayVars => (link = "gone" \/ Core)'
<1>. SUFFICES ASSUME Inv, link = "gone" \/ Core, [ReplayNext]_replayVars PROVE link' = "gone" \/ Core'
  OBVIOUS
<1>1. CASE link = "gone"
  BY <1>1, GoneStays
<1>2. CASE Core /\ UNCHANGED replayVars
  BY <1>2, UnchangedRight DEF replayVars, events, members, store, queue, mutexes, client
<1>3. CASE Core /\ ReplayNext
  BY <1>3, FanoutRight, OthersRight, ClientRight DEF ReplayNext
<1>. QED BY <1>1, <1>2, <1>3

\* A sequence of numbers is one of naturals.
LEMMA NumbersInNat == ASSUME NEW s \in Seq(Numbers) PROVE s \in Seq(Nat)
<1>1. \A i \in 1..Len(s) : s[i] \in Nat
  BY ElementOfSeq DEF Numbers
<1>. QED BY <1>1, SeqDef

\* Between a commit and its queueing nothing is to come but what waits, and none of it was read.
LEMMA UndisturbedIs ==
  ASSUME Core, Undisturbed
  PROVE  link = "on" /\ Coming = outbox /\ InHand = outbox /\ outbox \in Seq(Deliveries)
<1>1. Types /\ Numbering /\ link = "on" /\ loop.pc # "queue"
  BY DEF Core, Undisturbed
<1>2. Coming = outbox
  BY <1>1, ComingIs
<1>3. InHand = outbox
  BY <1>1, KeepsWaiting DEF InHand
<1>. QED BY <1>1, <1>2, <1>3 DEF Types

\* History and queue match the rows, so filing the queue gives the rows.
LEMMA HistoryHolds == link = "gone" \/ Core => HistoryExact
<1>1. CASE Undisturbed /\ Core
  <2>1. SUFFICES ASSUME NEW c \in inM, HistoryLoaded(c) PROVE Known(FileChannels(hist, InHand)[c]) = scrollback[c]
    BY DEF HistoryExact
  <2>2. link = "on" /\ Coming = outbox /\ InHand = outbox /\ outbox \in Seq(Deliveries)
    BY <1>1, UndisturbedIs
  <2>3. c \in Chans
    BY <1>1 DEF Core, Types
  <2>4. InOrder(outbox) /\ scrollback[c] \in Seq(Numbers) /\ Rising(scrollback[c])
    BY <1>1, <2>2, <2>3 DEF Core, Types, Numbering
  <2>5. Matches(hist, outbox, scrollback[c], c)
    BY <1>1, <2>1, <2>2 DEF Core, ChannelsRight, ChannelRight
  <2>. QED BY <2>2, <2>3, <2>4, <2>5, MatchesMeans
<1>2. CASE ~Undisturbed
  BY <1>2 DEF HistoryExact
<1>3. link = "gone" => ~Undisturbed
  BY DEF Undisturbed
<1>. QED BY <1>1, <1>2, <1>3

\* History, kept messages and queue match the log, so together they are the log.
LEMMA DirectHolds == link = "gone" \/ Core => DirectExact
<1>1. CASE link = "on" /\ dmMu = "free" /\ Core
  <2>. DEFINE d == DirectIds(outbox)
              w == Waiting(outbox)
              h == hist[Direct]
              u == unseeded
              t == Range(dms)
  <2>1. Types /\ PlanRight /\ Numbering /\ DirectRight
    BY <1>1 DEF Core
  <2>2. dms \in Seq(Numbers) /\ outbox \in Seq(Deliveries) /\ u \in Seq(Numbers) /\ n \in Nat /\ liveFrom \in Nat
    BY <2>1 DEF Types, Numbers
  <2>3. Rising(dms) /\ (\A x \in t : x <= n) /\ t \subseteq Nat
    BY <2>1, <2>2, RangeIs DEF DirectRight, Numbers
  <2>4. InOrder(outbox)
    <3>1. Pending \in Seq(Deliveries) /\ InOrder(outbox \o Pending)
      BY <2>1, ComingIs DEF Numbering, Coming
    <3>. QED BY <2>2, <3>1, PartsInOrder
  <2>5. d \in Seq(Numbers) /\ Rising(d) /\ Range(d) = w
    BY <2>2, <2>4, DirectIdsAre DEF Waiting
  <2>6. Conversed(h, u, liveFrom, w, t)
    <3>1. Told = t
      BY <1>1, <2>1 DEF PlanRight, Told
    <3>. QED BY <1>1, <2>1, <3>1 DEF DirectRight
  <2>7. CASE Seeded
    <3>1. h \in Seq(Numbers) /\ h # NoBuf
      BY <2>1, <2>7 DEF Types, Seeded
    <3>. HIDE DEF d, w, h, u, t
    <3>2. Rising(h) /\ (\A x \in Range(h), y \in w : x < y) /\ Range(h) \cup w = t
      BY <2>6, <3>1 DEF Conversed
    <3>3. h \o d \in Seq(Numbers) /\ Rising(h \o d) /\ Range(h \o d) = Range(h) \cup Range(d)
      BY <2>5, <3>1, <3>2, NumbersAreNat, RisingConcat
    <3>4. h \o d \in Seq(Nat) /\ dms \in Seq(Nat)
      BY <2>2, <3>3, NumbersInNat
    <3>5. h \o d = dms
      BY <2>3, <2>5, <3>2, <3>3, <3>4, RisingEqual DEF t
    <3>. QED BY <2>7, <3>5 DEF DirectExact, d, h
  <2>8. CASE ~Seeded
    <3>. DEFINE x == Cutoff
                b == Before(dms, x)
    <3>1. h = NoBuf
      BY <2>8 DEF Seeded
    <3>2. b \in Seq(Numbers) /\ Rising(b) /\ Range(b) = {y \in Range(dms) : y < x}
      BY <2>2, <2>3, NumbersAreNat, BeforeIs
    <3>3. x = IF liveFrom = 0 THEN n + 1 ELSE liveFrom
      BY DEF Cutoff
    <3>. HIDE DEF d, w, h, u, b, x
    <3>4. /\ Rising(u) /\ (\A i \in Range(u), j \in w : i < j) /\ Range(u) \subseteq t /\ w \subseteq t
          /\ \A i \in t : (liveFrom # 0 /\ i >= liveFrom) <=> i \in Range(u) \cup w
      BY <2>6, <3>1 DEF Conversed
    <3>5. \A i \in t : i >= x <=> i \in Range(u) \cup w
      BY <2>2, <2>3, <3>3, <3>4
    <3>6. x \in Nat
      BY <2>2, <3>3
    <3>7. Range(b) = {y \in t : y < x}
      BY <3>2
    <3>13. t \subseteq Nat
      BY <2>3
    <3>. HIDE DEF t
    <3>8. \A i \in Range(b), j \in Range(u) \cup w : i < j
      <4>1. SUFFICES ASSUME NEW i \in Range(b), NEW j \in Range(u) \cup w PROVE i < j
        OBVIOUS
      <4>2. i \in t /\ i < x
        BY <3>7
      <4>3. j \in t
        BY <3>4
      <4>4. j >= x
        BY <3>5, <4>3
      <4>5. i \in Nat /\ j \in Nat
        BY <3>13, <4>2, <4>3
      <4>. QED BY <3>6, <4>2, <4>4, <4>5
    <3>9. b \o u \in Seq(Numbers) /\ Rising(b \o u) /\ Range(b \o u) = Range(b) \cup Range(u)
      <4>1. \A i \in Range(b), j \in Range(u) : i < j
        BY <3>8
      <4>. QED BY <2>2, <3>2, <3>4, <4>1, NumbersAreNat, RisingConcat DEF u
    <3>. DEFINE e == b \o u
    <3>. HIDE DEF e
    <3>10. e \o d \in Seq(Numbers) /\ Rising(e \o d) /\ Range(e \o d) = Range(e) \cup Range(d)
      <4>1. \A i \in Range(e), j \in Range(d) : i < j
        BY <2>5, <3>4, <3>8, <3>9 DEF e
      <4>. QED BY <2>5, <3>9, <4>1, NumbersAreNat, RisingConcat DEF e
    <3>11. Range(e \o d) = t
      <4>1. \A i \in t : i < x \/ i >= x
        BY <2>3, <3>6
      <4>2. \A i \in t : i \in Range(b) \cup Range(u) \cup w
        BY <3>5, <3>7, <4>1
      <4>3. Range(b) \cup Range(u) \cup w \subseteq t
        BY <3>4, <3>7
      <4>. QED BY <2>5, <3>9, <3>10, <4>2, <4>3 DEF e
    <3>12. e \o d \in Seq(Nat) /\ dms \in Seq(Nat)
      BY <2>2, <3>10, NumbersInNat
    <3>14. e \o d = dms
      BY <2>3, <3>10, <3>11, <3>12, RisingEqual DEF t
    <3>. QED BY <2>8, <3>14 DEF DirectExact, d, e, b, u, x
  <2>. QED BY <2>7, <2>8
<1>2. CASE ~(link = "on" /\ dmMu = "free")
  BY <1>2 DEF DirectExact
<1>. QED BY <1>1, <1>2

\* An announcement in the queue was planned for the membership it is read in.
LEMMA StartHolds == link = "gone" \/ Core => StartInItsStay
<1>1. CASE Undisturbed /\ ~untold /\ Core
  <2>1. link = "on" /\ Coming = outbox /\ outbox \in Seq(Deliveries)
    BY <1>1, UndisturbedIs
  <2>2. \A i \in 1..Len(outbox) : outbox[i].kind = "started" => outbox[i].wins = disp.wins /\ InItsStay(outbox, i)
    BY <1>1, <2>1 DEF Core, Dispatching
  <2>3. DOMAIN outbox = 1..Len(outbox)
    BY <2>1
  <2>. QED BY <2>2, <2>3 DEF StartInItsStay, InItsStay
<1>2. CASE ~(Undisturbed /\ ~untold)
  BY <1>2 DEF StartInItsStay
<1>3. link = "gone" => ~Undisturbed
  BY DEF Undisturbed
<1>. QED BY <1>1, <1>2, <1>3
---------------------------------------------------------------------------
\* The invariant of the module: the locks are in turn, and all is right unless the client is gone.
LEMMA WholeHolds == ReplaySpec => [](Inv /\ (link = "gone" \/ Core))
<1>1. ReplayInit => Inv /\ (link = "gone" \/ Core)
  BY InitRight, InitCore
<1>2. Inv /\ (link = "gone" \/ Core) /\ [ReplayNext]_replayVars => (Inv /\ (link = "gone" \/ Core))'
  BY NextKeeps, CoreKept
<1>. QED BY <1>1, <1>2, PTL DEF ReplaySpec

(* However many channels, events and failures there are, and whoever moves when: what m has
   filed of a channel it has loaded and what is still queued for it are, together, the rows
   the store keeps for its membership (loadHistory, projectReplayQueue, history.append). *)
THEOREM HistoryIsExact == ReplaySpec => []HistoryExact
BY WholeHolds, HistoryHolds, PTL

(* The same for the user's direct window: opened or not, read late, or after reads that
   failed, it holds with its queue the log, each message once (history.seedDM,
   dmLiveFrom, dmHistoryMu). *)
THEOREM DirectIsExact == ReplaySpec => []DirectExact
BY WholeHolds, DirectHolds, PTL

(* A turn's start from another goroutine reaches m in the membership of the channel it was
   announced for, never after a KICK or in a later stay (BeginModelDispatch's guards). *)
THEOREM StartsStayed == ReplaySpec => []StartInItsStay
BY WholeHolds, StartHolds, PTL
=============================================================================
