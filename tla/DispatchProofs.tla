--------------------------- MODULE DispatchProofs ---------------------------
(***************************************************************************)
(* Theorems about Dispatch for every set of windows, number of deliveries  *)
(* and length of a burst.                                                  *)
(***************************************************************************)
EXTENDS Dispatch, TLAPS, SequenceTheorems

\* A wait is a record, is of its own window, and its scheduler runs.
Waiting(p, w) ==
  /\ p = [token |-> p.token, batch |-> p.batch]
  /\ p.token.win = w
  /\ p.token \in timers \/ released

WaitInv ==
  /\ pending = [w \in Windows |-> pending[w]]
  /\ \A w \in Windows : pending[w] = None \/ Waiting(pending[w], w)

\* A merge leaves the token of a wait as it is (redispatchSet.merge).
LEMMA MergeKeepsToken ==
  ASSUME NEW p, NEW w, NEW b, Waiting(p, w)
  PROVE  Waiting(Merge(p, b), w)
<1> DEFINE c == [b EXCEPT !.retried = p.batch.retried \/ b.retried]
<1>1. Merge(p, b) = [token |-> p.token, batch |-> c]
  BY DEF Merge, Waiting
<1>2. Merge(p, b).token = p.token /\ Merge(p, b).batch = c
  BY <1>1
<1>. QED
  BY <1>1, <1>2 DEF Waiting

\* Reading a burst ends waits and merges into them, and begins none.
LEMMA ReadBurstKeepsWaits ==
  ASSUME NEW k, WaitInv, ReadBurst(k)
  PROVE  WaitInv'
<1> DEFINE D == read + 1 .. read + k
           waiting == [w \in Windows |-> Supersede(Of(D, w), pending[w])]
           kept == {w \in Windows : Calls(D, w)}
<1>1. pending' = [w \in Windows |->
         IF w \in kept /\ waiting[w] # None
         THEN Merge(waiting[w], BatchOf(Of(D, w), w)) ELSE waiting[w]]
  BY DEF ReadBurst
<1>2. timers' = timers /\ released' = released
  BY DEF ReadBurst
<1>3. ASSUME NEW w \in Windows
      PROVE  pending'[w] = None \/ Waiting(pending'[w], w)
  <2>1. waiting[w] = None \/ waiting[w] = pending[w]
    BY DEF Supersede
  <2>2. waiting[w] = None \/ Waiting(waiting[w], w)
    BY <2>1 DEF WaitInv
  <2>3. CASE w \in kept /\ waiting[w] # None
    <3>1. pending'[w] = Merge(waiting[w], BatchOf(Of(D, w), w))
      BY <1>1, <2>3
    <3>2. Waiting(Merge(waiting[w], BatchOf(Of(D, w), w)), w)
      BY <2>2, <2>3, MergeKeepsToken
    <3>. QED BY <3>1, <3>2
  <2>4. CASE ~(w \in kept /\ waiting[w] # None)
    <3>1. pending'[w] = waiting[w]
      BY <1>1, <2>4
    <3>. QED BY <2>2, <3>1
  <2>. QED BY <2>3, <2>4
<1>4. pending' = [w \in Windows |-> pending'[w]]
  BY <1>1
<1>. QED
  BY <1>2, <1>3, <1>4 DEF WaitInv, Waiting

(* The loop takes a scheduler's offer: of the waits, it can only be the one of
   the batch's own window that loses its scheduler, and that wait ends if the
   scheduler was its own. *)
LEMMA ClaimKeepsWaits ==
  ASSUME NEW b, WaitInv, Claim(b)
  PROVE  WaitInv'
<1>1. timers' = timers \ {b} /\ released' = released
  BY DEF Claim
<1>2. \A w \in Windows : pending'[w] = pending[w] \/ (w = b.win /\ pending'[w] = None)
  BY DEF Claim, WaitInv
<1>3. pending' = [w \in Windows |-> pending'[w]]
  BY DEF Claim, WaitInv
<1>4. ASSUME NEW w \in Windows
      PROVE  pending'[w] = None \/ (Waiting(pending[w], w) /\ pending'[w] = pending[w]
                                     /\ pending[w].token # b)
  <2>1. CASE w = b.win
    <3>1. CASE Claims(b)
      <4>1. pending' = [pending EXCEPT ![b.win] = None]
        BY <3>1 DEF Claim
      <4>2. pending'[w] = None
        BY <2>1, <4>1 DEF WaitInv
      <4>. QED BY <4>2
    <3>2. CASE ~Claims(b)
      <4>1. pending' = pending
        BY <3>2 DEF Claim
      <4>2. pending[w] = None \/ pending[w].token # b
        BY <2>1, <3>2 DEF Claims
      <4>. QED BY <4>1, <4>2 DEF WaitInv
    <3>. QED BY <3>1, <3>2
  <2>2. CASE w # b.win
    <3>1. pending'[w] = pending[w]
      BY <1>2, <2>2
    <3>2. CASE Waiting(pending[w], w)
      <4>1. pending[w].token.win # b.win
        BY <2>2, <3>2 DEF Waiting
      <4>2. pending[w].token # b
        BY <4>1
      <4>. QED BY <3>1, <3>2, <4>2
    <3>3. CASE pending[w] = None
      BY <3>1, <3>3
    <3>. QED BY <3>2, <3>3 DEF WaitInv
  <2>. QED BY <2>1, <2>2
<1>5. ASSUME NEW w \in Windows
      PROVE  pending'[w] = None \/ Waiting(pending[w], w)'
  <2>1. CASE pending'[w] = None
    BY <2>1
  <2>2. CASE Waiting(pending[w], w) /\ pending'[w] = pending[w] /\ pending[w].token # b
    BY <1>1, <2>2 DEF Waiting
  <2>. QED BY <1>4, <2>1, <2>2
<1>. QED
  BY <1>3, <1>5 DEF WaitInv

\* A failed turn's window waits for the scheduler that it starts.
LEMMA FailKeepsWaits ==
  ASSUME WaitInv, FailTransiently
  PROVE  WaitInv'
<1> DEFINE b == [turn.batch EXCEPT !.retried = TRUE]
<1>1. /\ timers' = timers \cup {b} /\ released' = released
      /\ pending' = [pending EXCEPT ![b.win] = [token |-> b, batch |-> b]]
  BY DEF FailTransiently
<1> HIDE DEF b
<1>2. pending' = [w \in Windows |-> pending'[w]]
  BY <1>1 DEF WaitInv
<1>3. ASSUME NEW w \in Windows
      PROVE  pending'[w] = None \/ Waiting(pending[w], w)'
  <2>1. CASE w = b.win
    <3>1. pending'[w] = [token |-> b, batch |-> b]
      BY <1>1, <2>1 DEF WaitInv
    <3>. QED BY <1>1, <2>1, <3>1 DEF Waiting
  <2>2. CASE w # b.win
    <3>1. pending'[w] = pending[w]
      BY <1>1, <2>2 DEF WaitInv
    <3>. QED BY <1>1, <3>1 DEF WaitInv, Waiting
  <2>. QED BY <2>1, <2>2
<1>. QED
  BY <1>2, <1>3 DEF WaitInv

\* A step that leaves the waits alone stops a scheduler only after Release.
LEMMA OthersKeepWaits ==
  ASSUME WaitInv, pending' = pending,
         (timers' = timers /\ (released => released')) \/ released'
  PROVE  WaitInv'
  BY DEF WaitInv, Waiting

LEMMA WaitInvInit == Init => WaitInv
  BY DEF Init, WaitInv

\* Every step keeps the waits.
LEMMA WaitInvStep == WaitInv /\ [Next]_vars => WaitInv'
<1> SUFFICES ASSUME WaitInv, [Next]_vars PROVE WaitInv'
  OBVIOUS
<1>1. ASSUME NEW k \in 1..Burst, ReadBurst(k) PROVE WaitInv'
  BY <1>1, ReadBurstKeepsWaits
<1>2. ASSUME NEW b \in timers, Claim(b) PROVE WaitInv'
  BY <1>2, ClaimKeepsWaits
<1>3. ASSUME NEW b \in timers, AbandonRetry(b) PROVE WaitInv'
  <2>1. pending' = pending /\ released'
    BY <1>3 DEF AbandonRetry
  <2>. QED BY <2>1, OthersKeepWaits
<1>4. CASE FailTransiently
  BY <1>4, FailKeepsWaits
<1>5. CASE Exit \/ StartTurn \/ Capture \/ Send \/ Answer \/ Closed \/ Cancelled \/ FailFinally \/ RunTool
  <2>1. UNCHANGED <<pending, timers, released>>
    BY <1>5 DEF Exit, StartTurn, Capture, Send, Answer, Closed, Cancelled, FailFinally, RunTool,
                Dropped, Settles, client
  <2>. QED BY <2>1, OthersKeepWaits
<1>6. CASE Environment
  <2>1. pending' = pending /\ timers' = timers /\ (released => released')
    BY <1>6 DEF Environment, Say, Invite, Kick, Quit, Interrupt, Release, client
  <2>. QED BY <2>1, OthersKeepWaits
<1>7. CASE UNCHANGED vars
  <2>1. UNCHANGED <<pending, timers, released>>
    BY <1>7 DEF vars, client
  <2>. QED BY <2>1, OthersKeepWaits
<1>. QED
  BY <1>1, <1>2, <1>3, <1>4, <1>5, <1>6, <1>7 DEF Next, Loop, Turn

(* A window that waits for its re-dispatch has the scheduler that will offer it:
   no merge, closing, claim or failure, of this window or another, takes it away
   (redispatchSet and scheduleRedispatch). *)
THEOREM WaitsCorrect == Spec => []WaitsOnItsOwnTimer
<1>1. Spec => []WaitInv
  BY WaitInvInit, WaitInvStep, PTL DEF Spec
<1>2. WaitInv => WaitsOnItsOwnTimer
  BY DEF WaitInv, Waiting, WaitsOnItsOwnTimer
<1>. QED
  BY <1>1, <1>2, PTL
-----------------------------------------------------------------------------
(* Type correctness.                                                       *)

\* What a burst makes of a window's deliveries is a batch.
LEMMA BatchOfType ==
  ASSUME TypeOK, NEW D, D \subseteq Ids, NEW w \in Windows
  PROVE  BatchOf(D, w) \in Batches /\ File(D, hist[w]) \subseteq Ids
<1>1. SinceClosing(D) \subseteq Ids
  BY DEF SinceClosing
<1>2. hist[w] \subseteq Ids
  BY DEF TypeOK
<1>3. {n \in SinceClosing(D) : Trigger(n)} \subseteq Ids
  BY <1>1
<1>. QED
  BY <1>1, <1>2, <1>3 DEF BatchOf, Batches, File

LEMMA BurstType ==
  ASSUME TypeOK, NEW k \in 1..Burst, ReadBurst(k), NEW w \in Windows
  PROVE  /\ BatchOf(Of(read + 1 .. read + k, w), w) \in Batches
         /\ File(Of(read + 1 .. read + k, w), hist[w]) \subseteq Ids
<1>1. read \in Nat /\ k \in Nat /\ read + k <= Len(log) /\ Len(log) <= MaxLog
      /\ MaxLog \in Nat /\ Len(log) \in Nat
  BY DispatchAssumption, LenProperties DEF TypeOK, ReadBurst
<1>2. read + 1 .. read + k \subseteq Ids
  BY <1>1 DEF Ids
<1>3. Of(read + 1 .. read + k, w) \subseteq Ids
  BY <1>2 DEF Of
<1>. QED
  BY <1>3, BatchOfType

LEMMA MergeType ==
  ASSUME NEW p \in Waits, NEW b \in Batches
  PROVE  Merge(p, b) \in Waits
  BY DEF Merge, Waits, Batches

LEMMA ReadBurstType ==
  ASSUME TypeOK, NEW k \in 1..Burst, ReadBurst(k)
  PROVE  TypeOK'
<1> DEFINE D == read + 1 .. read + k
           B(w) == BatchOf(Of(D, w), w)
           waiting == [w \in Windows |-> Supersede(Of(D, w), pending[w])]
           kept == {w \in Windows : Calls(D, w)}
           run == {w \in kept : waiting[w] = None /\ B(w).triggers # {}}
<1>1. read \in Nat /\ k \in Nat /\ read + k <= Len(log) /\ Len(log) <= MaxLog
      /\ MaxLog \in Nat /\ Len(log) \in Nat
  BY DispatchAssumption, LenProperties DEF TypeOK, ReadBurst
<1>4. \A w \in Windows : B(w) \in Batches /\ File(Of(D, w), hist[w]) \subseteq Ids
  BY BurstType
<1>5. read' \in 0..Len(log')
  BY <1>1 DEF ReadBurst, server
<1>6. hist' \in [Windows -> SUBSET Ids]
  BY <1>4 DEF ReadBurst
<1>7. \A w \in Windows : waiting[w] = None \/ waiting[w] \in Waits
  BY DEF Supersede, TypeOK
<1>8. ASSUME NEW w \in Windows, waiting[w] \in Waits
      PROVE  Merge(waiting[w], B(w)) \in Waits
  BY <1>4, <1>8, MergeType
<1>9. pending' = [w \in Windows |->
         IF w \in kept /\ waiting[w] # None THEN Merge(waiting[w], B(w)) ELSE waiting[w]]
  BY DEF ReadBurst
<1>10. DOMAIN pending' = Windows
       /\ \A w \in Windows : pending'[w] = None \/ pending'[w] \in Waits
  BY <1>7, <1>8, <1>9
<1>11. todo' \in Seq(Batches)
  <2>1. PICK m \in 0..k : \E order \in [1..m -> run] : todo' = [i \in 1..m |-> B(order[i])]
    BY DEF ReadBurst
  <2>2. PICK order \in [1..m -> run] : todo' = [i \in 1..m |-> B(order[i])]
    BY <2>1
  <2>3. \A i \in 1..m : B(order[i]) \in Batches
    BY <1>4
  <2>. QED BY <1>1, <2>2, <2>3
<1>12. UNCHANGED <<server, timers, turn, loop, released, history>>
  BY DEF ReadBurst
<1>. QED
  BY <1>5, <1>6, <1>10, <1>11, <1>12 DEF TypeOK, server, history

LEMMA ClaimType ==
  ASSUME TypeOK, NEW b \in timers, Claim(b)
  PROVE  TypeOK'
<1>1. b \in Batches /\ b.win \in Windows
  BY DEF TypeOK, Batches
<1>2. todo' \in Seq(Batches)
  <2>1. CASE Claims(b)
    <3>1. pending[b.win] \in Waits
      BY <1>1, <2>1 DEF Claims, TypeOK
    <3>2. pending[b.win].batch \in Batches
      BY <3>1 DEF Waits
    <3>3. todo' = <<pending[b.win].batch>>
      BY <2>1 DEF Claim
    <3>. QED BY <3>2, <3>3
  <2>2. CASE ~Claims(b)
    BY <2>2 DEF Claim, TypeOK
  <2>. QED BY <2>1, <2>2
<1>3. DOMAIN pending' = Windows
      /\ \A w \in Windows : pending'[w] = None \/ pending'[w] \in Waits
  BY DEF Claim, TypeOK
<1>4. timers' \subseteq Batches
  BY DEF Claim, TypeOK
<1>5. UNCHANGED <<server, read, hist, turn, loop, released, history>>
  BY DEF Claim
<1>. QED
  BY <1>2, <1>3, <1>4, <1>5 DEF TypeOK, server, history

LEMMA FailType ==
  ASSUME TypeOK, FailTransiently
  PROVE  TypeOK'
<1> DEFINE b == [turn.batch EXCEPT !.retried = TRUE]
<1>1. turn \in Turns /\ turn.batch \in Batches
  BY DEF TypeOK, FailTransiently, Sent, Turns
<1>2. b \in Batches
  BY <1>1 DEF Batches
<1>3. turn.batch.triggers \subseteq Ids
  BY <1>1 DEF Batches
<1> HIDE DEF b
<1>4. /\ timers' = timers \cup {b} /\ turn' = None
      /\ pending' = [pending EXCEPT ![b.win] = [token |-> b, batch |-> b]]
      /\ acted' = IF turn.acted THEN acted \cup turn.batch.triggers ELSE acted
  BY DEF FailTransiently, Leaves, b
<1>5. [token |-> b, batch |-> b] \in Waits
  BY <1>2 DEF Waits
<1>6. DOMAIN pending' = Windows
      /\ \A w \in Windows : pending'[w] = None \/ pending'[w] \in Waits
  BY <1>4, <1>5 DEF TypeOK
<1>7. acted' \subseteq Ids
  BY <1>3, <1>4 DEF TypeOK
<1>8. UNCHANGED <<server, read, hist, todo, loop, released, settled, sends>>
  BY DEF FailTransiently
<1>. QED
  BY <1>2, <1>4, <1>6, <1>7, <1>8 DEF TypeOK, server

LEMMA DroppedType ==
  ASSUME TypeOK, turn # None, Dropped
  PROVE  TypeOK'
<1>1. turn.batch.triggers \subseteq Ids
  BY DEF TypeOK, Turns, Batches
<1>2. acted' \subseteq Ids /\ turn' = None
  BY <1>1 DEF Dropped, Leaves, TypeOK
<1>3. UNCHANGED <<server, client, released, settled, sends>>
  BY DEF Dropped
<1>. QED
  BY <1>2, <1>3 DEF TypeOK, server, client

LEMMA SettlesType ==
  ASSUME TypeOK, turn # None, Settles
  PROVE  TypeOK'
<1>1. turn.batch.triggers \subseteq Ids /\ Covers(turn.batch) \subseteq Ids
  BY DEF TypeOK, Turns, Batches, Covers
<1>2. acted' \subseteq Ids /\ turn' = None /\ settled' \subseteq Ids
  BY <1>1 DEF Settles, Leaves, TypeOK
<1>3. UNCHANGED <<server, client, released, sends>>
  BY DEF Settles
<1>. QED
  BY <1>2, <1>3 DEF TypeOK, server, client

\* A delivery is queued, whatever it is.
LEMMA QueueType ==
  ASSUME TypeOK, NEW kind \in {"msg", "topic", "invite", "part", "join"},
         NEW w \in Windows, NEW s \in Nat, Queue(kind, w, s)
  PROVE  /\ log' \in Seq(Deliveries) /\ Len(log') = Len(log) + 1 /\ Len(log') <= MaxLog
         /\ read \in 0..Len(log')
<1>1. [kind |-> kind, win |-> w, stint |-> s] \in Deliveries
  BY DEF Deliveries
<1>2. log' = Append(log, [kind |-> kind, win |-> w, stint |-> s]) /\ Len(log) < MaxLog
  BY DEF Queue
<1>3. log' \in Seq(Deliveries) /\ Len(log') = Len(log) + 1
  BY <1>1, <1>2, AppendProperties DEF TypeOK
<1>. QED
  BY <1>2, <1>3, DispatchAssumption, LenProperties DEF TypeOK

LEMMA RunToolType ==
  ASSUME TypeOK, RunTool
  PROVE  TypeOK'
<1>1. turn' \in Turns
  BY DEF RunTool, Sent, TypeOK, Turns
<1>2. UNCHANGED <<client, released, history>>
  BY DEF RunTool
<1>3. CASE UNCHANGED server
  BY <1>1, <1>2, <1>3 DEF TypeOK, server, client, history
<1>4. ASSUME NEW w \in member, Queue("part", w, stint[w]),
             member' = member \ {w}, UNCHANGED <<invited, stint, gone, interrupts>>
      PROVE  TypeOK'
  <2>1. w \in Windows /\ stint[w] \in Nat
    BY DEF TypeOK
  <2>2. /\ log' \in Seq(Deliveries) /\ Len(log') <= MaxLog /\ read \in 0..Len(log')
    BY <1>4, <2>1, QueueType
  <2>. QED BY <1>1, <1>2, <1>4, <2>2 DEF TypeOK, client, history
<1>5. ASSUME NEW w \in Windows \ member, Queue("join", w, stint[w] + 1),
             member' = member \cup {w}, invited' = invited \ {w},
             stint' = [stint EXCEPT ![w] = @ + 1], UNCHANGED <<gone, interrupts>>
      PROVE  TypeOK'
  <2>1. w \in Windows /\ stint[w] \in Nat /\ stint[w] + 1 \in Nat
    BY DEF TypeOK
  <2>2. /\ log' \in Seq(Deliveries) /\ Len(log') <= MaxLog /\ read \in 0..Len(log')
    BY <1>5, <2>1, QueueType
  <2>3. stint' \in [Windows -> Nat]
    BY <1>5, <2>1 DEF TypeOK
  <2>. QED BY <1>1, <1>2, <1>5, <2>1, <2>2, <2>3 DEF TypeOK, client, history
<1>. QED
  BY <1>3, <1>4, <1>5 DEF RunTool

LEMMA InterruptedType ==
  ASSUME TypeOK, NEW W
  PROVE  Interrupted(turn, W) = None \/ Interrupted(turn, W) \in Turns
  BY DEF Interrupted, TypeOK, Turns

LEMMA EnvironmentType ==
  ASSUME TypeOK, Environment
  PROVE  TypeOK'
<1>1. ASSUME NEW w \in Windows, NEW kind \in {"msg", "topic"}, Say(w, kind)
      PROVE  TypeOK'
  <2>1. /\ log' \in Seq(Deliveries) /\ Len(log') <= MaxLog /\ read \in 0..Len(log')
    BY <1>1, QueueType DEF Say, TypeOK
  <2>. QED BY <1>1, <2>1 DEF Say, TypeOK, client, history
<1>2. ASSUME NEW w \in Windows, Invite(w)
      PROVE  TypeOK'
  <2>1. /\ log' \in Seq(Deliveries) /\ Len(log') <= MaxLog /\ read \in 0..Len(log')
    BY <1>2, QueueType DEF Invite, TypeOK
  <2>. QED BY <1>2, <2>1 DEF Invite, TypeOK, client, history
<1>3. ASSUME NEW w \in Windows, Kick(w)
      PROVE  TypeOK'
  <2>1. /\ log' \in Seq(Deliveries) /\ Len(log') <= MaxLog /\ read \in 0..Len(log')
    BY <1>3, QueueType DEF Kick, TypeOK
  <2>. QED BY <1>3, <2>1 DEF Kick, TypeOK, client, history
<1>4. CASE Quit
  BY <1>4 DEF Quit, TypeOK, client, history
<1>5. CASE Release
  BY <1>5, InterruptedType DEF Release, TypeOK, server, client, history
<1>6. ASSUME NEW W \in interrupts, Interrupt(W)
      PROVE  TypeOK'
  BY <1>6, InterruptedType DEF Interrupt, TypeOK, client, history
<1>. QED
  BY <1>1, <1>2, <1>3, <1>4, <1>5, <1>6 DEF Environment

LEMMA TypeInit == Init => TypeOK
<1> SUFFICES ASSUME Init PROVE TypeOK
  OBVIOUS
<1>1. log = <<>> /\ todo = <<>>
  BY DEF Init
<1>2. log \in Seq(Deliveries) /\ Len(log) = 0 /\ todo \in Seq(Batches)
  BY <1>1, EmptySeq
<1>3. /\ Len(log) <= MaxLog /\ read \in 0..Len(log)
  BY <1>2, DispatchAssumption DEF Init
<1>4. /\ stint \in [Windows -> Nat] /\ hist \in [Windows -> SUBSET Ids]
      /\ sends \in [Ids -> Nat]
  BY DEF Init
<1>. QED
  BY <1>2, <1>3, <1>4 DEF Init, TypeOK

LEMMA TypeStep == TypeOK /\ [Next]_vars => TypeOK'
<1> SUFFICES ASSUME TypeOK, [Next]_vars PROVE TypeOK'
  OBVIOUS
<1>1. CASE Loop
  <2>1. ASSUME NEW b \in timers, AbandonRetry(b) PROVE TypeOK'
    BY <2>1 DEF AbandonRetry, TypeOK, server, history
  <2>2. CASE Exit
    <3>1. todo' \in Seq(Batches)
      BY <2>2, EmptySeq DEF Exit
    <3>. QED BY <2>2, <3>1 DEF Exit, TypeOK, server, history
  <2>. QED
    BY <1>1, <2>1, <2>2, ReadBurstType, ClaimType DEF Loop
<1>2. CASE Turn
  <2>1. CASE StartTurn
    <3>1. todo # <<>> /\ Head(todo) \in Batches /\ Tail(todo) \in Seq(Batches)
      BY <2>1, HeadTailProperties DEF StartTurn, TypeOK
    <3>2. turn' \in Turns
      BY <2>1, <3>1 DEF StartTurn, Turns
    <3>. QED BY <2>1, <3>1, <3>2 DEF StartTurn, TypeOK, server, history
  <2>2. CASE Capture
    <3>1. CASE Authority(turn.batch)
      <4>1. turn.batch.win \in Windows
        BY <2>2 DEF Capture, TypeOK, Turns, Batches
      <4>2. stint[turn.batch.win] \in Nat
        BY <4>1 DEF TypeOK
      <4>3. turn' \in Turns
        BY <2>2, <3>1, <4>2 DEF Capture, TypeOK, Turns
      <4>. QED BY <2>2, <3>1, <4>3 DEF Capture, TypeOK, server, client, history
    <3>. QED BY <2>2, <3>1, DroppedType DEF Capture
  <2>3. CASE Send
    <3>1. CASE Guarded(turn)
      <4>1. turn' \in Turns
        BY <2>3, <3>1 DEF Send, TypeOK, Turns
      <4>2. sends' \in [Ids -> Nat]
        <5>1. \A n \in Ids : sends[n] \in Nat /\ sends[n] + 1 \in Nat
          BY DEF TypeOK
        <5>2. sends' = [n \in Ids |->
                IF n \in Covers(turn.batch) \ settled THEN sends[n] + 1 ELSE sends[n]]
          BY <2>3, <3>1 DEF Send
        <5>. QED BY <5>1, <5>2
      <4>. QED BY <2>3, <3>1, <4>1, <4>2 DEF Send, TypeOK, server, client
    <3>. QED BY <2>3, <3>1, DroppedType DEF Send
  <2>4. CASE Answer \/ FailFinally
    BY <2>4, SettlesType DEF Answer, FailFinally, Sent
  <2>5. CASE Closed \/ Cancelled
    BY <2>5, DroppedType DEF Closed, Cancelled, Sent
  <2>. QED
    BY <1>2, <2>1, <2>2, <2>3, <2>4, <2>5, FailType, RunToolType DEF Turn
<1>3. CASE UNCHANGED vars
  BY <1>3 DEF vars, TypeOK, server, client, history
<1>. QED
  BY <1>1, <1>2, <1>3, EnvironmentType DEF Next

\* Every value the dispatch loop holds keeps its type.
THEOREM TypeCorrect == Spec => []TypeOK
  BY TypeInit, TypeStep, PTL DEF Spec
-----------------------------------------------------------------------------
(* What the server queues: the deliveries of a window, told apart by the   *)
(* memberships they belong to.                                             *)

Line(n) == ~Is(n, "invite")
Together(m, n) == log[m].win = log[n].win
Parted(m, n) == \E i \in m..n : Together(i, m) /\ Is(i, "part")

\* A delivery and the client's present membership or invitation.
NowInv ==
  \A n \in 1..Len(log) :
    LET w == log[n].win IN
    /\ log[n].stint <= stint[w]
    /\ Line(n) => (w \in member /\ log[n].stint = stint[w]) \/ Parted(n, Len(log))
    /\ Is(n, "part") => w \notin member \/ log[n].stint < stint[w]
    /\ Is(n, "invite") => w \notin member \/ log[n].stint < stint[w]
    /\ Is(n, "invite") => w \in invited \/ log[n].stint < stint[w]

\* An earlier and a later delivery of one window.
OrderInv ==
  \A m, n \in 1..Len(log) : m < n /\ Together(m, n) =>
    /\ log[m].stint <= log[n].stint
    /\ Line(m) /\ (log[m].stint # log[n].stint \/ ~Line(n)) => Parted(m, n - 1)
    /\ (~Line(m) /\ Line(n)) \/ Is(n, "join") => log[m].stint < log[n].stint

LogInv == invited \cap member = {} /\ NowInv /\ OrderInv

Quiet == UNCHANGED <<member, invited, stint, log>>
Speaks(w, kind) ==
  w \in member /\ Queue(kind, w, stint[w]) /\ UNCHANGED <<member, invited, stint>>
Invites(w) ==
  /\ w \notin member \cup invited /\ Queue("invite", w, stint[w])
  /\ invited' = invited \cup {w} /\ UNCHANGED <<member, stint>>
Parts(w) ==
  /\ w \in member /\ Queue("part", w, stint[w])
  /\ member' = member \ {w} /\ UNCHANGED <<invited, stint>>
Joins(w) ==
  /\ w \notin member /\ Queue("join", w, stint[w] + 1)
  /\ member' = member \cup {w} /\ invited' = invited \ {w}
  /\ stint' = [stint EXCEPT ![w] = @ + 1]

\* What a step does to the client's place on the server.
LEMMA ServerStep ==
  ASSUME [Next]_vars
  PROVE  \/ Quiet
         \/ \E w \in Windows :
              (\E kind \in {"msg", "topic"} : Speaks(w, kind)) \/ Invites(w) \/ Joins(w)
         \/ \E w \in member : Parts(w)
<1>1. CASE Environment
  BY <1>1 DEF Environment, Say, Invite, Kick, Quit, Release, Interrupt, Speaks, Invites, Parts,
              Quiet, server
<1>2. CASE RunTool
  BY <1>2 DEF RunTool, Joins, Parts, Quiet, server
<1>3. CASE Loop \/ (Turn /\ ~RunTool)
  BY <1>3 DEF Loop, Turn, ReadBurst, Claim, AbandonRetry, Exit, StartTurn, Capture, Send, Answer,
              Cancelled, Closed, FailFinally, FailTransiently, Dropped, Settles, server, Quiet
<1>4. CASE UNCHANGED vars
  BY <1>4 DEF vars, server, Quiet
<1>. QED
  BY <1>1, <1>2, <1>3, <1>4 DEF Next

\* Queueing a delivery adds it at the end.
LEMMA QueueAdds ==
  ASSUME TypeOK, NEW kind, NEW w, NEW s, Queue(kind, w, s)
  PROVE  /\ Len(log) \in Nat /\ Len(log') = Len(log) + 1
         /\ \A m \in 1..Len(log) : log'[m] = log[m]
         /\ log'[Len(log) + 1] = [kind |-> kind, win |-> w, stint |-> s]
  BY AppendProperties, LenProperties DEF Queue, TypeOK

LEMMA LogInvInit == Init => LogInv
<1> SUFFICES ASSUME Init PROVE LogInv
  OBVIOUS
<1>1. Len(log) = 0 /\ invited = {}
  BY EmptySeq DEF Init
<1>. QED
  BY <1>1 DEF LogInv, NowInv, OrderInv

LEMMA LogInvStep ==
  ASSUME TypeOK, LogInv, [Next]_vars
  PROVE  LogInv'
<1>1. CASE Quiet
  BY <1>1 DEF Quiet, LogInv, NowInv, OrderInv, Line, Is, Together, Parted
<1>2. ASSUME NEW w \in Windows, NEW kind, NEW s \in Nat, Queue(kind, w, s),
             kind \in {"msg", "topic", "invite", "part", "join"},
             stint' \in [Windows -> Nat],
             \A v \in Windows : v # w => /\ (v \in member') = (v \in member)
                                         /\ (v \in invited') = (v \in invited)
                                         /\ stint'[v] = stint[v],
             invited' \cap member' = {},
             \/ Speaks(w, kind) /\ kind \in {"msg", "topic"} /\ s = stint[w]
             \/ Invites(w) /\ kind = "invite" /\ s = stint[w]
             \/ Parts(w) /\ kind = "part" /\ s = stint[w]
             \/ Joins(w) /\ kind = "join" /\ s = stint[w] + 1 /\ stint'[w] = stint[w] + 1
      PROVE  LogInv'
  <2> PICK L \in Nat : L = Len(log)
    BY LenProperties DEF TypeOK
  <2>1. /\ Len(log') = L + 1
        /\ \A m \in 1..L : log'[m] = log[m]
        /\ log'[L + 1] = [kind |-> kind, win |-> w, stint |-> s]
    BY <1>2, QueueAdds
  <2>2. \A n \in 1..L : log[n].win \in Windows /\ log[n].stint \in Nat
                       /\ stint[log[n].win] \in Nat
    <3>1. \A n \in 1..L : log[n] \in Deliveries
      BY DEF TypeOK
    <3>. QED BY <3>1 DEF Deliveries, TypeOK
  <2>3. ASSUME NEW m \in 1..L, NEW n \in 0..L, Parted(m, n)
        PROVE  Parted(m, n)' /\ Parted(m, L + 1)'
    BY <2>1, <2>3 DEF Parted, Together, Is
  <2>4. \A m \in 1..L : /\ \A kd : (Is(m, kd)' <=> Is(m, kd))
                        /\ (Line(m)' <=> Line(m))
                        /\ \A n \in 1..L : (Together(m, n)' <=> Together(m, n))
                        /\ (Together(m, L + 1)' <=> (log[m].win = w))
    BY <2>1 DEF Is, Line, Together
  <2>5. /\ \A kd : (Is(L + 1, kd)' <=> (kind = kd))
        /\ (Line(L + 1)' <=> (kind # "invite"))
    BY <2>1 DEF Is, Line
  <2>6. kind = "part" => Parted(L + 1, L + 1)'
                         /\ \A m \in 1..L : log[m].win = w => Parted(m, L + 1)'
    <3>1. CASE kind = "part"
      <4>1. log'[L + 1].win = w /\ log'[L + 1].kind = "part" /\ L + 1 \in L + 1 .. L + 1
        BY <2>1, <3>1
      <4>2. \A m \in 1..L : log'[m].win = log[m].win /\ L + 1 \in m .. L + 1
        BY <2>1
      <4>. QED BY <4>1, <4>2 DEF Parted, Together, Is
    <3>. QED BY <3>1
  <2>7. w \in invited' \/ kind # "invite"
    BY <1>2 DEF Invites
  <2>8. /\ kind = "msg" \/ kind = "topic" => w \in member /\ w \in member' /\ s = stint[w] /\ stint'[w] = stint[w]
        /\ kind = "invite" => w \notin member /\ w \notin member' /\ s = stint[w] /\ stint'[w] = stint[w]
        /\ kind = "part" => w \in member /\ w \notin member' /\ s = stint[w] /\ stint'[w] = stint[w]
        /\ kind = "join" => w \notin member /\ w \in member' /\ s = stint[w] + 1 /\ stint'[w] = s
        /\ w \in invited /\ kind # "join" => w \in invited'
    BY <1>2 DEF Speaks, Invites, Parts, Joins, TypeOK
  <2>9. NowInv'
    <3>1. ASSUME NEW n \in 1..L, log[n].win # w
          PROVE  LET v == log'[n].win IN
                 /\ log'[n].stint <= stint'[v]
                 /\ Line(n)' => (v \in member' /\ log'[n].stint = stint'[v]) \/ Parted(n, L + 1)'
                 /\ Is(n, "part")' => v \notin member' \/ log'[n].stint < stint'[v]
                 /\ Is(n, "invite")' => v \notin member' \/ log'[n].stint < stint'[v]
                 /\ Is(n, "invite")' => v \in invited' \/ log'[n].stint < stint'[v]
      BY <1>2, <2>1, <2>2, <2>3, <2>4, <3>1 DEF LogInv, NowInv
    <3>2. ASSUME NEW n \in 1..L, log[n].win = w
          PROVE  LET v == log'[n].win IN
                 /\ log'[n].stint <= stint'[v]
                 /\ Line(n)' => (v \in member' /\ log'[n].stint = stint'[v]) \/ Parted(n, L + 1)'
                 /\ Is(n, "part")' => v \notin member' \/ log'[n].stint < stint'[v]
                 /\ Is(n, "invite")' => v \notin member' \/ log'[n].stint < stint'[v]
                 /\ Is(n, "invite")' => v \in invited' \/ log'[n].stint < stint'[v]
      <4>1. CASE kind = "part"
        BY <2>1, <2>2, <2>4, <2>6, <2>8, <3>2, <4>1 DEF LogInv, NowInv
      <4>2. CASE kind # "part"
        BY <1>2, <2>1, <2>2, <2>3, <2>4, <2>8, <3>2, <4>2 DEF LogInv, NowInv
      <4>. QED BY <4>1, <4>2
    <3>3. LET v == log'[L + 1].win IN
                 /\ log'[L + 1].stint <= stint'[v]
                 /\ Line(L + 1)' => (v \in member' /\ log'[L + 1].stint = stint'[v]) \/ Parted(L + 1, L + 1)'
                 /\ Is(L + 1, "part")' => v \notin member' \/ log'[L + 1].stint < stint'[v]
                 /\ Is(L + 1, "invite")' => v \notin member' \/ log'[L + 1].stint < stint'[v]
                 /\ Is(L + 1, "invite")' => v \in invited' \/ log'[L + 1].stint < stint'[v]
      <4>1. log'[L + 1].win = w /\ log'[L + 1].stint = s /\ stint'[w] \in Nat
        BY <1>2, <2>1
      <4>2. kind \in {"msg", "topic", "invite", "part", "join"}
        BY <1>2
      <4>3. /\ s <= stint'[w]
            /\ kind # "invite" => (w \in member' /\ s = stint'[w]) \/ kind = "part"
            /\ kind = "part" \/ kind = "invite" => w \notin member'
            /\ kind = "invite" => w \in invited'
        BY <2>7, <2>8, <4>1, <4>2
      <4>. QED BY <2>5, <2>6, <4>1, <4>3
    <3>. QED BY <2>1, <3>1, <3>2, <3>3 DEF NowInv
  <2>10. OrderInv'
    <3>1. ASSUME NEW m \in 1..L, NEW n \in 1..L, m < n, Together(m, n)
          PROVE  /\ log'[m].stint <= log'[n].stint
                 /\ Line(m)' /\ (log'[m].stint # log'[n].stint \/ ~Line(n)') => Parted(m, n - 1)'
                 /\ (~Line(m)' /\ Line(n)') \/ Is(n, "join")' => log'[m].stint < log'[n].stint
      <4>1. n - 1 \in 0..L
        OBVIOUS
      <4>. QED BY <2>1, <2>3, <2>4, <3>1, <4>1 DEF LogInv, OrderInv
    <3>2. ASSUME NEW m \in 1..L, log[m].win = w
          PROVE  /\ log'[m].stint <= log'[L + 1].stint
                 /\ Line(m)' /\ (log'[m].stint # log'[L + 1].stint \/ ~Line(L + 1)') => Parted(m, L)'
                 /\ (~Line(m)' /\ Line(L + 1)') \/ Is(L + 1, "join")' => log'[m].stint < log'[L + 1].stint
      <4>1. kind \in {"msg", "topic", "invite", "part", "join"}
        BY <1>2
      <4>2. /\ log[m].stint \in Nat /\ stint[w] \in Nat
            /\ log'[m].stint = log[m].stint /\ log'[L + 1].stint = s
        BY <2>1, <2>2, <3>2
      <4>3. /\ log[m].stint <= stint[w]
            /\ Line(m) => (w \in member /\ log[m].stint = stint[w]) \/ Parted(m, L)
            /\ ~Line(m) => w \notin member \/ log[m].stint < stint[w]
        BY <2>1, <3>2 DEF LogInv, NowInv, Line
      <4>4. Parted(m, L) => Parted(m, L)'
        BY <2>3
      <4>5. Line(m)' <=> Line(m)
        BY <2>4
      <4>. QED BY <2>5, <2>8, <4>1, <4>2, <4>3, <4>4, <4>5
    <3>3. (L + 1) - 1 = L
      OBVIOUS
    <3>. QED BY <2>1, <2>4, <3>1, <3>2, <3>3 DEF OrderInv
  <2>. QED BY <1>2, <2>9, <2>10 DEF LogInv
<1>3. \A w \in Windows : stint[w] \in Nat /\ stint[w] + 1 \in Nat
  BY DEF TypeOK
<1>4. stint \in [Windows -> Nat] /\ invited \cap member = {}
  BY DEF TypeOK, LogInv
<1>5. ASSUME NEW w \in Windows, NEW kind \in {"msg", "topic"}, Speaks(w, kind)
      PROVE  LogInv'
  <2>1. Queue(kind, w, stint[w]) /\ UNCHANGED <<member, invited, stint>>
    BY <1>5 DEF Speaks
  <2>. QED BY <1>2, <1>3, <1>4, <1>5, <2>1
<1>6. ASSUME NEW w \in Windows, Invites(w)
      PROVE  LogInv'
  <2>1. /\ Queue("invite", w, stint[w]) /\ w \notin member
        /\ invited' = invited \cup {w} /\ UNCHANGED <<member, stint>>
    BY <1>6 DEF Invites
  <2>2. invited' \cap member' = {}
    BY <1>4, <2>1
  <2>. QED BY <1>2, <1>3, <1>4, <1>6, <2>1, <2>2
<1>7. ASSUME NEW w \in Windows, Parts(w)
      PROVE  LogInv'
  <2>1. /\ Queue("part", w, stint[w])
        /\ member' = member \ {w} /\ UNCHANGED <<invited, stint>>
    BY <1>7 DEF Parts
  <2>2. invited' \cap member' = {}
    BY <1>4, <2>1
  <2>. QED BY <1>2, <1>3, <1>4, <1>7, <2>1, <2>2
<1>8. ASSUME NEW w \in Windows, Joins(w)
      PROVE  LogInv'
  <2>1. /\ Queue("join", w, stint[w] + 1)
        /\ member' = member \cup {w} /\ invited' = invited \ {w}
        /\ stint' = [stint EXCEPT ![w] = @ + 1]
    BY <1>8 DEF Joins
  <2>2. invited' \cap member' = {}
    BY <1>4, <2>1
  <2>3. /\ stint' \in [Windows -> Nat] /\ stint'[w] = stint[w] + 1
        /\ \A v \in Windows : v # w => stint'[v] = stint[v]
    BY <1>3, <1>4, <2>1
  <2>. QED BY <1>2, <1>3, <1>8, <2>1, <2>2, <2>3
<1>9. member \subseteq Windows
  BY DEF TypeOK
<1>. QED
  BY <1>1, <1>5, <1>6, <1>7, <1>8, <1>9, ServerStep

-----------------------------------------------------------------------------
(* The batches that the loop may still run.                                *)

\* The same batch, but for its failed attempt.
Alike(b, c) ==
  /\ b.win = c.win /\ b.triggers = c.triggers
  /\ b.history = c.history /\ b.events = c.events

\* Where a batch of the loop is.
LEMMA LiveIs ==
  ASSUME NEW b
  PROVE  (b \in Live) <=> (\/ \E i \in DOMAIN todo : b = todo[i]
                           \/ \E w \in Windows : pending[w] # None /\ b = pending[w].batch
                           \/ turn # None /\ b = turn.batch)
  BY DEF Live, Range

LEMMA LiveIsNext ==
  ASSUME NEW b
  PROVE  (b \in Live') <=> (\/ \E i \in DOMAIN todo' : b = todo'[i]
                            \/ \E w \in Windows : pending'[w] # None /\ b = pending'[w].batch
                            \/ turn' # None /\ b = turn'.batch)
  BY DEF Live, Range

Reads == \E k \in 1..Burst : ReadBurst(k)

\* The steps of a turn and of the others move no batch, except that a turn ends.
LEMMA TurnKept ==
  ASSUME TypeOK, Environment \/ Exit \/ Capture \/ Send \/ Answer \/ Cancelled \/ Closed
                 \/ FailFinally \/ RunTool
  PROVE  /\ pending' = pending
         /\ todo' = todo \/ todo' = <<>>
         /\ turn' = None \/ (turn # None /\ turn'.batch = turn.batch)
<1>1. CASE Environment
  <2>1. /\ todo' = todo /\ pending' = pending
        /\ turn' = turn \/ \E W : turn' = Interrupted(turn, W)
    BY <1>1 DEF Environment, Say, Invite, Kick, Quit, Release, Interrupt, client
  <2>2. turn' = None \/ (turn # None /\ turn'.batch = turn.batch)
    BY <2>1 DEF Interrupted, TypeOK, Turns
  <2>. QED BY <2>1, <2>2
<1>2. CASE Exit \/ Capture \/ Send \/ Answer \/ Cancelled \/ Closed \/ FailFinally \/ RunTool
  <2>1. /\ todo' = todo \/ todo' = <<>>
        /\ pending' = pending
    BY <1>2 DEF Exit, Capture, Send, Answer, Cancelled, Closed, FailFinally, RunTool, Dropped,
                Settles, client
  <2>2. turn = None \/ turn \in Turns
    BY DEF TypeOK
  <2>3. turn' = None \/ (turn # None /\ turn'.batch = turn.batch)
    <3>1. CASE Exit
      BY <3>1 DEF Exit
    <3>2. CASE Capture \/ Send
      BY <2>2, <3>2 DEF Capture, Send, Dropped, Turns
    <3>3. CASE RunTool
      BY <2>2, <3>3 DEF RunTool, Sent, Turns
    <3>4. CASE Answer \/ Cancelled \/ Closed \/ FailFinally
      BY <3>4 DEF Answer, Cancelled, Closed, FailFinally, Dropped, Settles
    <3>. QED BY <1>2, <3>1, <3>2, <3>3, <3>4
  <2>. QED BY <2>1, <2>3
<1>. QED
  BY <1>1, <1>2

\* No step but the reading of a burst makes a batch or changes what one shows.
LEMMA LiveKept ==
  ASSUME TypeOK, [Next]_vars, ~Reads, NEW b \in Live'
  PROVE  \E c \in Live : Alike(b, c)
<1>1. ASSUME b \in Live PROVE \E c \in Live : Alike(b, c)
  BY <1>1 DEF Alike
<1>2. CASE /\ todo' = todo \/ todo' = <<>>
           /\ pending' = pending
           /\ turn' = None \/ (turn # None /\ turn'.batch = turn.batch)
  BY <1>1, <1>2, LiveIs, LiveIsNext
<1>3. ASSUME NEW c \in timers, Claim(c) PROVE b \in Live
  <2>1. CASE Claims(c)
    <3>1. /\ todo' = <<pending[c.win].batch>> /\ turn' = turn
          /\ pending' = [pending EXCEPT ![c.win] = None] /\ pending[c.win] # None
      BY <1>3, <2>1 DEF Claim, Claims
    <3>2. c.win \in Windows
      BY DEF TypeOK, Batches
    <3>3. \A i \in DOMAIN todo' : todo'[i] = pending[c.win].batch
      BY <3>1
    <3>4. \A w \in Windows : pending'[w] # None => pending'[w] = pending[w]
      BY <3>1 DEF TypeOK
    <3>. QED BY <3>1, <3>2, <3>3, <3>4, LiveIs, LiveIsNext
  <2>2. CASE ~Claims(c)
    <3>1. UNCHANGED <<todo, pending, turn>>
      BY <1>3, <2>2 DEF Claim
    <3>. QED BY <3>1, LiveIs, LiveIsNext
  <2>. QED BY <2>1, <2>2
<1>4. ASSUME StartTurn PROVE b \in Live
  <2>1. /\ todo # <<>> /\ turn'.batch = Head(todo)
        /\ todo' = Tail(todo) /\ pending' = pending
    BY <1>4 DEF StartTurn
  <2>2. Head(todo) = todo[1] /\ 1 \in DOMAIN todo
    BY <2>1, HeadTailProperties, LenProperties DEF TypeOK
  <2>3. \A i \in DOMAIN todo' : i + 1 \in DOMAIN todo /\ todo'[i] = todo[i + 1]
    BY <2>1, HeadTailProperties, LenProperties DEF TypeOK
  <2>. QED BY <2>1, <2>2, <2>3, LiveIs, LiveIsNext
<1>5. CASE FailTransiently
  <2> DEFINE f == [turn.batch EXCEPT !.retried = TRUE]
  <2>1. /\ todo' = todo /\ turn' = None /\ turn # None
        /\ pending' = [pending EXCEPT ![f.win] = [token |-> f, batch |-> f]]
    BY <1>5 DEF FailTransiently, Sent
  <2>2. turn.batch \in Batches
    BY <2>1 DEF TypeOK, Turns
  <2>3. Alike(f, turn.batch)
    BY <2>2 DEF Alike, Batches
  <2> HIDE DEF f
  <2>4. \A w \in Windows : pending'[w] = pending[w] \/ pending'[w].batch = f
    BY <2>1 DEF TypeOK
  <2>5. b \in Live \/ b = f
    BY <2>1, <2>4, LiveIs, LiveIsNext
  <2>6. turn.batch \in Live
    BY <2>1, LiveIs
  <2>. QED BY <1>1, <2>3, <2>5, <2>6
<1>6. CASE Environment \/ Exit \/ Capture \/ Send \/ Answer \/ Cancelled \/ Closed
           \/ FailFinally \/ RunTool
  BY <1>2, <1>6, TurnKept
<1>8. ASSUME NEW c \in timers, AbandonRetry(c) PROVE b \in Live
  BY <1>8, LiveIs, LiveIsNext DEF AbandonRetry
<1>9. CASE UNCHANGED vars
  BY <1>9, LiveIs, LiveIsNext, <1>1 DEF vars, client
<1>. QED
  BY <1>1, <1>3, <1>4, <1>5, <1>6, <1>8, <1>9 DEF Next, Loop, Turn, Reads

(* Reading a burst keeps a waiting batch whose window did not close, or files
   the burst for a window: it makes the window's batch, or a merge of it. *)
LEMMA LiveRead ==
  ASSUME TypeOK, NEW k \in 1..Burst, ReadBurst(k), NEW b \in Live'
  PROVE  \/ b \in Live
         \/ \E w \in Windows :
              /\ Alike(b, BatchOf(Of(read + 1 .. read + k, w), w)) /\ b.triggers # {}
<1> DEFINE D == read + 1 .. read + k
           B(w) == BatchOf(Of(D, w), w)
           waiting == [w \in Windows |-> Supersede(Of(D, w), pending[w])]
           kept == {w \in Windows : Calls(D, w)}
           run == {w \in kept : waiting[w] = None /\ B(w).triggers # {}}
<1>1. CASE \E i \in DOMAIN todo' : b = todo'[i]
  <2>1. PICK m \in 0..k : \E order \in [1..m -> run] : todo' = [i \in 1..m |-> B(order[i])]
    BY DEF ReadBurst
  <2>2. PICK w \in run : b = B(w)
    BY <1>1, <2>1
  <2>. QED BY <2>2 DEF Alike
<1>2. ASSUME NEW w \in Windows, pending'[w] # None, b = pending'[w].batch
      PROVE  b \in Live \/ (Alike(b, B(w)) /\ b.triggers # {})
  <2>1. pending'[w] = IF w \in kept /\ waiting[w] # None THEN Merge(waiting[w], B(w)) ELSE waiting[w]
    BY DEF ReadBurst
  <2>2. waiting[w] = None \/ waiting[w] = pending[w]
    BY DEF Supersede
  <2>3. CASE ~(w \in kept /\ waiting[w] # None)
    BY <1>2, <2>1, <2>2, <2>3, LiveIs
  <2>4. CASE w \in kept /\ waiting[w] # None
    <3>1. pending[w] \in Waits /\ waiting[w] = pending[w]
      BY <2>2, <2>4 DEF TypeOK
    <3>2. b = [B(w) EXCEPT !.retried = pending[w].batch.retried \/ B(w).retried]
      BY <1>2, <2>1, <2>4, <3>1 DEF Merge, Waits
    <3>3. Alike(b, B(w)) /\ b.triggers = {n \in SinceClosing(Of(D, w)) : Trigger(n)}
      BY <3>2 DEF Alike, BatchOf
    <3>4. \A n \in Of(D, w) : ~Is(n, "part")
      BY <2>4 DEF Supersede
    <3>5. SinceClosing(Of(D, w)) = Of(D, w)
      BY <3>4 DEF SinceClosing
    <3>6. \E n \in Of(D, w) : Trigger(n)
      BY <2>4 DEF Calls
    <3>. QED BY <3>3, <3>5, <3>6
  <2>. QED BY <2>3, <2>4
<1>3. CASE turn' # None /\ b = turn'.batch
  BY <1>3, LiveIs DEF ReadBurst
<1>. QED
  BY <1>1, <1>2, <1>3, LiveIsNext

-----------------------------------------------------------------------------
(* What a prompt shows.                                                    *)

\* The transcript of a window: everything since its last opening.
HistInv ==
  \A w \in Windows : \A m \in hist[w] :
    /\ m \in 1..read /\ log[m].win = w
    /\ \A i \in m..read : log[i].win = w => ~Is(i, "part") /\ i \in hist[w]

WellFiled(b) ==
  /\ b.triggers # {} /\ b.triggers \subseteq b.events
  /\ \A n \in b.triggers : Trigger(n)
  /\ \A m \in b.history, n \in b.events : m < n
  /\ \A m \in Covers(b) : m \in 1..read /\ log[m].win = b.win
  /\ \A m, n \in Covers(b) : \A i \in m..n :
       log[i].win = b.win => ~Is(i, "part") /\ i \in Covers(b)

PromptInv == HistInv /\ \A b \in Live : WellFiled(b)

\* What is in the log stays there.
LEMMA LogKept ==
  ASSUME TypeOK, [Next]_vars
  PROVE  /\ Len(log) \in Nat /\ Len(log') \in Nat /\ Len(log) <= Len(log')
         /\ \A m \in 1..Len(log) : log'[m] = log[m]
<1>1. Len(log) \in Nat
  BY LenProperties DEF TypeOK
<1>2. CASE log' = log
  BY <1>1, <1>2
<1>3. ASSUME NEW kind, NEW w, NEW s, Queue(kind, w, s)
      PROVE  /\ Len(log') \in Nat /\ Len(log) <= Len(log')
             /\ \A m \in 1..Len(log) : log'[m] = log[m]
  <2>1. Len(log') = Len(log) + 1 /\ \A m \in 1..Len(log) : log'[m] = log[m]
    BY <1>3, QueueAdds
  <2>. QED BY <1>1, <2>1
<1>4. Quiet => log' = log
  BY DEF Quiet
<1>5. \A w, kind : Speaks(w, kind) => Queue(kind, w, stint[w])
  BY DEF Speaks
<1>6. \A w : Invites(w) => Queue("invite", w, stint[w])
  BY DEF Invites
<1>7. \A w : Parts(w) => Queue("part", w, stint[w])
  BY DEF Parts
<1>8. \A w : Joins(w) => Queue("join", w, stint[w] + 1)
  BY DEF Joins
<1>9. log' = log \/ \E kind, w, s : Queue(kind, w, s)
  BY <1>4, <1>5, <1>6, <1>7, <1>8, ServerStep, Zenon
<1>. QED
  BY <1>1, <1>2, <1>3, <1>9

LEMMA ReadingKept ==
  ASSUME [Next]_vars, ~Reads
  PROVE  read' = read /\ hist' = hist
<1>1. CASE Loop
  BY <1>1 DEF Loop, Reads, Claim, AbandonRetry, Exit
<1>2. CASE Turn
  BY <1>2 DEF Turn, StartTurn, Capture, Send, Answer, Cancelled, Closed, FailFinally,
              FailTransiently, RunTool, Dropped, Settles, client
<1>3. CASE Environment
  BY <1>3 DEF Environment, Say, Invite, Kick, Quit, Release, Interrupt, client
<1>. QED
  BY <1>1, <1>2, <1>3 DEF Next, vars, client

\* A burst is filed from the window's last opening on.
LEMMA FiledWhole ==
  ASSUME TypeOK, PromptInv, NEW k \in 1..Burst, ReadBurst(k), NEW w \in Windows
  PROVE  /\ \A m \in hist'[w] :
              /\ m \in 1..read' /\ log[m].win = w
              /\ \A i \in m..read' : log[i].win = w => ~Is(i, "part") /\ i \in hist'[w]
         /\ \A b : b = BatchOf(Of(read + 1 .. read + k, w), w) /\ b.triggers # {}
                   => WellFiled(b)'
<1> PICK D : D = Of(read + 1 .. read + k, w)
  OBVIOUS
<1>1. read \in Nat /\ k \in Nat /\ read' = read + k /\ log' = log
  BY DispatchAssumption DEF TypeOK, ReadBurst, server
<1>2. \A n : n \in D <=> (n \in read + 1 .. read + k /\ log[n].win = w)
  BY DEF Of
<1>3. /\ \A n \in hist[w] : n \in 1..read /\ log[n].win = w
      /\ \A n \in hist[w] : \A i \in n..read : log[i].win = w => ~Is(i, "part") /\ i \in hist[w]
  BY DEF PromptInv, HistInv
<1>4. \A n : n \in SinceClosing(D) <=> (n \in D /\ \A m \in D : Is(m, "part") => n > m)
  BY DEF SinceClosing
<1>5. \A n \in SinceClosing(D) : \A i \in n..read + k :
        log[i].win = w => ~Is(i, "part") /\ i \in SinceClosing(D)
  BY <1>1, <1>2, <1>4
<1>6. ~Reopened(D) => SinceClosing(D) = D /\ \A n \in D : ~Is(n, "part")
  BY <1>4 DEF Reopened
<1>7. hist'[w] = File(D, hist[w])
  BY DEF ReadBurst
<1>8. ASSUME NEW m \in hist'[w]
      PROVE  /\ m \in 1..read' /\ log[m].win = w
             /\ \A i \in m..read' : log[i].win = w => ~Is(i, "part") /\ i \in hist'[w]
  <2>1. CASE Reopened(D)
    <3>1. hist'[w] = {n \in SinceClosing(D) : \A j \in D : Is(j, "join") => n >= j}
      BY <1>7, <2>1 DEF File
    <3>. QED BY <1>1, <1>2, <1>4, <1>5, <3>1
  <2>2. CASE ~Reopened(D)
    <3>1. hist'[w] = hist[w] \cup D
      BY <1>7, <2>2 DEF File
    <3>. QED BY <1>1, <1>2, <1>3, <1>6, <2>2, <3>1
  <2>. QED BY <2>1, <2>2
<1>9. ASSUME NEW b, b = BatchOf(D, w), b.triggers # {}
      PROVE  WellFiled(b)'
  <2>1. /\ b.win = w /\ b.events = SinceClosing(D)
        /\ b.history = IF Reopened(D) THEN {} ELSE hist[w]
        /\ b.triggers = {n \in SinceClosing(D) : Trigger(n)} /\ b.triggers # {}
    BY <1>9 DEF BatchOf
  <2>2. \A m \in b.history : m \in hist[w] /\ ~Reopened(D)
    BY <2>1
  <2>3. \A m \in b.history, n \in b.events : m < n
    BY <1>1, <1>2, <1>3, <1>4, <2>1, <2>2
  <2>4. \A m \in Covers(b) : m \in 1..read' /\ log[m].win = w
    BY <1>1, <1>2, <1>3, <1>4, <2>1, <2>2 DEF Covers
  <2>5. ASSUME NEW m \in Covers(b), NEW n \in Covers(b), NEW i \in m..n, log[i].win = w
        PROVE  ~Is(i, "part") /\ i \in Covers(b)
    <3>1. i <= read + k
      BY <1>1, <2>4
    <3>2. CASE m \in b.events
      BY <1>5, <2>1, <2>5, <3>1, <3>2 DEF Covers
    <3>3. CASE m \in b.history
      <4>1. CASE i <= read
        BY <1>3, <2>1, <2>2, <2>5, <3>3, <4>1 DEF Covers
      <4>2. CASE i > read
        BY <1>1, <1>2, <1>6, <2>1, <2>2, <2>5, <3>1, <3>3, <4>2 DEF Covers
      <4>. QED BY <1>1, <4>1, <4>2, <2>5, <2>4
    <3>. QED BY <3>2, <3>3 DEF Covers
  <2>. QED
    BY <1>1, <2>1, <2>3, <2>4, <2>5 DEF WellFiled, Covers, Is, Trigger
<1>. QED
  BY <1>8, <1>9

LEMMA PromptInvStep ==
  ASSUME TypeOK, PromptInv, [Next]_vars
  PROVE  PromptInv'
<1>1. /\ read \in Nat /\ read <= Len(log)
      /\ \A m \in 1..read : log'[m] = log[m]
  BY LogKept DEF TypeOK
<1>2. CASE ~Reads
  <2>1. read' = read /\ hist' = hist
    BY <1>2, ReadingKept
  <2>2. HistInv'
    BY <1>1, <2>1 DEF PromptInv, HistInv, Is
  <2>3. ASSUME NEW b \in Live' PROVE WellFiled(b)'
    <3>1. PICK c \in Live : Alike(b, c)
      BY <1>2, LiveKept
    <3>2. WellFiled(c)
      BY DEF PromptInv
    <3>3. Covers(b) = Covers(c)
      BY <3>1 DEF Alike, Covers
    <3>4. \A m \in Covers(c) : m \in 1..read /\ log[m].win = c.win
      BY <3>2 DEF WellFiled
    <3>5. \A n \in b.triggers : n \in Covers(c) /\ Trigger(n)
      BY <3>1, <3>2 DEF Alike, WellFiled, Covers
    <3>6. \A n \in b.triggers : Trigger(n)'
      BY <1>1, <3>4, <3>5 DEF Trigger
    <3>7. \A m, n \in Covers(c) : \A i \in m..n : i \in 1..read
      BY <1>1, <3>4
    <3>8. \A m, n \in Covers(b) : \A i \in m..n :
            log'[i].win = b.win => ~Is(i, "part")' /\ i \in Covers(b)
      BY <1>1, <3>1, <3>2, <3>3, <3>7 DEF Alike, WellFiled, Is
    <3>. QED BY <1>1, <2>1, <3>1, <3>2, <3>3, <3>4, <3>6, <3>8 DEF Alike, WellFiled
  <2>. QED BY <2>2, <2>3 DEF PromptInv
<1>3. ASSUME NEW k \in 1..Burst, ReadBurst(k) PROVE PromptInv'
  <2>1. read' = read + k /\ k \in Nat /\ log' = log
    BY <1>3, DispatchAssumption DEF ReadBurst, server
  <2>2. HistInv'
    BY <1>3, <2>1, FiledWhole DEF HistInv, Is
  <2>3. ASSUME NEW b \in Live' PROVE WellFiled(b)'
    <3>1. CASE b \in Live
      <4>1. WellFiled(b)
        BY <3>1 DEF PromptInv
      <4>. QED BY <1>1, <2>1, <4>1 DEF WellFiled, Is, Trigger
    <3>2. ASSUME NEW w \in Windows, NEW c, c = BatchOf(Of(read + 1 .. read + k, w), w),
                 Alike(b, c), b.triggers # {}
          PROVE  WellFiled(b)'
      <4>1. WellFiled(c)'
        BY <1>3, <3>2, FiledWhole DEF Alike
      <4>. QED BY <3>2, <4>1 DEF WellFiled, Alike, Covers
    <3>. QED BY <1>3, <3>1, <3>2, LiveRead
  <2>. QED BY <2>2, <2>3 DEF PromptInv
<1>. QED
  BY <1>2, <1>3 DEF Reads

LEMMA PromptInvInit == Init => PromptInv
<1> SUFFICES ASSUME Init PROVE PromptInv
  OBVIOUS
<1>1. ~ \E b : b \in Live
  BY LiveIs, EmptySeq DEF Init
<1>. QED
  BY <1>1 DEF PromptInv, HistInv, Init

\* Two lines of one window are of one membership, or it closed in between.
LEMMA OneMembership ==
  ASSUME TypeOK, LogInv, NEW m \in 1..Len(log), NEW n \in 1..Len(log), m < n,
         Together(m, n), Line(m), Line(n), \A i \in m..n : Together(i, m) => ~Is(i, "part")
  PROVE  log[m].stint = log[n].stint
<1>1. Len(log) \in Nat
  BY LenProperties DEF TypeOK
<1>2. ~Parted(m, n - 1)
  BY <1>1 DEF Parted
<1>. QED
  BY <1>2 DEF LogInv, OrderInv

(* What a turn shows the model is one membership's conversation, whole and in
   order, however the deliveries of the windows are cut into bursts, whichever
   failed batches newer ones replace (openBatches, fileBatch, resetClosedBatch). *)
THEOREM PromptsWhole == Spec => []PromptWhole
<1>1. TypeOK /\ LogInv /\ PromptInv => PromptWhole
  <2> SUFFICES ASSUME TypeOK, LogInv, PromptInv, NEW b \in Live
               PROVE  LET lines == Covers(b) IN
                      /\ b.triggers # {} /\ b.triggers \subseteq b.events
                      /\ \A m \in b.history, n \in b.events : m < n
                      /\ \A m, n \in lines :
                           /\ log[m].win = b.win
                           /\ ~Is(m, "invite") /\ ~Is(n, "invite") => log[m].stint = log[n].stint
                           /\ m < n => \A i \in m..n : log[i].win = b.win /\ ~Is(i, "part") => i \in lines
    BY DEF PromptWhole
  <2>1. WellFiled(b)
    BY DEF PromptInv
  <2>2. read \in Nat /\ Len(log) \in Nat /\ read <= Len(log)
    BY LenProperties DEF TypeOK
  <2>3. \A m \in Covers(b) : m \in 1..Len(log) /\ log[m].win = b.win
    BY <2>1, <2>2 DEF WellFiled
  <2>4. ASSUME NEW m \in Covers(b), NEW n \in Covers(b), m < n, Line(m), Line(n)
        PROVE  log[m].stint = log[n].stint
    <3>1. \A i \in m..n : Together(i, m) => ~Is(i, "part")
      BY <2>1, <2>3 DEF WellFiled, Together
    <3>. QED BY <2>3, <2>4, <3>1, OneMembership DEF Together
  <2>5. \A m, n \in Covers(b) : Line(m) /\ Line(n) => log[m].stint = log[n].stint
    BY <2>2, <2>3, <2>4
  <2>. QED BY <2>1, <2>3, <2>5 DEF WellFiled, Line
<1>2. TypeOK /\ LogInv /\ PromptInv /\ [Next]_vars => (TypeOK /\ LogInv /\ PromptInv)'
  BY TypeStep, LogInvStep, PromptInvStep
<1>3. Init => TypeOK /\ LogInv /\ PromptInv
  BY TypeInit, LogInvInit, PromptInvInit
<1>. QED
  BY <1>1, <1>2, <1>3, PTL DEF Spec

-----------------------------------------------------------------------------
(* A window has one batch at a time.                                       *)

OneEach ==
  /\ \A i, j \in DOMAIN todo : todo[i].win = todo[j].win => i = j
  /\ \A i \in DOMAIN todo : pending[todo[i].win] = None
  /\ turn # None => /\ pending[turn.batch.win] = None
                    /\ \A i \in DOMAIN todo : todo[i].win # turn.batch.win
  /\ \A w \in Windows : pending[w] # None => pending[w].batch.win = w

\* Where a burst's batches go: a window waits on, or runs the batch it made.
LEMMA BurstPlaces ==
  ASSUME TypeOK, NEW k \in 1..Burst, ReadBurst(k)
  PROVE  /\ todo = <<>> /\ turn = None /\ turn' = None
         /\ \A i, j \in DOMAIN todo' : todo'[i].win = todo'[j].win => i = j
         /\ \A i \in DOMAIN todo' :
              /\ todo'[i].win \in Windows /\ pending'[todo'[i].win] = None
              /\ todo'[i] = BatchOf(Of(read + 1 .. read + k, todo'[i].win), todo'[i].win)
              /\ todo'[i].triggers # {}
         /\ \A w \in Windows : pending[w] # None /\ pending'[w] = None
              => \E n \in Of(read + 1 .. read + k, w) : Is(n, "part")
         /\ \A w \in Windows : pending'[w] # None =>
              LET b == BatchOf(Of(read + 1 .. read + k, w), w) IN
              /\ pending[w] # None /\ \A n \in Of(read + 1 .. read + k, w) : ~Is(n, "part")
              /\ \/ /\ Calls(read + 1 .. read + k, w)
                    /\ pending'[w] = Merge(pending[w], b)
                 \/ /\ ~Calls(read + 1 .. read + k, w)
                    /\ pending'[w] = pending[w]
<1> DEFINE D == read + 1 .. read + k
           B(w) == BatchOf(Of(D, w), w)
           waiting == [w \in Windows |-> Supersede(Of(D, w), pending[w])]
           kept == {w \in Windows : Calls(D, w)}
           run == {w \in kept : waiting[w] = None /\ B(w).triggers # {}}
<1>1. PICK m \in 0..k : \E order \in [1..m -> run] :
        /\ \A i, j \in 1..m : i < j => OpensBefore(Of(D, order[i]), Of(D, order[j]))
        /\ todo' = [i \in 1..m |-> B(order[i])]
  BY DEF ReadBurst
<1>2. PICK order \in [1..m -> run] :
        /\ \A i, j \in 1..m : i < j => OpensBefore(Of(D, order[i]), Of(D, order[j]))
        /\ todo' = [i \in 1..m |-> B(order[i])]
  BY <1>1
<1>3. m \in Nat /\ read \in Nat /\ k \in Nat
  BY DispatchAssumption DEF TypeOK
<1>4. \A w : B(w).win = w
  BY DEF BatchOf
<1>5. \A E \in SUBSET Nat : ~OpensBefore(E, E)
  BY DEF OpensBefore
<1>6. \A w : Of(D, w) \in SUBSET Nat
  BY <1>3 DEF Of
<1>7. \A i, j \in 1..m : order[i] = order[j] => i = j
  <2> SUFFICES ASSUME NEW i \in 1..m, NEW j \in 1..m, order[i] = order[j], i # j PROVE FALSE
    OBVIOUS
  <2>1. i < j \/ j < i
    BY <1>3
  <2>. QED BY <1>2, <1>5, <1>6, <2>1
<1>8. \A i, j \in DOMAIN todo' : todo'[i].win = todo'[j].win => i = j
  BY <1>2, <1>4, <1>7
<1>9. pending' = [w \in Windows |->
         IF w \in kept /\ waiting[w] # None THEN Merge(waiting[w], B(w)) ELSE waiting[w]]
  BY DEF ReadBurst
<1>10. ASSUME NEW i \in DOMAIN todo'
       PROVE  /\ todo'[i].win \in Windows /\ pending'[todo'[i].win] = None
              /\ todo'[i] = B(todo'[i].win) /\ todo'[i].triggers # {}
  <2>1. PICK w \in run : todo'[i] = B(w)
    BY <1>2
  <2>2. pending'[w] = None
    BY <1>9, <2>1
  <2>. QED BY <1>4, <2>1, <2>2
<1>11. ASSUME NEW w \in Windows, pending'[w] # None
       PROVE  /\ pending[w] # None /\ \A n \in Of(D, w) : ~Is(n, "part")
              /\ \/ Calls(D, w) /\ pending'[w] = Merge(pending[w], B(w))
                 \/ ~Calls(D, w) /\ pending'[w] = pending[w]
  <2>1. waiting[w] # None
    BY <1>9, <1>11
  <2>2. waiting[w] = pending[w] /\ \A n \in Of(D, w) : ~Is(n, "part")
    BY <2>1 DEF Supersede
  <2>. QED BY <1>9, <2>1, <2>2
<1>12. todo = <<>> /\ turn = None /\ turn' = None
  BY DEF ReadBurst, LoopFree
<1>14. \A w \in Windows : B(w) \in Batches
  BY BurstType
<1>13. ASSUME NEW w \in Windows, pending[w] # None, pending'[w] = None
       PROVE  \E n \in Of(D, w) : Is(n, "part")
  <2>1. CASE waiting[w] = None
    BY <1>13, <2>1 DEF Supersede
  <2>2. CASE waiting[w] # None
    <3>1. pending[w] \in Waits /\ waiting[w] = pending[w]
      BY <1>13, <2>2 DEF TypeOK, Supersede
    <3>2. Merge(pending[w], B(w)) \in Waits
      BY <1>14, <3>1, MergeType
    <3>. QED BY <1>9, <1>13, <2>2, <3>1, <3>2, NoneAssumption
  <2>. QED BY <2>1, <2>2
<1>. QED
  BY <1>8, <1>10, <1>11, <1>12, <1>13

LEMMA OneEachInit == Init => OneEach
<1> SUFFICES ASSUME Init PROVE OneEach
  OBVIOUS
<1>1. DOMAIN todo = {} /\ turn = None
  BY DEF Init
<1>. QED
  BY <1>1 DEF OneEach, Init

\* Steps that only drop batches or move none.
LEMMA OneEachKept ==
  ASSUME OneEach, pending' = pending, todo' = todo \/ todo' = <<>>,
         turn' = None \/ (turn # None /\ turn'.batch = turn.batch)
  PROVE  OneEach'
<1>1. CASE todo' = todo
  BY <1>1 DEF OneEach
<1>2. CASE todo' = <<>>
  <2>1. DOMAIN todo' = {}
    BY <1>2
  <2>. QED BY <2>1 DEF OneEach
<1>. QED
  BY <1>1, <1>2

LEMMA OneEachStep ==
  ASSUME TypeOK, OneEach, [Next]_vars
  PROVE  OneEach'
<1>1. ASSUME NEW k \in 1..Burst, ReadBurst(k) PROVE OneEach'
  <2>1. \A w \in Windows : pending'[w] # None => pending'[w].batch.win = w
    <3> SUFFICES ASSUME NEW w \in Windows, pending'[w] # None PROVE pending'[w].batch.win = w
      OBVIOUS
    <3>1. pending[w] \in Waits /\ pending[w].batch.win = w
      BY <1>1, BurstPlaces DEF TypeOK, OneEach
    <3>2. Merge(pending[w], BatchOf(Of(read + 1 .. read + k, w), w)).batch.win = w
      BY <3>1 DEF Merge, BatchOf, Waits
    <3>. QED BY <1>1, <3>1, <3>2, BurstPlaces
  <2>. QED BY <1>1, <2>1, BurstPlaces DEF OneEach
<1>2. ASSUME NEW b \in timers, Claim(b) PROVE OneEach'
  <2>1. CASE Claims(b)
    <3>1. /\ todo' = <<pending[b.win].batch>> /\ turn' = turn /\ turn = None
          /\ pending' = [pending EXCEPT ![b.win] = None] /\ pending[b.win] # None
      BY <1>2, <2>1 DEF Claim, Claims, LoopFree
    <3>2. b.win \in Windows
      BY DEF TypeOK, Batches
    <3>3. pending[b.win].batch.win = b.win
      BY <3>1, <3>2 DEF OneEach
    <3>4. DOMAIN todo' = {1} /\ todo'[1].win = b.win /\ pending'[b.win] = None
      BY <3>1, <3>2, <3>3 DEF TypeOK
    <3>5. \A w \in Windows : pending'[w] # None => pending'[w] = pending[w]
      BY <3>1 DEF TypeOK
    <3>. QED BY <3>1, <3>4, <3>5 DEF OneEach
  <2>2. CASE ~Claims(b)
    BY <1>2, <2>2 DEF Claim, OneEach
  <2>. QED BY <2>1, <2>2
<1>3. CASE StartTurn
  <2>1. /\ todo # <<>> /\ turn'.batch = Head(todo) /\ turn = None
        /\ todo' = Tail(todo) /\ pending' = pending
    BY <1>3 DEF StartTurn
  <2>2. Head(todo) = todo[1] /\ 1 \in DOMAIN todo
    BY <2>1, HeadTailProperties, LenProperties DEF TypeOK
  <2>3. \A i \in DOMAIN todo' : i \in Nat \ {0} /\ i + 1 \in DOMAIN todo /\ todo'[i] = todo[i + 1]
    BY <2>1, HeadTailProperties, LenProperties DEF TypeOK
  <2>. QED BY <2>1, <2>2, <2>3 DEF OneEach
<1>4. CASE FailTransiently
  <2> DEFINE f == [turn.batch EXCEPT !.retried = TRUE]
  <2>1. /\ todo' = todo /\ turn' = None /\ turn # None
        /\ pending' = [pending EXCEPT ![f.win] = [token |-> f, batch |-> f]]
    BY <1>4 DEF FailTransiently, Sent
  <2>2. turn.batch \in Batches /\ f \in Batches
    BY <2>1 DEF TypeOK, Turns, Batches
  <2>3. f.win = turn.batch.win
    BY <2>2 DEF Batches
  <2> HIDE DEF f
  <2>4. \A w \in Windows : w # f.win => pending'[w] = pending[w]
    BY <2>1 DEF TypeOK
  <2>5. f.win \in Windows /\ pending'[f.win].batch = f
    BY <2>1, <2>2 DEF TypeOK, Batches
  <2>6. \A i \in DOMAIN todo : todo[i].win \in Windows /\ todo[i].win # f.win
    <3>1. \A i \in DOMAIN todo : todo[i] \in Batches
      BY DEF TypeOK
    <3>. QED BY <2>1, <2>3, <3>1 DEF OneEach, Batches
  <2>. QED BY <2>1, <2>4, <2>5, <2>6 DEF OneEach
<1>5. ASSUME NEW b \in timers, AbandonRetry(b) PROVE OneEach'
  BY <1>5 DEF AbandonRetry, OneEach
<1>6. CASE Environment \/ Exit \/ Capture \/ Send \/ Answer \/ Cancelled \/ Closed
           \/ FailFinally \/ RunTool
  BY <1>6, TurnKept, OneEachKept
<1>7. CASE UNCHANGED vars
  BY <1>7 DEF vars, client, OneEach
<1>. QED
  BY <1>1, <1>2, <1>3, <1>4, <1>5, <1>6, <1>7 DEF Next, Loop, Turn

-----------------------------------------------------------------------------
(* What a turn's tools did.                                                *)

ActInv ==
  /\ \A n \in acted : n \in 1..read
  /\ \A b \in Live : b.triggers \cap acted = {}

\* Only a turn that ends adds to what was acted on, and never one that is retried.
LEMMA ActedStep ==
  ASSUME [Next]_vars
  PROVE  \/ acted' = acted
         \/ /\ turn # None /\ turn' = None /\ acted' = acted \cup turn.batch.triggers
            /\ UNCHANGED <<todo, pending, read>>
<1>1. CASE Loop
  BY <1>1 DEF Loop, ReadBurst, Claim, AbandonRetry, Exit, history
<1>2. CASE Environment
  BY <1>2 DEF Environment, Say, Invite, Kick, Quit, Release, Interrupt, history
<1>3. CASE UNCHANGED vars
  BY <1>3 DEF vars, history
<1>4. CASE FailTransiently
  <2>1. ~turn.acted
    BY <1>4 DEF FailTransiently, Replays
  <2>. QED BY <1>4, <2>1 DEF FailTransiently, Leaves
<1>5. CASE turn # None /\ (Dropped \/ Settles)
  BY <1>5 DEF Dropped, Settles, Leaves, client
<1>6. CASE StartTurn \/ RunTool
  BY <1>6 DEF StartTurn, RunTool, history
<1>7. CASE Capture
  BY <1>5, <1>7 DEF Capture, history
<1>8. CASE Send
  BY <1>5, <1>8 DEF Send
<1>9. CASE Answer \/ Cancelled \/ Closed \/ FailFinally
  BY <1>5, <1>9 DEF Answer, Cancelled, Closed, FailFinally, Sent
<1>. QED
  BY <1>1, <1>2, <1>3, <1>4, <1>6, <1>7, <1>8, <1>9 DEF Next, Turn

\* The batches that outlive a turn are of other windows, and share no trigger with it.
LEMMA OtherTriggers ==
  ASSUME TypeOK, PromptInv, OneEach, turn # None, turn' = None, UNCHANGED <<todo, pending>>,
         NEW b \in Live'
  PROVE  b \in Live /\ b.triggers \cap turn.batch.triggers = {}
<1>1. b \in Live /\ b.win # turn.batch.win
  <2>1. CASE \E i \in DOMAIN todo : b = todo[i]
    BY <2>1, LiveIs DEF OneEach
  <2>2. ASSUME NEW w \in Windows, pending[w] # None, b = pending[w].batch
        PROVE  b \in Live /\ b.win # turn.batch.win
    <3>1. b.win = w
      BY <2>2 DEF OneEach
    <3>. QED BY <2>2, <3>1, LiveIs DEF OneEach
  <2>. QED BY <2>1, <2>2, LiveIsNext
<1>2. turn.batch \in Live
  BY LiveIs
<1>3. \A c \in Live : \A n \in c.triggers : log[n].win = c.win
  BY DEF PromptInv, WellFiled, Covers
<1>. QED
  BY <1>1, <1>2, <1>3

LEMMA ActInvStep ==
  ASSUME TypeOK, PromptInv, OneEach, ActInv, [Next]_vars
  PROVE  ActInv'
<1>1. CASE acted' = acted /\ ~Reads
  <2>1. read' = read
    BY <1>1, ReadingKept
  <2>2. \A b \in Live' : \E c \in Live : b.triggers = c.triggers
    BY <1>1, LiveKept DEF Alike
  <2>. QED BY <1>1, <2>1, <2>2 DEF ActInv
<1>2. ASSUME NEW k \in 1..Burst, ReadBurst(k) PROVE ActInv'
  <2>1. /\ read \in Nat /\ k \in Nat /\ read' = read + k /\ acted' = acted
    BY <1>2, DispatchAssumption DEF TypeOK, ReadBurst, history
  <2>2. ASSUME NEW b \in Live' PROVE b.triggers \cap acted = {}
    <3>1. CASE b \in Live
      BY <3>1 DEF ActInv
    <3>2. ASSUME NEW w \in Windows, Alike(b, BatchOf(Of(read + 1 .. read + k, w), w))
          PROVE  b.triggers \cap acted = {}
      <4>1. b.triggers \subseteq read + 1 .. read + k
        BY <3>2 DEF Alike, BatchOf, SinceClosing, Of
      <4>2. \A n \in acted : n \in 1..read
        BY DEF ActInv
      <4>3. \A n \in read + 1 .. read + k : n \notin 1..read
        BY <2>1
      <4>. QED BY <4>1, <4>2, <4>3
    <3>. QED BY <1>2, <3>1, <3>2, LiveRead
  <2>3. \A n \in acted : n \in 1..read'
    BY <2>1 DEF ActInv
  <2>. QED BY <2>1, <2>2, <2>3 DEF ActInv
<1>3. CASE /\ turn # None /\ turn' = None /\ acted' = acted \cup turn.batch.triggers
           /\ UNCHANGED <<todo, pending, read>>
  <2>1. turn.batch \in Live
    BY <1>3, LiveIs
  <2>2. \A n \in turn.batch.triggers : n \in 1..read
    BY <2>1 DEF PromptInv, WellFiled, Covers
  <2>3. \A b \in Live' : b.triggers \cap acted' = {}
    BY <1>3, OtherTriggers DEF ActInv
  <2>. QED BY <1>3, <2>2, <2>3 DEF ActInv
<1>. QED
  BY <1>1, <1>2, <1>3, ActedStep DEF Reads

LEMMA ActInvInit == Init => ActInv
<1> SUFFICES ASSUME Init PROVE ActInv
  OBVIOUS
<1>1. ~ \E b : b \in Live
  BY LiveIs, EmptySeq DEF Init
<1>. QED
  BY <1>1 DEF ActInv, Init

BatchesInv == TypeOK /\ LogInv /\ PromptInv /\ OneEach /\ ActInv

LEMMA BatchesInvariant == Spec => []BatchesInv
<1>1. Init => BatchesInv
  BY TypeInit, LogInvInit, PromptInvInit, OneEachInit, ActInvInit DEF BatchesInv
<1>2. BatchesInv /\ [Next]_vars => BatchesInv'
  BY TypeStep, LogInvStep, PromptInvStep, OneEachStep, ActInvStep DEF BatchesInv
<1>. QED
  BY <1>1, <1>2, PTL DEF Spec

(* No turn acts on a trigger that another turn has acted on: a turn that ran a
   tool is not retried, and no other batch has its triggers (nonReplayableTurnError). *)
THEOREM ActionsOnce == Spec => []ActsOnce
<1>1. BatchesInv => ActsOnce
  BY LiveIs DEF BatchesInv, ActInv, ActsOnce
<1>. QED
  BY <1>1, BatchesInvariant, PTL

(* A window's wait is over only when its own scheduler has offered its batch: no
   claim of another token, and no burst, starts the batch that waits (claim). *)
THEOREM OwnDelays == Spec => OwnDelay
<1> DEFINE Wakes(w) == pending[w] # None /\ todo = <<>> /\ todo' = <<pending[w].batch>>
<1>1. ASSUME BatchesInv, [Next]_vars, NEW w \in Windows, Wakes(w)
      PROVE  pending[w].token \in timers \ timers'
  <2>1. /\ pending[w] # None /\ todo = <<>> /\ 1 \in DOMAIN todo' /\ todo'[1] = pending[w].batch
        /\ todo' # todo /\ todo' # <<>>
    BY <1>1
  <2>2. pending[w].batch \in Live /\ pending[w].batch.win = w
    BY <1>1, <2>1, LiveIs DEF BatchesInv, OneEach
  <2>3. ASSUME NEW b \in timers, Claim(b) PROVE pending[w].token \in timers \ timers'
    <3>1. CASE Claims(b)
      <4>1. /\ todo' = <<pending[b.win].batch>> /\ pending[b.win] # None
            /\ pending[b.win].token = b /\ timers' = timers \ {b}
        BY <2>3, <3>1 DEF Claim, Claims
      <4>2. b.win \in Windows
        BY <1>1 DEF BatchesInv, TypeOK, Batches
      <4>3. pending[b.win].batch.win = b.win /\ pending[b.win].batch = pending[w].batch
        BY <1>1, <2>1, <4>1, <4>2 DEF BatchesInv, OneEach
      <4>. QED BY <2>2, <4>1, <4>3
    <3>2. CASE ~Claims(b)
      BY <2>1, <2>3, <3>2 DEF Claim
    <3>. QED BY <3>1, <3>2
  <2>4. ASSUME NEW k \in 1..Burst, ReadBurst(k) PROVE FALSE
    <3>1. TypeOK
      BY <1>1 DEF BatchesInv
    <3>2. todo'[1].triggers # {} /\ todo'[1] = BatchOf(Of(read + 1 .. read + k, w), w)
      BY <2>1, <2>2, <2>4, <3>1, BurstPlaces
    <3>3. \A n \in todo'[1].triggers : n \in read + 1 .. read + k
      BY <3>2 DEF BatchOf, SinceClosing, Of
    <3>4. \A n \in pending[w].batch.triggers : n \in 1..read
      BY <1>1, <2>2 DEF BatchesInv, PromptInv, WellFiled, Covers
    <3>5. read \in Nat
      BY <3>1 DEF TypeOK
    <3>. QED BY <2>1, <3>2, <3>3, <3>4, <3>5
  <2>5. ~StartTurn /\ ~FailTransiently
    BY <2>1 DEF StartTurn, FailTransiently
  <2>6. ~(Environment \/ Exit \/ Capture \/ Send \/ Answer \/ Cancelled \/ Closed
           \/ FailFinally \/ RunTool)
    BY <1>1, <2>1, TurnKept DEF BatchesInv
  <2>7. \A b : ~AbandonRetry(b)
    BY <2>1 DEF AbandonRetry
  <2>8. ~UNCHANGED vars
    BY <2>1 DEF vars, client
  <2>. QED BY <1>1, <2>3, <2>4, <2>5, <2>6, <2>7, <2>8 DEF Next, Loop, Turn
<1>2. BatchesInv /\ [Next]_vars =>
        [\A w \in Windows : Wakes(w) => pending[w].token \in timers \ timers']_vars
  BY <1>1
<1>. QED
  BY <1>2, BatchesInvariant, PTL DEF Spec, OwnDelay

-----------------------------------------------------------------------------
(* What is over.                                                           *)

\* A delivery's membership or invitation has ended, by what the log says of it.
Past(n) ==
  \/ log[n].stint < stint[log[n].win]
  \/ Line(n) /\ log[n].win \notin member

LEMMA LogTypes ==
  ASSUME TypeOK, NEW n \in 1..Len(log)
  PROVE  /\ log[n].win \in Windows /\ log[n].stint \in Nat
         /\ stint[log[n].win] \in Nat /\ Len(log) \in Nat
<1>1. log[n] \in Deliveries
  BY DEF TypeOK
<1>. QED
  BY <1>1, LenProperties DEF Deliveries, TypeOK

LEMMA OverIs ==
  ASSUME TypeOK, LogInv, NEW n \in 1..Len(log)
  PROVE  Over(n) <=> (gone \/ released \/ Past(n))
<1>1. /\ log[n].stint \in Nat /\ stint[log[n].win] \in Nat
      /\ log[n].stint <= stint[log[n].win]
      /\ Is(n, "invite") => log[n].win \in invited \/ log[n].stint < stint[log[n].win]
  BY LogTypes DEF LogInv, NowInv
<1>2. CASE Is(n, "invite")
  BY <1>1, <1>2 DEF Over, Past, Line, Is
<1>3. CASE ~Is(n, "invite")
  BY <1>1, <1>3 DEF Over, Past, Line, Is
<1>. QED
  BY <1>2, <1>3

OverFact == TypeOK /\ LogInv =>
              \A n \in 1..Len(log) : Over(n) <=> (gone \/ released \/ Past(n))

LEMMA OverIsFact == OverFact
  BY OverIs DEF OverFact

LEMMA EndsKept ==
  ASSUME TypeOK, [Next]_vars
  PROVE  (gone => gone') /\ (released => released')
<1>1. CASE Loop
  BY <1>1 DEF Loop, ReadBurst, Claim, AbandonRetry, Exit, server
<1>2. CASE Turn
  BY <1>2 DEF Turn, StartTurn, Capture, Send, Answer, Cancelled, Closed, FailFinally,
              FailTransiently, RunTool, Dropped, Settles, server
<1>3. CASE Environment
  BY <1>3 DEF Environment, Say, Invite, Kick, Quit, Release, Interrupt, server
<1>. QED
  BY <1>1, <1>2, <1>3 DEF Next, vars, server

\* A client enters a channel anew: what has ended does not come back.
LEMMA StintKept ==
  ASSUME TypeOK, [Next]_vars, NEW w \in Windows
  PROVE  /\ stint[w] \in Nat /\ stint'[w] \in Nat /\ stint[w] <= stint'[w]
         /\ w \in member' => w \in member \/ stint[w] < stint'[w]
<1>1. stint[w] \in Nat
  BY DEF TypeOK
<1>2. CASE stint' = stint /\ member' \subseteq member
  BY <1>1, <1>2
<1>3. ASSUME NEW v \in Windows, Joins(v)
      PROVE  /\ stint'[w] \in Nat /\ stint[w] <= stint'[w]
             /\ w \in member' => w \in member \/ stint[w] < stint'[w]
  <2>1. stint' = [stint EXCEPT ![v] = @ + 1] /\ member' = member \cup {v}
    BY <1>3 DEF Joins
  <2>2. CASE w = v
    BY <1>1, <2>1, <2>2 DEF TypeOK
  <2>3. CASE w # v
    BY <1>1, <2>1, <2>3 DEF TypeOK
  <2>. QED BY <2>2, <2>3
<1>4. Quiet => stint' = stint /\ member' = member
  BY DEF Quiet
<1>5. \A v, kind : Speaks(v, kind) \/ Invites(v) => stint' = stint /\ member' = member
  BY DEF Speaks, Invites
<1>6. \A v : Parts(v) => stint' = stint /\ member' \subseteq member
  BY DEF Parts
<1>. QED
  BY <1>1, <1>2, <1>3, <1>4, <1>5, <1>6, ServerStep

LEMMA OverKept ==
  ASSUME TypeOK, LogInv, [Next]_vars, NEW n \in 1..Len(log), Over(n)
  PROVE  Over(n)'
<1>1. TypeOK' /\ LogInv' /\ log'[n] = log[n] /\ n \in 1..Len(log')
  BY TypeStep, LogInvStep, LogKept
<1>2. gone' \/ released' \/ Past(n)'
  <2>1. CASE gone \/ released
    BY <2>1, EndsKept
  <2>2. CASE Past(n)
    <3>1. log[n].win \in Windows /\ log[n].stint \in Nat /\ log[n].stint <= stint[log[n].win]
      BY LogTypes DEF LogInv, NowInv
    <3>. QED BY <1>1, <2>2, <3>1, StintKept DEF Past, Line, Is
  <2>. QED BY <2>1, <2>2, OverIs
<1>3. OverFact'
  BY OverIsFact, PTL
<1>4. Over(n)' <=> (gone' \/ released' \/ Past(n)')
  BY <1>1, <1>3 DEF OverFact
<1>. QED
  BY <1>2, <1>4

\* A delivery before a closing of its window, or before an opening, is over.
LEMMA ClosedOver ==
  ASSUME TypeOK, LogInv, NEW n \in 1..Len(log), NEW m \in 1..Len(log), Together(n, m),
         (n <= m /\ Is(m, "part")) \/ (n < m /\ Is(m, "join"))
  PROVE  Over(n)
<1>1. /\ log[n].win \in Windows /\ log[n].stint \in Nat /\ log[m].stint \in Nat
      /\ stint[log[n].win] \in Nat /\ Len(log) \in Nat /\ log[m].win = log[n].win
  BY LogTypes DEF Together
<1>2. /\ log[m].stint <= stint[log[n].win]
      /\ Is(m, "part") => log[n].win \notin member \/ log[m].stint < stint[log[n].win]
  BY <1>1 DEF LogInv, NowInv
<1>3. n < m => /\ log[n].stint <= log[m].stint
               /\ (~Line(n) /\ Line(m)) \/ Is(m, "join") => log[n].stint < log[m].stint
  BY DEF LogInv, OrderInv
<1>4. CASE Is(m, "part")
  <2>1. Line(m)
    BY <1>4 DEF Line, Is
  <2>2. CASE n = m
    BY <1>1, <1>2, <1>4, <2>1, <2>2, OverIs DEF Past
  <2>3. CASE n < m
    BY <1>1, <1>2, <1>3, <1>4, <2>1, <2>3, OverIs DEF Past
  <2>. QED BY <1>1, <1>4, <2>2, <2>3 DEF Is
<1>5. CASE Is(m, "join")
  <2>1. n < m
    BY <1>1, <1>5 DEF Is
  <2>. QED BY <1>1, <1>2, <1>3, <1>5, <2>1, OverIs DEF Past
<1>. QED
  BY <1>4, <1>5

-----------------------------------------------------------------------------
(* How often a delivery is sent.                                           *)

\* What a turn knows of its window: its guard, and what an interrupt says.
TurnInv ==
  /\ \A W \in interrupts : gone \/ W \cap (member \cup invited) = {}
  /\ turn # None =>
       LET b == turn.batch IN
       /\ turn.cancelled => \A n \in Covers(b) : Over(n)
       /\ turn.at # "capture" =>
            /\ turn.stint <= stint[b.win]
            /\ \A n \in Covers(b) : log[n].stint <= turn.stint
            /\ InvitationBatch(b) => \A n \in Covers(b) : Line(n) => Over(n)

LEMMA InterruptsKept ==
  ASSUME TypeOK, LogInv, TurnInv, [Next]_vars
  PROVE  \A W \in interrupts' : gone' \/ W \cap (member' \cup invited') = {}
<1>1. CASE interrupts' \subseteq interrupts /\ member' = member /\ invited' = invited
  BY <1>1, EndsKept DEF TurnInv
<1>2. CASE interrupts = {} /\ interrupts' = interrupts
  BY <1>2
<1>3. CASE Quit
  BY <1>3 DEF Quit
<1>4. ASSUME NEW w \in Windows, Kick(w)
      PROVE  \A W \in interrupts' : gone' \/ W \cap (member' \cup invited') = {}
  <2>1. interrupts' = {{w}} /\ member' = member \ {w} /\ invited' = invited /\ w \in member
    BY <1>4 DEF Kick, Writer
  <2>2. w \notin invited
    BY <2>1 DEF LogInv
  <2>. QED BY <2>1, <2>2
<1>5. ASSUME NEW w \in Windows, NEW kind, Say(w, kind) \/ Invite(w)
      PROVE  interrupts = {} /\ interrupts' = interrupts
  BY <1>5 DEF Say, Invite, Writer
<1>6. ASSUME NEW W \in interrupts, Interrupt(W)
      PROVE  interrupts' \subseteq interrupts /\ member' = member /\ invited' = invited
  BY <1>6 DEF Interrupt
<1>7. Environment => \/ interrupts' \subseteq interrupts /\ member' = member /\ invited' = invited
                     \/ interrupts = {} /\ interrupts' = interrupts
                     \/ Quit \/ \E w \in Windows : Kick(w)
  BY <1>5, <1>6 DEF Environment, Release, server
<1>8. RunTool => interrupts = {} /\ interrupts' = interrupts
  BY DEF RunTool, Writer, server
<1>9. Loop \/ (Turn /\ ~RunTool) \/ UNCHANGED vars =>
         interrupts' \subseteq interrupts /\ member' = member /\ invited' = invited
  BY DEF Loop, Turn, ReadBurst, Claim, AbandonRetry, Exit, StartTurn, Capture, Send, Answer,
         Cancelled, Closed, FailFinally, FailTransiently, Dropped, Settles, server, vars
<1>. QED
  BY <1>1, <1>2, <1>3, <1>4, <1>7, <1>8, <1>9 DEF Next

\* A window that an interrupt is for has ended what the turn is about.
LEMMA InterruptedOver ==
  ASSUME TypeOK, LogInv, PromptInv, TurnInv, NEW W \in interrupts, turn # None,
         turn.batch.win \in W, NEW n \in Covers(turn.batch)
  PROVE  Over(n)
<1>1. n \in 1..read /\ log[n].win = turn.batch.win
  BY LiveIs DEF PromptInv, WellFiled
<1>2. n \in 1..Len(log)
  BY <1>1, LenProperties DEF TypeOK
<1>3. gone \/ log[n].win \notin member \cup invited
  BY <1>1 DEF TurnInv
<1>. QED
  BY <1>3 DEF Over

LEMMA TurnInvStep ==
  ASSUME TypeOK, LogInv, PromptInv, TurnInv, [Next]_vars
  PROVE  TurnInv'
<1>1. \A W \in interrupts' : gone' \/ W \cap (member' \cup invited') = {}
  BY InterruptsKept
<1>2. CASE turn' = None
  BY <1>1, <1>2 DEF TurnInv
<1>3. ASSUME turn # None
      PROVE  /\ turn \in Turns /\ turn.batch \in Batches /\ turn.batch.win \in Windows /\ turn.stint \in Nat
             /\ \A n \in Covers(turn.batch) :
                  /\ n \in 1..Len(log) /\ log[n].win = turn.batch.win
                  /\ log'[n] = log[n] /\ (Over(n) => Over(n)') /\ (Line(n)' <=> Line(n))
             /\ \A n \in turn.batch.triggers : (Is(n, "invite")' <=> Is(n, "invite"))
  <2>1. turn \in Turns /\ turn.batch \in Batches /\ turn.batch.win \in Windows /\ turn.stint \in Nat
    BY <1>3 DEF TypeOK, Turns, Batches
  <2>2. /\ \A n \in Covers(turn.batch) : n \in 1..read /\ log[n].win = turn.batch.win
        /\ turn.batch.triggers \subseteq Covers(turn.batch)
    BY <1>3, LiveIs DEF PromptInv, WellFiled, Covers
  <2>3. \A n \in 1..read : n \in 1..Len(log)
    BY LenProperties DEF TypeOK
  <2>4. \A n \in 1..Len(log) : /\ log'[n] = log[n] /\ (Over(n) => Over(n)')
    BY LogKept, OverKept
  <2>5. \A n \in 1..Len(log) : (Is(n, "invite")' <=> Is(n, "invite")) /\ (Line(n)' <=> Line(n))
    BY <2>4 DEF Is, Line
  <2>. QED BY <2>1, <2>2, <2>3, <2>4, <2>5
\* the same turn
<1>4. ASSUME turn # None, turn' # None, turn'.batch = turn.batch, turn'.stint = turn.stint,
             turn'.at = turn.at \/ turn.at # "capture",
             turn'.cancelled => turn.cancelled \/ \A n \in Covers(turn.batch) : Over(n)'
      PROVE  TurnInv'
  <2> PICK b : b = turn.batch
    OBVIOUS
  <2>1. turn'.cancelled => \A n \in Covers(b) : Over(n)'
    BY <1>3, <1>4 DEF TurnInv
  <2>2. ASSUME turn'.at # "capture"
        PROVE  /\ turn'.stint <= stint'[b.win]
               /\ \A n \in Covers(b) : log'[n].stint <= turn'.stint
               /\ InvitationBatch(b)' => \A n \in Covers(b) : Line(n)' => Over(n)'
    <3>1. turn.at # "capture"
      BY <1>4, <2>2
    <3>2. turn'.stint <= stint'[b.win]
      BY <1>3, <1>4, <3>1, StintKept DEF TurnInv
    <3>3. \A n \in Covers(b) : log'[n].stint <= turn'.stint
      BY <1>3, <1>4, <3>1 DEF TurnInv
    <3>4. InvitationBatch(b)' => InvitationBatch(b)
      BY <1>3, <1>4 DEF InvitationBatch
    <3>5. InvitationBatch(b)' => \A n \in Covers(b) : Line(n)' => Over(n)'
      BY <1>3, <1>4, <3>1, <3>4 DEF TurnInv
    <3>. QED BY <3>2, <3>3, <3>5
  <2>. QED BY <1>1, <1>4, <2>1, <2>2 DEF TurnInv, Covers
<1>5. CASE StartTurn
  <2>1. turn'.at = "capture" /\ ~turn'.cancelled
    BY <1>5 DEF StartTurn
  <2>. QED BY <1>1, <2>1 DEF TurnInv
<1>6. CASE Capture /\ Authority(turn.batch)
  <2> PICK b : b = turn.batch
    OBVIOUS
  <2>1. /\ turn # None /\ turn' = [turn EXCEPT !.at = "begun", !.stint = stint[b.win]]
        /\ UNCHANGED <<member, invited, stint, log>>
    BY <1>6 DEF Capture, server
  <2>2. /\ turn'.batch = b /\ turn'.stint = stint[b.win] /\ turn'.cancelled = turn.cancelled
        /\ b.win \in Windows
    BY <1>3, <2>1 DEF Turns
  <2>3. turn'.cancelled => \A n \in Covers(b) : Over(n)'
    BY <1>3, <2>1, <2>2 DEF TurnInv
  <2>4. turn'.stint <= stint'[b.win]
    BY <2>1, <2>2 DEF TypeOK
  <2>5. \A n \in Covers(b) : log'[n].stint <= turn'.stint
    BY <1>3, <2>1, <2>2 DEF LogInv, NowInv
  <2>6. InvitationBatch(b)' => \A n \in Covers(b) : Line(n)' => Over(n)'
    <3>1. InvitationBatch(b)' => b.win \notin member
      BY <1>6, <2>1 DEF InvitationBatch, Is, Authority, LogInv
    <3>2. \A n \in Covers(b) : Line(n) /\ b.win \notin member => Over(n)
      BY <1>3, <2>1, OverIs DEF Past
    <3>. QED BY <1>3, <2>1, <3>1, <3>2
  <2>. QED BY <1>1, <2>2, <2>3, <2>4, <2>5, <2>6 DEF TurnInv, Covers
<1>7. ASSUME NEW W \in interrupts, Interrupt(W), turn' # None PROVE TurnInv'
  <2>1. turn' = Interrupted(turn, W)
    BY <1>7 DEF Interrupt
  <2>2. turn # None
    BY <1>7, <2>1 DEF Interrupted
  <2>3. /\ turn'.batch = turn.batch /\ turn'.stint = turn.stint /\ turn'.at = turn.at
        /\ turn'.cancelled => turn.cancelled \/ turn.batch.win \in W
    BY <1>3, <2>1, <2>2 DEF Interrupted, Turns
  <2>4. turn.batch.win \in W => \A n \in Covers(turn.batch) : Over(n)'
    BY <1>3, <2>2, InterruptedOver
  <2>. QED BY <1>4, <1>7, <2>2, <2>3, <2>4
<1>8. CASE Release /\ turn' # None
  <2>1. turn' = Interrupted(turn, Windows) /\ released'
    BY <1>8 DEF Release
  <2>2. turn # None
    BY <1>8, <2>1 DEF Interrupted
  <2>3. /\ turn'.batch = turn.batch /\ turn'.stint = turn.stint /\ turn'.at = turn.at
    BY <1>3, <2>1, <2>2 DEF Interrupted, Turns
  <2>4. \A n \in Covers(turn.batch) : Over(n)'
    BY <2>1 DEF Over
  <2>. QED BY <1>4, <1>8, <2>2, <2>3, <2>4
<1>9. CASE turn' = turn /\ turn # None
  BY <1>4, <1>9
<1>10. CASE turn # None /\ (RunTool \/ (Send /\ Guarded(turn)))
  <2>1. turn' # None
    <3>1. turn' = [turn EXCEPT !.acted = TRUE] \/ turn' = [turn EXCEPT !.at = "sent"]
      BY <1>10 DEF RunTool, Send
    <3>2. turn' \in Turns
      BY <1>3, <1>10, <3>1 DEF Turns
    <3>. QED BY <3>2, NoneAssumption
  <2>2. /\ turn'.batch = turn.batch /\ turn'.stint = turn.stint /\ turn'.cancelled = turn.cancelled
        /\ turn.at # "capture"
    BY <1>10, <1>3 DEF RunTool, Sent, Send, Turns
  <2>. QED BY <1>4, <1>10, <2>1, <2>2
<1>11. Loop \/ UNCHANGED vars => turn' = turn
  BY DEF Loop, ReadBurst, Claim, AbandonRetry, Exit, vars
<1>12. Environment => \/ turn' = turn \/ Release \/ \E W \in interrupts : Interrupt(W)
  BY DEF Environment, Say, Invite, Kick, Quit
<1>13. Turn => \/ turn' = None \/ StartTurn \/ (Capture /\ Authority(turn.batch))
               \/ turn # None /\ (RunTool \/ (Send /\ Guarded(turn)))
  BY DEF Turn, Capture, Send, Sent, Answer, Cancelled, Closed, FailFinally, FailTransiently,
         RunTool, Dropped, Settles
<1>. QED
  BY <1>2, <1>5, <1>6, <1>7, <1>8, <1>9, <1>10, <1>11, <1>12, <1>13 DEF Next

LEMMA TurnInvInit == Init => TurnInv
  BY DEF Init, TurnInv

\* The batches of the loop and what was sent of them.
CarryInv ==
  /\ \A w \in Windows : pending[w] # None => pending[w].batch.retried
  /\ \A b \in Live : \A n \in Covers(b) :
       /\ n \in hist[b.win] \/ Over(n)
       /\ InvitationBatch(b) /\ Line(n) => Over(n) \/ sends[n] = 0
  /\ \A n \in Ids : n > read => sends[n] = 0

\* Only the sending of a request counts.
LEMMA SendsStep ==
  ASSUME [Next]_vars
  PROVE  \/ sends' = sends
         \/ /\ Send /\ turn # None /\ turn.at = "begun" /\ Guarded(turn)
            /\ turn' = [turn EXCEPT !.at = "sent"]
            /\ sends' = [n \in Ids |->
                 IF n \in Covers(turn.batch) \ settled THEN sends[n] + 1 ELSE sends[n]]
            /\ UNCHANGED <<server, client, released, settled>>
<1>1. CASE Loop
  BY <1>1 DEF Loop, ReadBurst, Claim, AbandonRetry, Exit, history
<1>2. CASE Turn
  BY <1>2 DEF Turn, StartTurn, Capture, Send, Answer, Cancelled, Closed, FailFinally,
              FailTransiently, RunTool, Dropped, Settles, history
<1>3. CASE Environment
  BY <1>3 DEF Environment, Say, Invite, Kick, Quit, Release, Interrupt, history
<1>. QED
  BY <1>1, <1>2, <1>3 DEF Next, vars, history

\* What a waiting batch is: a wait of before, merged or not, or the turn that failed.
LEMMA WaitsStep ==
  ASSUME TypeOK, [Next]_vars, NEW w \in Windows, pending'[w] # None
  PROVE  \/ pending[w] # None /\ (pending[w].batch.retried => pending'[w].batch.retried)
         \/ pending'[w].batch.retried
<1>1. CASE pending' = pending
  BY <1>1
<1>2. ASSUME NEW k \in 1..Burst, ReadBurst(k)
      PROVE  pending[w] # None /\ (pending[w].batch.retried => pending'[w].batch.retried)
  <2>1. pending[w] # None /\ pending[w] \in Waits
    BY <1>2, BurstPlaces DEF TypeOK
  <2>2. pending[w].batch.retried =>
          Merge(pending[w], BatchOf(Of(read + 1 .. read + k, w), w)).batch.retried
    BY <2>1 DEF Merge, BatchOf, Waits
  <2>. QED BY <1>2, <2>1, <2>2, BurstPlaces
<1>3. ASSUME NEW b \in timers, Claim(b) PROVE pending'[w] = pending[w]
  BY <1>3 DEF Claim, TypeOK
<1>4. CASE FailTransiently
  <2> DEFINE f == [turn.batch EXCEPT !.retried = TRUE]
  <2>1. /\ pending' = [pending EXCEPT ![f.win] = [token |-> f, batch |-> f]]
        /\ turn.batch \in Batches
    BY <1>4 DEF FailTransiently, Sent, TypeOK, Turns
  <2>2. f.retried
    BY <2>1 DEF Batches
  <2> HIDE DEF f
  <2>3. pending'[w] = pending[w] \/ pending'[w].batch = f
    BY <2>1 DEF TypeOK
  <2>. QED BY <2>2, <2>3
<1>5. (Loop /\ ~Reads /\ ~ \E b \in timers : Claim(b)) \/ UNCHANGED vars \/ Environment
        \/ (Turn /\ ~FailTransiently) => pending' = pending
  BY DEF Loop, Reads, AbandonRetry, Exit, Turn, StartTurn, Capture, Send, Answer, Cancelled, Closed,
         FailFinally, RunTool, Dropped, Settles, client, vars,
         Environment, Say, Invite, Kick, Quit, Release, Interrupt
<1>. QED
  BY <1>1, <1>2, <1>3, <1>4, <1>5 DEF Next, Reads

\* No two batches are of one window.
LEMMA LiveUnique ==
  ASSUME TypeOK, OneEach, NEW b \in Live, NEW c \in Live, b.win = c.win
  PROVE  b = c
<1>1. \A i \in DOMAIN todo : todo[i].win \in Windows
  <2>1. \A i \in DOMAIN todo : todo[i] \in Batches
    BY DEF TypeOK
  <2>. QED BY <2>1 DEF Batches
<1>2. turn # None => turn.batch.win \in Windows
  BY DEF TypeOK, Turns, Batches
<1>. QED
  BY <1>1, <1>2, LiveIs DEF OneEach

\* What a batch covers has been read and is in the log.
LEMMA CoveredRead ==
  ASSUME TypeOK, PromptInv, NEW b \in Live, NEW n \in Covers(b)
  PROVE  n \in 1..read /\ n \in 1..Len(log) /\ n \in Ids /\ log[n].win = b.win
<1>1. n \in 1..read /\ log[n].win = b.win
  BY DEF PromptInv, WellFiled
<1>2. read \in Nat /\ Len(log) \in Nat /\ read <= Len(log) /\ Len(log) <= MaxLog /\ MaxLog \in Nat
  BY LenProperties, DispatchAssumption DEF TypeOK
<1>. QED
  BY <1>1, <1>2 DEF Ids

\* The transcript keeps what a batch covers, unless it is over.
LEMMA FiledOrOver ==
  ASSUME TypeOK, LogInv, PromptInv, NEW k \in 1..Burst, ReadBurst(k), NEW w \in Windows,
         NEW n \in hist[w] \cup SinceClosing(Of(read + 1 .. read + k, w))
  PROVE  n \in hist'[w] \/ Over(n)
<1> PICK D : D = Of(read + 1 .. read + k, w)
  OBVIOUS
<1>1. read \in Nat /\ k \in Nat /\ read + k <= Len(log) /\ Len(log) \in Nat
  BY DispatchAssumption, LenProperties DEF TypeOK, ReadBurst
<1>2. \A m \in D : m \in 1..Len(log) /\ m > read /\ log[m].win = w
  BY <1>1 DEF Of
<1>3. hist'[w] = File(D, hist[w])
  BY DEF ReadBurst
<1>4. /\ n \in 1..Len(log) /\ log[n].win = w
      /\ n \in hist[w] => n <= read
  BY <1>1, <1>2 DEF PromptInv, HistInv, SinceClosing
<1>5. CASE ~Reopened(D)
  BY <1>3, <1>5 DEF File, SinceClosing
<1>6. CASE Reopened(D)
  <2>1. hist'[w] = {i \in SinceClosing(D) : \A j \in D : Is(j, "join") => i >= j}
    BY <1>3, <1>6 DEF File
  <2>2. CASE n \in hist[w]
    <3>1. PICK m \in D : Is(m, "part") \/ Is(m, "join")
      BY <1>6 DEF Reopened
    <3>2. n < m
      BY <1>1, <1>2, <1>4, <2>2
    <3>3. m \in 1..Len(log) /\ Together(n, m)
      BY <1>2, <1>4 DEF Together
    <3>. QED BY <1>4, <3>1, <3>2, <3>3, ClosedOver
  <2>3. CASE n \in SinceClosing(D) /\ n \notin hist'[w]
    <3>1. PICK m \in D : Is(m, "join") /\ ~(n >= m)
      BY <2>1, <2>3
    <3>2. n < m /\ m \in 1..Len(log) /\ Together(n, m)
      BY <1>1, <1>2, <1>4, <3>1 DEF Together
    <3>. QED BY <1>4, <3>1, <3>2, ClosedOver
  <2>. QED BY <2>2, <2>3
<1>. QED
  BY <1>5, <1>6

LEMMA CarryInvStep ==
  ASSUME TypeOK, LogInv, PromptInv, OneEach, TurnInv, CarryInv, [Next]_vars
  PROVE  CarryInv'
<1>1. \A w \in Windows : pending'[w] # None => pending'[w].batch.retried
  BY WaitsStep DEF CarryInv
<1>2. \A n \in 1..Len(log) : /\ (Over(n) => Over(n)') /\ log'[n] = log[n]
                             /\ (Is(n, "invite")' <=> Is(n, "invite")) /\ (Line(n)' <=> Line(n))
  BY OverKept, LogKept DEF Is, Line
<1>3. read \in Nat /\ Len(log) \in Nat /\ read <= Len(log)
  BY LenProperties DEF TypeOK
<1>4. \A b \in Live : \A n \in Covers(b) : n \in 1..Len(log) /\ n \in 1..read /\ n \in Ids /\ log[n].win = b.win
  BY CoveredRead
<1>5. \A b \in Live : b.triggers # {} /\ b.triggers \subseteq Covers(b)
  BY DEF PromptInv, WellFiled, Covers
<1>6. \A n \in Ids : sends[n] \in Nat
  BY DEF TypeOK
<1>7. CASE ~Reads
  <2>1. read' = read /\ hist' = hist
    BY <1>7, ReadingKept
  <2>2. \A n \in Ids : n > read => sends'[n] = 0
    <3>1. turn # None => \A n \in Covers(turn.batch) : n \in 1..read
      BY <1>4, LiveIs
    <3>. QED BY <1>3, <1>6, <3>1, SendsStep DEF CarryInv
  <2>3. ASSUME NEW b \in Live', NEW n \in Covers(b)
        PROVE  /\ n \in hist'[b.win] \/ Over(n)'
               /\ InvitationBatch(b)' /\ Line(n)' => Over(n)' \/ sends'[n] = 0
    <3>1. PICK c \in Live : Alike(b, c)
      BY <1>7, LiveKept
    <3>2. n \in Covers(c) /\ c.win = b.win /\ n \in 1..Len(log) /\ n \in Ids
      BY <1>4, <2>3, <3>1 DEF Alike, Covers
    <3>3. n \in hist'[b.win] \/ Over(n)'
      BY <1>2, <2>1, <3>2 DEF CarryInv
    <3>4. ASSUME InvitationBatch(b)', Line(n)'
          PROVE  Over(n)' \/ sends'[n] = 0
      <4>1. InvitationBatch(c) /\ Line(n)
        BY <1>2, <1>4, <1>5, <3>1, <3>2, <3>4 DEF InvitationBatch, Alike
      <4>2. CASE sends'[n] = sends[n]
        BY <1>2, <3>2, <4>1, <4>2 DEF CarryInv
      <4>3. CASE sends'[n] # sends[n]
        <5>1. turn # None /\ turn.at = "begun" /\ n \in Covers(turn.batch)
          BY <3>2, <4>3, SendsStep
        <5>2. turn.batch \in Live /\ turn.batch.win = c.win
          BY <1>4, <3>2, <5>1, LiveIs
        <5>3. turn.batch = c
          BY <5>2, LiveUnique
        <5>4. Over(n)
          BY <3>2, <4>1, <5>1, <5>3 DEF TurnInv
        <5>. QED BY <1>2, <3>2, <5>4
      <4>. QED BY <4>2, <4>3
    <3>. QED BY <3>3, <3>4
  <2>. QED BY <1>1, <2>1, <2>2, <2>3 DEF CarryInv
<1>8. ASSUME NEW k \in 1..Burst, ReadBurst(k) PROVE CarryInv'
  <2>1. /\ read' = read + k /\ k \in Nat /\ log' = log /\ sends' = sends
    BY <1>8, DispatchAssumption DEF ReadBurst, server, history
  <2>2. \A n \in Ids : n > read' => sends'[n] = 0
    BY <1>3, <2>1 DEF CarryInv, Ids
  <2>3. PromptInv'
    BY PromptInvStep
  <2>4. ASSUME NEW b \in Live, NEW n \in Covers(b)
        PROVE  /\ n \in hist'[b.win] \/ Over(n)'
               /\ InvitationBatch(b)' /\ Line(n)' => Over(n)' \/ sends'[n] = 0
    <3>1. n \in 1..Len(log) /\ b.win \in Windows
      BY <1>4, <2>4, LogTypes
    <3>2. n \in hist'[b.win] \/ Over(n)
      BY <1>8, <2>4, <3>1, FiledOrOver DEF CarryInv
    <3>3. InvitationBatch(b)' /\ Line(n)' => InvitationBatch(b) /\ Line(n)
      BY <2>1 DEF InvitationBatch, Line, Is
    <3>. QED BY <1>2, <2>1, <2>4, <3>1, <3>2, <3>3 DEF CarryInv
  <2>5. ASSUME NEW b \in Live', NEW w \in Windows, b.triggers # {},
               Alike(b, BatchOf(Of(read + 1 .. read + k, w), w)), NEW n \in Covers(b)
        PROVE  /\ n \in hist'[b.win] \/ Over(n)'
               /\ InvitationBatch(b)' /\ Line(n)' => Over(n)' \/ sends'[n] = 0
    <3>1. b.win = w /\ b.history \subseteq hist[w] /\ b.events = SinceClosing(Of(read + 1 .. read + k, w))
      BY <2>5 DEF Alike, BatchOf
    <3>2. WellFiled(b)'
      BY <2>3 DEF PromptInv
    <3>3. n \in hist[w] \cup SinceClosing(Of(read + 1 .. read + k, w))
      BY <2>5, <3>1 DEF Covers
    <3>4. n \in hist'[w] \/ Over(n)
      BY <1>8, <3>3, FiledOrOver
    <3>5. \A m \in Covers(b) : m \in 1..read + k /\ log[m].win = w
      BY <2>1, <3>1, <3>2 DEF WellFiled
    <3>6. read + k <= Len(log) /\ Len(log) <= MaxLog /\ MaxLog \in Nat
      BY <1>8, DispatchAssumption DEF ReadBurst, TypeOK
    <3>7. n \in 1..Len(log) /\ n \in Ids
      BY <1>3, <2>1, <2>5, <3>5, <3>6 DEF Ids
    <3>8. ASSUME InvitationBatch(b)', Line(n)'
          PROVE  sends'[n] = 0
      <4>1. PICK u \in b.triggers : ~Line(u)
        BY <2>1, <2>5, <3>8 DEF InvitationBatch, Line, Is
      <4>2. u \in Covers(b) /\ u \in b.events /\ u \in 1..Len(log)
        BY <1>3, <2>1, <3>2, <3>5, <3>6, <4>1 DEF WellFiled, Covers
      <4>3. CASE n \in b.history
        <5>1. n < u
          BY <3>2, <4>2, <4>3 DEF WellFiled
        <5>2. Line(n) /\ Together(n, u)
          BY <2>1, <2>5, <3>5, <3>8, <4>2 DEF Line, Is, Together
        <5>3. Parted(n, u - 1)
          BY <3>7, <4>1, <4>2, <5>1, <5>2 DEF LogInv, OrderInv
        <5>4. PICK i \in n..u : Together(i, n) /\ Is(i, "part")
          BY <1>3, <4>2, <3>7, <5>3 DEF Parted
        <5>5. ~Is(i, "part")
          BY <2>1, <2>5, <3>1, <3>2, <3>5, <4>2, <5>4 DEF WellFiled, Together, Is
        <5>. QED BY <5>4, <5>5
      <4>4. CASE n \in b.events
        BY <1>3, <2>1, <3>1, <3>7, <4>4 DEF SinceClosing, Of, CarryInv
      <4>. QED BY <2>5, <4>3, <4>4 DEF Covers
    <3>. QED BY <1>2, <3>1, <3>4, <3>7, <3>8
  <2>. QED BY <1>1, <1>8, <2>2, <2>4, <2>5, LiveRead DEF CarryInv
<1>. QED
  BY <1>7, <1>8 DEF Reads

LEMMA CarryInvInit == Init => CarryInv
<1> SUFFICES ASSUME Init PROVE CarryInv
  OBVIOUS
<1>1. ~ \E b : b \in Live
  BY LiveIs, EmptySeq DEF Init
<1>. QED
  BY <1>1 DEF CarryInv, Init

\* The attempts that a batch has had.
Failed(b) == IF b.retried THEN 1 ELSE 0

\* An unsettled delivery was sent as often as the batch that carries it was tried.
Counted(n) ==
  /\ turn # None /\ n \in Covers(turn.batch) =>
       sends[n] <= Failed(turn.batch) + IF turn.at = "sent" THEN 1 ELSE 0
  /\ \A i \in DOMAIN todo : n \in Covers(todo[i]) => sends[n] <= Failed(todo[i])
  /\ \A w \in Windows : pending[w] # None /\ n \in Covers(pending[w].batch) => sends[n] <= 1
  /\ sends[n] > 0 => \E b \in Live : n \in Covers(b)

AttemptInv ==
  \A n \in 1..Len(log) : Over(n) \/ (sends[n] <= 2 /\ (n \in settled \/ Counted(n)))

CarriedInv == BatchesInv /\ TurnInv /\ CarryInv

\* An invitation in the batch of a membership came before it.
LEMMA InvitationPast ==
  ASSUME BatchesInv, NEW b \in Live, ~InvitationBatch(b), NEW n \in Covers(b), ~Line(n)
  PROVE  Over(n)
<1>1. PICK u \in b.triggers : Line(u)
  BY DEF BatchesInv, PromptInv, WellFiled, InvitationBatch, Line
<1>2. TypeOK /\ LogInv /\ WellFiled(b) /\ u \in Covers(b)
  BY <1>1 DEF BatchesInv, PromptInv, WellFiled, Covers
<1>3. /\ n \in 1..Len(log) /\ u \in 1..Len(log) /\ log[n].win = b.win /\ log[u].win = b.win
  BY <1>2, CoveredRead DEF BatchesInv
<1>4. /\ Len(log) \in Nat /\ log[n].stint \in Nat /\ log[u].stint \in Nat
      /\ stint[log[n].win] \in Nat /\ log[u].stint <= stint[log[n].win]
  BY <1>2, <1>3, LogTypes DEF LogInv, NowInv
<1>5. CASE u < n
  <2>1. Parted(u, n - 1)
    BY <1>1, <1>2, <1>3, <1>5 DEF LogInv, OrderInv, Together
  <2>2. PICK i \in u..n : Together(i, u) /\ Is(i, "part")
    BY <1>3, <1>4, <2>1 DEF Parted
  <2>. QED BY <1>2, <1>3, <2>2 DEF WellFiled, Together
<1>6. CASE n < u
  <2>1. log[n].stint < log[u].stint
    BY <1>1, <1>2, <1>3, <1>6 DEF LogInv, OrderInv, Together
  <2>. QED BY <1>2, <1>3, <1>4, <2>1, OverIs DEF Past
<1>. QED
  BY <1>1, <1>3, <1>4, <1>5, <1>6 DEF Line

\* A turn that ends without an answer was about what is over or was never sent.
LEMMA DroppedOver ==
  ASSUME CarriedInv, turn # None, NEW n \in Covers(turn.batch),
         \/ turn.cancelled
         \/ turn.at = "capture" /\ ~Authority(turn.batch)
         \/ turn.at # "capture" /\ ~Guarded(turn)
  PROVE  Over(n) \/ sends[n] = 0
<1> PICK b : b = turn.batch
  OBVIOUS
<1>1. TypeOK /\ LogInv /\ b \in Live /\ n \in Covers(b) /\ n \in 1..Len(log) /\ log[n].win = b.win
  BY LiveIs, CoveredRead DEF CarriedInv, BatchesInv
<1>2. /\ log[n].stint \in Nat /\ stint[b.win] \in Nat /\ turn.stint \in Nat
      /\ log[n].stint <= stint[b.win] /\ b.win \in Windows
      /\ ~Line(n) => b.win \in invited \/ log[n].stint < stint[b.win]
  BY <1>1, LogTypes DEF LogInv, NowInv, TypeOK, Turns, Line
<1>3. CASE turn.cancelled
  BY <1>3 DEF CarriedInv, TurnInv
<1>4. CASE turn.at = "capture" /\ ~Authority(turn.batch)
  <2>1. CASE InvitationBatch(b)
    <3>1. gone \/ released \/ b.win \notin invited
      BY <1>4, <2>1 DEF Authority
    <3>2. CASE Line(n)
      BY <1>1, <2>1, <3>2 DEF CarriedInv, CarryInv
    <3>3. CASE ~Line(n)
      BY <1>1, <1>2, <3>1, <3>3, OverIs DEF Past
    <3>. QED BY <3>2, <3>3
  <2>2. CASE ~InvitationBatch(b)
    <3>1. gone \/ released \/ b.win \notin member
      BY <1>4, <2>2 DEF Authority
    <3>2. CASE Line(n)
      BY <1>1, <3>1, <3>2, OverIs DEF Past
    <3>3. CASE ~Line(n)
      BY <1>1, <2>2, <3>3, InvitationPast DEF CarriedInv
    <3>. QED BY <3>2, <3>3
  <2>. QED BY <2>1, <2>2
<1>5. CASE turn.at # "capture" /\ ~Guarded(turn)
  <2>1. turn.stint <= stint[b.win] /\ log[n].stint <= turn.stint
    BY <1>1, <1>5 DEF CarriedInv, TurnInv
  <2>2. CASE InvitationBatch(b)
    <3>1. gone \/ b.win \notin invited \/ stint[b.win] # turn.stint
      BY <1>5, <2>2 DEF Guarded
    <3>2. CASE Line(n)
      BY <1>1, <1>5, <2>2, <3>2 DEF CarriedInv, TurnInv
    <3>3. CASE ~Line(n)
      BY <1>1, <1>2, <2>1, <3>1, <3>3, OverIs DEF Past
    <3>. QED BY <3>2, <3>3
  <2>3. CASE ~InvitationBatch(b)
    <3>1. gone \/ b.win \notin member \/ stint[b.win] # turn.stint
      BY <1>5, <2>3 DEF Guarded
    <3>2. CASE Line(n)
      BY <1>1, <1>2, <2>1, <3>1, <3>2, OverIs DEF Past
    <3>3. CASE ~Line(n)
      BY <1>1, <2>3, <3>3, InvitationPast DEF CarriedInv
    <3>. QED BY <3>2, <3>3
  <2>. QED BY <2>2, <2>3
<1>. QED
  BY <1>3, <1>4, <1>5

LEMMA FailedValue == \A b : Failed(b) \in 0..1 /\ (b.retried => Failed(b) = 1)
  BY DEF Failed

\* A step that moves no batch keeps the count.
LEMMA CountKept ==
  ASSUME TypeOK, NEW n \in Ids, Counted(n), sends' = sends, todo' = todo, pending' = pending,
         \/ turn' = turn
         \/ /\ turn # None /\ turn' # None /\ turn'.batch = turn.batch
            /\ turn.at = "sent" <=> turn'.at = "sent"
  PROVE  Counted(n)'
<1>1. sends[n] > 0 => \E b \in Live' : n \in Covers(b)
  BY LiveIs, LiveIsNext DEF Counted
<1>2. Covers(turn.batch)' = Covers(turn'.batch)
  BY DEF Covers
<1>. QED
  BY <1>1, <1>2 DEF Counted, Covers

\* What a turn covers no other batch does.
LEMMA OnlyTheTurn ==
  ASSUME BatchesInv, turn # None, NEW n \in Covers(turn.batch)
  PROVE  /\ \A i \in DOMAIN todo : n \notin Covers(todo[i])
         /\ \A w \in Windows : pending[w] # None => n \notin Covers(pending[w].batch)
<1>1. log[n].win = turn.batch.win /\ turn.batch.win \in Windows
  BY LiveIs DEF BatchesInv, PromptInv, WellFiled, TypeOK, Turns, Batches
<1>2. \A b \in Live : n \in Covers(b) => b.win = turn.batch.win
  BY <1>1 DEF BatchesInv, PromptInv, WellFiled
<1>. QED
  BY <1>2, LiveIs DEF BatchesInv, OneEach

LEMMA CountStep ==
  ASSUME CarriedInv, [Next]_vars, ~Reads, NEW n \in 1..Len(log), ~Over(n), ~Over(n)',
         n \notin settled', sends[n] <= 2, Counted(n)
  PROVE  sends'[n] <= 2 /\ Counted(n)'
<1>1. TypeOK /\ BatchesInv /\ OneEach /\ CarryInv
  BY DEF CarriedInv, BatchesInv
<1>2. n \in Ids /\ sends[n] \in Nat
  <2>1. Len(log) \in Nat /\ Len(log) <= MaxLog /\ MaxLog \in Nat
    BY <1>1, LenProperties, DispatchAssumption DEF TypeOK
  <2>2. n \in Ids
    BY <2>1 DEF Ids
  <2>. QED BY <1>1, <2>2 DEF TypeOK
<1>3. ASSUME turn # None
      PROVE  turn \in Turns /\ turn.batch \in Batches /\ turn.batch \in Live
  BY <1>1, <1>3, LiveIs DEF TypeOK, Turns
<1>4. CASE /\ UNCHANGED <<sends, todo, pending>>
           /\ \/ turn' = turn
              \/ /\ turn # None /\ turn' # None /\ turn'.batch = turn.batch
                 /\ turn.at = "sent" <=> turn'.at = "sent"
  BY <1>1, <1>2, <1>4, CountKept
<1>5. ASSUME NEW b \in timers, Claim(b), Claims(b)
      PROVE  sends'[n] <= 2 /\ Counted(n)'
  <2>1. /\ todo' = <<pending[b.win].batch>> /\ turn' = turn /\ turn = None /\ todo = <<>>
        /\ pending' = [pending EXCEPT ![b.win] = None] /\ pending[b.win] # None
        /\ sends' = sends
    BY <1>5 DEF Claim, Claims, LoopFree, history
  <2>2. b.win \in Windows
    BY <1>1 DEF TypeOK, Batches
  <2>3. /\ DOMAIN todo' = {1} /\ todo'[1] = pending[b.win].batch /\ pending'[b.win] = None
        /\ \A w \in Windows : w # b.win => pending'[w] = pending[w]
    BY <1>1, <2>1, <2>2 DEF TypeOK
  <2>4. Failed(todo'[1]) = 1
    BY <1>1, <2>1, <2>2, <2>3, FailedValue DEF CarryInv
  <2>5. n \in Covers(todo'[1]) => sends[n] <= 1
    BY <2>1, <2>2, <2>3 DEF Counted
  <2>6. \A w \in Windows : pending'[w] # None => pending'[w] = pending[w]
    BY <2>3
  <2>7. sends[n] > 0 => \E c \in Live' : n \in Covers(c)
    <3>1. \A c \in Live : c \in Live'
      <4> SUFFICES ASSUME NEW c \in Live PROVE c \in Live'
        OBVIOUS
      <4>1. DOMAIN todo = {} /\ turn = None
        BY <2>1
      <4>2. PICK w \in Windows : pending[w] # None /\ c = pending[w].batch
        BY <4>1, LiveIs
      <4>3. CASE w = b.win
        BY <2>3, <4>2, <4>3, LiveIsNext
      <4>4. CASE w # b.win
        BY <2>3, <4>2, <4>4, LiveIsNext
      <4>. QED BY <4>3, <4>4
    <3>. QED BY <3>1 DEF Counted
  <2>. QED BY <2>1, <2>3, <2>4, <2>5, <2>6, <2>7 DEF Counted, Covers, Failed
<1>6. CASE StartTurn
  <2>1. /\ todo # <<>> /\ turn'.batch = Head(todo) /\ turn = None /\ turn'.at = "capture"
        /\ todo' = Tail(todo) /\ pending' = pending /\ sends' = sends
        /\ turn' = [batch |-> Head(todo), at |-> "capture", stint |-> 0,
                    cancelled |-> FALSE, acted |-> FALSE]
    BY <1>6 DEF StartTurn, history
  <2>2. Head(todo) = todo[1] /\ 1 \in DOMAIN todo /\ Head(todo) \in Batches
    BY <1>1, <2>1, HeadTailProperties, LenProperties DEF TypeOK
  <2>3. /\ \A i \in DOMAIN todo' : i + 1 \in DOMAIN todo /\ todo'[i] = todo[i + 1]
        /\ \A i \in DOMAIN todo : i # 1 => i - 1 \in DOMAIN todo' /\ todo[i] = todo'[i - 1]
    BY <1>1, <2>1, HeadTailProperties, LenProperties DEF TypeOK
  <2>4. turn' # None
    <3>1. turn' \in Turns
      BY <2>1, <2>2 DEF Turns
    <3>. QED BY <3>1, NoneAssumption
  <2>5. sends[n] > 0 => \E c \in Live' : n \in Covers(c)
    <3>1. ASSUME NEW c \in Live PROVE c \in Live'
      <4>1. turn'.batch \in Live'
        BY <2>4, LiveIsNext
      <4>2. ASSUME NEW i \in DOMAIN todo, c = todo[i] PROVE c \in Live'
        <5>1. i = 1 \/ \E j \in DOMAIN todo' : c = todo'[j]
          BY <2>3, <4>2
        <5>. QED BY <2>1, <2>2, <4>1, <4>2, <5>1, LiveIsNext
      <4>3. ASSUME NEW w \in Windows, pending[w] # None, c = pending[w].batch PROVE c \in Live'
        BY <2>1, <4>3, LiveIsNext
      <4>. QED BY <2>1, <4>2, <4>3, LiveIs
    <3>. QED BY <3>1 DEF Counted
  <2>. QED BY <1>2, <2>1, <2>2, <2>3, <2>5, FailedValue DEF Counted, Covers, Failed
<1>7. CASE Send /\ Guarded(turn)
  <2>1. /\ turn # None /\ turn.at = "begun" /\ turn' = [turn EXCEPT !.at = "sent"]
        /\ sends' = [m \in Ids |->
              IF m \in Covers(turn.batch) \ settled THEN sends[m] + 1 ELSE sends[m]]
        /\ UNCHANGED <<todo, pending>>
    BY <1>7 DEF Send, client
  <2>2. turn' \in Turns /\ turn'.batch = turn.batch /\ turn'.at = "sent" /\ turn' # None
    BY <1>3, <2>1, NoneAssumption DEF Turns
  <2>3. CASE n \in Covers(turn.batch)
    <3>1. sends[n] <= Failed(turn.batch)
      BY <2>1, <2>3, <1>2, FailedValue DEF Counted
    <3>2. sends'[n] <= Failed(turn.batch) + 1
      BY <1>2, <2>1, <3>1, FailedValue
    <3>3. turn'.batch \in Live'
      BY <2>2, LiveIsNext
    <3>. QED BY <1>1, <1>2, <2>1, <2>2, <2>3, <3>2, <3>3, OnlyTheTurn, FailedValue DEF Counted, Covers, Failed
  <2>4. CASE n \notin Covers(turn.batch)
    <3>1. sends'[n] = sends[n]
      BY <1>2, <2>1, <2>4
    <3>2. \A c \in Live : c \in Live'
      BY <2>1, <2>2, LiveIs, LiveIsNext
    <3>3. n \notin Covers(turn'.batch)
      BY <2>2, <2>4
    <3>. QED BY <2>1, <3>1, <3>2, <3>3 DEF Counted, Covers, Failed
  <2>. QED BY <2>3, <2>4
<1>8. ASSUME turn # None, turn' = None, UNCHANGED <<todo, pending, sends>>,
             n \notin Covers(turn.batch) \/ sends[n] = 0
      PROVE  sends'[n] <= 2 /\ Counted(n)'
  <2>1. sends[n] > 0 => \E c \in Live' : n \in Covers(c)
    <3>1. \A c \in Live : c = turn.batch \/ c \in Live'
      BY <1>8, LiveIs, LiveIsNext
    <3>. QED BY <1>2, <1>8, <3>1 DEF Counted
  <2>. QED BY <1>8, <2>1 DEF Counted, Covers, Failed
<1>9. CASE turn # None /\ Settles
  BY <1>8, <1>9 DEF Settles, client
<1>10. CASE /\ turn # None /\ Dropped
            /\ \/ turn.cancelled
               \/ turn.at = "capture" /\ ~Authority(turn.batch)
               \/ turn.at # "capture" /\ ~Guarded(turn)
  <2>1. n \notin Covers(turn.batch) \/ sends[n] = 0
    BY <1>10, DroppedOver
  <2>. QED BY <1>8, <1>10, <2>1 DEF Dropped, client
<1>11. CASE FailTransiently
  <2> DEFINE f == [turn.batch EXCEPT !.retried = TRUE]
  <2>1. /\ todo' = todo /\ turn' = None /\ turn # None /\ turn.at = "sent" /\ sends' = sends
        /\ pending' = [pending EXCEPT ![f.win] = [token |-> f, batch |-> f]]
        /\ ~turn.batch.retried
    BY <1>11 DEF FailTransiently, Sent, Replays
  <2>2. Covers(f) = Covers(turn.batch) /\ f.win = turn.batch.win /\ f.win \in Windows
    BY <1>3, <2>1 DEF Covers, Batches
  <2> HIDE DEF f
  <2>3. /\ pending'[f.win].batch = f /\ pending'[f.win] = [token |-> f, batch |-> f]
        /\ \A w \in Windows : w # f.win => pending'[w] = pending[w]
    BY <1>1, <2>1, <2>2 DEF TypeOK
  <2>4. pending'[f.win] # None
    <3>1. TypeOK'
      BY <1>1, TypeStep
    <3>2. [token |-> f, batch |-> f] \in Waits
      BY <1>3, <2>1 DEF f, Waits, Batches
    <3>. QED BY <2>3, <3>2, NoneAssumption
  <2>5. n \in Covers(f) => sends[n] <= 1
    BY <1>2, <2>1, <2>2 DEF Counted, Failed
  <2>6. sends[n] > 0 => \E c \in Live' : n \in Covers(c)
    <3>1. f \in Live'
      BY <2>2, <2>3, <2>4, LiveIsNext
    <3>2. \A c \in Live : c = turn.batch \/ c \in Live'
      <4>1. pending[f.win] = None
        BY <1>1, <2>1, <2>2 DEF OneEach
      <4>. QED BY <2>1, <2>3, <4>1, LiveIs, LiveIsNext
    <3>. QED BY <2>2, <3>1, <3>2 DEF Counted
  <2>. QED BY <2>1, <2>3, <2>5, <2>6 DEF Counted, Covers, Failed
<1>12. CASE Environment
  <2>1. UNCHANGED <<sends, todo, pending>> /\ (turn' = turn \/ \E W : turn' = Interrupted(turn, W))
    BY <1>12 DEF Environment, Say, Invite, Kick, Quit, Release, Interrupt, client, history
  <2>2. turn' = turn \/ (turn # None /\ turn' = [turn EXCEPT !.cancelled = TRUE])
    BY <2>1 DEF Interrupted
  <2>3. CASE turn # None /\ turn' = [turn EXCEPT !.cancelled = TRUE]
    <3>1. turn' \in Turns /\ turn'.batch = turn.batch /\ turn'.at = turn.at
      BY <1>3, <2>3 DEF Turns
    <3>. QED BY <1>4, <2>1, <2>3, <3>1, NoneAssumption
  <2>. QED BY <1>4, <2>1, <2>2, <2>3
<1>13. CASE RunTool \/ (Capture /\ Authority(turn.batch))
  <2>1. /\ UNCHANGED <<sends, todo, pending>> /\ turn # None
        /\ \/ turn.at = "sent" /\ turn' = [turn EXCEPT !.acted = TRUE]
           \/ turn.at = "capture" /\ turn' = [turn EXCEPT !.at = "begun", !.stint = stint[turn.batch.win]]
    BY <1>13 DEF RunTool, Capture, Sent, client, history
  <2>2. stint[turn.batch.win] \in Nat
    BY <1>1, <1>3, <2>1 DEF TypeOK, Batches
  <2>3. turn' \in Turns /\ turn'.batch = turn.batch /\ (turn.at = "sent" <=> turn'.at = "sent")
    BY <1>3, <2>1, <2>2 DEF Turns
  <2>. QED BY <1>4, <2>1, <2>3, NoneAssumption
<1>14. CASE Exit
  <2>1. Over(n)
    BY <1>14 DEF Exit, Over
  <2>. QED BY <2>1
<1>15. CASE UNCHANGED vars \/ (\E b \in timers : AbandonRetry(b) \/ (Claim(b) /\ ~Claims(b)))
  <2>1. UNCHANGED <<sends, todo, pending, turn>>
    BY <1>15 DEF vars, AbandonRetry, Claim, client, history
  <2>. QED BY <1>4, <2>1
<1>16. CASE Answer \/ FailFinally \/ Closed \/ Cancelled
  BY <1>9, <1>10, <1>16 DEF Answer, FailFinally, Closed, Cancelled, Sent
<1>17. CASE Capture /\ ~Authority(turn.batch)
  BY <1>10, <1>17 DEF Capture
<1>18. CASE Send /\ ~Guarded(turn)
  BY <1>10, <1>18 DEF Send
<1>. QED
  BY <1>5, <1>6, <1>7, <1>11, <1>12, <1>13, <1>14, <1>15, <1>16, <1>17, <1>18
  DEF Next, Loop, Turn, Reads

(* Reading a burst hands the count on: what was sent of a delivery that is not
   over was sent of the waiting batch of its window, and the batch that takes that
   one's place shows it and counts as failed. *)
LEMMA CountRead ==
  ASSUME CarriedInv, NEW k \in 1..Burst, ReadBurst(k), NEW n \in 1..Len(log), ~Over(n),
         Counted(n)
  PROVE  Counted(n)'
<1> PICK D : D = read + 1 .. read + k
  OBVIOUS
<1>1. TypeOK /\ LogInv /\ PromptInv /\ OneEach /\ CarryInv
  BY DEF CarriedInv, BatchesInv
<1>2. /\ n \in Ids /\ sends[n] \in Nat /\ sends' = sends /\ log' = log
      /\ read \in Nat /\ k \in Nat /\ read' = read + k /\ read + k <= Len(log) /\ Len(log) \in Nat
  <2>1. Len(log) \in Nat /\ Len(log) <= MaxLog /\ MaxLog \in Nat
    BY <1>1, LenProperties, DispatchAssumption DEF TypeOK
  <2>2. n \in Ids
    BY <2>1 DEF Ids
  <2>. QED BY <1>1, <2>1, <2>2, DispatchAssumption DEF TypeOK, ReadBurst, server, history
<1>3. todo = <<>> /\ turn = None /\ turn' = None
  BY <1>1, BurstPlaces
<1>4. CASE sends[n] = 0
  BY <1>2, <1>3, <1>4, FailedValue DEF Counted
<1>5. CASE sends[n] > 0
  <2>1. PICK w \in Windows : pending[w] # None /\ n \in Covers(pending[w].batch)
    <3>1. DOMAIN todo = {}
      BY <1>3
    <3>. QED BY <1>3, <1>5, <3>1, LiveIs DEF Counted
  <2>2. pending[w].batch \in Live /\ pending[w].batch.win = w /\ sends[n] <= 1
    BY <1>1, <2>1, LiveIs DEF OneEach, Counted
  <2>3. n \in 1..read /\ log[n].win = w /\ n \in hist[w]
    BY <1>1, <2>1, <2>2, CoveredRead DEF CarryInv
  <2>4. \A m \in Of(D, w) : ~Is(m, "part") /\ ~Is(m, "join")
    <3> SUFFICES ASSUME NEW m \in Of(D, w), Is(m, "part") \/ Is(m, "join") PROVE FALSE
      OBVIOUS
    <3>1. m \in 1..Len(log) /\ n < m /\ Together(n, m)
      BY <1>2, <2>3 DEF Of, Together
    <3>. QED BY <1>1, <3>1, ClosedOver
  <2>5. pending'[w] # None /\ n \in Covers(pending'[w].batch)
    <3>1. pending'[w] # None
      BY <1>1, <2>1, <2>4, BurstPlaces
    <3>2. CASE pending'[w] = pending[w]
      BY <2>1, <3>1, <3>2
    <3>3. CASE pending'[w] = Merge(pending[w], BatchOf(Of(D, w), w))
      <4>1. ~Reopened(Of(D, w))
        BY <2>4 DEF Reopened
      <4>2. n \in BatchOf(Of(D, w), w).history
        BY <2>3, <4>1 DEF BatchOf
      <4>3. pending'[w].batch.history = BatchOf(Of(D, w), w).history
        <5>1. pending[w] \in Waits
          BY <1>1, <2>1 DEF TypeOK
        <5>2. pending'[w].batch = [BatchOf(Of(D, w), w) EXCEPT
                 !.retried = pending[w].batch.retried \/ BatchOf(Of(D, w), w).retried]
          BY <3>3, <5>1 DEF Merge, Waits
        <5>. QED BY <5>2 DEF BatchOf
      <4>. QED BY <3>1, <4>2, <4>3 DEF Covers
    <3>. QED BY <1>1, <3>1, <3>2, <3>3, BurstPlaces
  <2>6. \A i \in DOMAIN todo' : n \notin Covers(todo'[i])
    <3> SUFFICES ASSUME NEW i \in DOMAIN todo', n \in Covers(todo'[i]) PROVE FALSE
      OBVIOUS
    <3> PICK b : b = todo'[i]
      OBVIOUS
    <3>1. b \in Live' /\ n \in Covers(b)
      BY LiveIsNext
    <3>2. [Next]_vars
      BY DEF Next, Loop
    <3>3. WellFiled(b)'
      BY <1>1, <3>1, <3>2, PromptInvStep DEF PromptInv
    <3>4. log'[n].win = b.win
      BY <3>1, <3>3 DEF WellFiled, Covers
    <3>. QED BY <1>1, <1>2, <2>3, <2>5, <3>4, BurstPlaces
  <2>7. \E b \in Live' : n \in Covers(b)
    BY <2>5, LiveIsNext
  <2>. QED BY <1>2, <1>3, <2>2, <2>6, <2>7 DEF Counted, Covers
<1>. QED
  BY <1>2, <1>4, <1>5

\* What is settled stays so and is not counted any more.
LEMMA SettledStep ==
  ASSUME TypeOK, [Next]_vars, NEW n \in Ids
  PROVE  /\ n \in settled => n \in settled' /\ sends'[n] = sends[n]
         /\ n \in settled' => n \in settled \/ sends' = sends
<1>1. settled' = settled \/ (settled \subseteq settled' /\ sends' = sends)
  <2>1. CASE Loop
    BY <2>1 DEF Loop, ReadBurst, Claim, AbandonRetry, Exit, history
  <2>2. CASE Turn
    BY <2>2 DEF Turn, StartTurn, Capture, Send, Answer, Cancelled, Closed, FailFinally,
                FailTransiently, RunTool, Dropped, Settles, history
  <2>3. CASE Environment
    BY <2>3 DEF Environment, Say, Invite, Kick, Quit, Release, Interrupt, history
  <2>. QED BY <2>1, <2>2, <2>3 DEF Next, vars, history
<1>2. n \in settled => sends'[n] = sends[n]
  BY SendsStep
<1>. QED
  BY <1>1, <1>2

LEMMA ZeroCounted ==
  ASSUME NEW n, sends'[n] = 0
  PROVE  Counted(n)'
<1>1. \A b : 0 <= Failed(b) + 0 /\ 0 <= Failed(b) + 1 /\ 0 <= Failed(b)
  BY FailedValue
<1>. QED
  BY <1>1 DEF Counted, Failed

LEMMA AttemptInvStep ==
  ASSUME CarriedInv, CarriedInv', AttemptInv, [Next]_vars
  PROVE  AttemptInv'
<1>1. TypeOK /\ TypeOK' /\ LogInv /\ CarryInv'
  BY DEF CarriedInv, BatchesInv
<1>2. /\ Len(log) \in Nat /\ Len(log') \in Nat /\ Len(log) <= Len(log')
      /\ Len(log') <= MaxLog /\ MaxLog \in Nat /\ read \in Nat /\ read <= Len(log)
  BY <1>1, LogKept, DispatchAssumption DEF TypeOK
<1> SUFFICES ASSUME NEW n \in 1..Len(log'), ~Over(n)'
             PROVE  sends'[n] <= 2 /\ (n \in settled' \/ Counted(n)')
  BY DEF AttemptInv
<1>3. n \in Ids
  BY <1>2 DEF Ids
<1>4. CASE n \in 1..Len(log)
  <2>1. ~Over(n)
    BY <1>1, <1>4, OverKept
  <2>2. sends[n] <= 2 /\ (n \in settled \/ Counted(n))
    BY <1>4, <2>1 DEF AttemptInv
  <2>3. CASE n \in settled'
    BY <1>1, <1>3, <2>2, <2>3, SettledStep
  <2>4. CASE n \notin settled'
    <3>1. Counted(n)
      BY <1>1, <1>3, <2>2, <2>4, SettledStep
    <3>2. CASE Reads
      <4>1. PICK k \in 1..Burst : ReadBurst(k)
        BY <3>2 DEF Reads
      <4>. QED BY <1>4, <2>1, <2>2, <3>1, <4>1, CountRead DEF ReadBurst, history
    <3>. QED BY <1>4, <2>1, <2>2, <2>4, <3>1, <3>2, CountStep
  <2>. QED BY <2>3, <2>4
<1>5. CASE n \notin 1..Len(log)
  <2>1. ~Reads
    BY <1>5 DEF Reads, ReadBurst, server
  <2>2. n > read'
    BY <1>2, <1>5, <2>1, ReadingKept
  <2>3. sends'[n] = 0
    BY <1>1, <1>3, <2>2 DEF CarryInv
  <2>. QED BY <2>3, ZeroCounted
<1>. QED
  BY <1>4, <1>5

LEMMA CarriedInvariant == Spec => []CarriedInv
<1>1. Init => CarriedInv
  BY TypeInit, LogInvInit, PromptInvInit, OneEachInit, ActInvInit, TurnInvInit, CarryInvInit
  DEF CarriedInv, BatchesInv
<1>2. CarriedInv /\ [Next]_vars => CarriedInv'
  BY TypeStep, LogInvStep, PromptInvStep, OneEachStep, ActInvStep, TurnInvStep, CarryInvStep
  DEF CarriedInv, BatchesInv
<1>. QED
  BY <1>1, <1>2, PTL DEF Spec

(* While its membership or invitation lasts, no delivery is sent to the provider by
   more than two turns before it is answered or reported: every batch that takes
   the place of a failed one inherits the failure (redispatchSet.merge, runBatch). *)
THEOREM AttemptsBounded == Spec => []TwoAttempts
<1>1. Init => AttemptInv
  <2> SUFFICES ASSUME Init PROVE AttemptInv
    OBVIOUS
  <2>1. Len(log) = 0
    BY EmptySeq DEF Init
  <2>. QED BY <2>1 DEF AttemptInv
<1>2. CarriedInv /\ CarriedInv' /\ AttemptInv /\ [Next]_vars => AttemptInv'
  BY AttemptInvStep
<1>3. AttemptInv => TwoAttempts
  BY DEF AttemptInv, TwoAttempts
<1>. QED
  BY <1>1, <1>2, <1>3, CarriedInvariant, PTL DEF Spec
=============================================================================
