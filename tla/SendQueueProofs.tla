-------------------------- MODULE SendQueueProofs --------------------------
(***************************************************************************)
(* Theorems about SendQueue for every buffer size, allowance, number of    *)
(* deliveries and set of teardowns.                                        *)
(***************************************************************************)
EXTENDS SendQueue, TLAPS, SequenceTheorems, FiniteSetTheorems

Increasing(f) == \A i, j \in DOMAIN f : i < j => f[i] < f[j]

\* A strictly increasing map of positions never moves one forward.
LEMMA PositionBound ==
  ASSUME NEW k \in Nat, NEW n \in Nat, NEW f \in [1..k -> 1..n],
         Increasing(f), NEW i \in 1..k
  PROVE  i <= f[i]
<1> DEFINE g == [x \in 1..i |-> f[x]]
<1>1. \A x, y \in 1..k : x < y => f[x] < f[y]
  BY DEF Increasing
<1>2. f[i] \in 1..n /\ \A x \in 1..i : x \in 1..k /\ f[x] \in 1..n
  OBVIOUS
<1>3. \A x \in 1..i : f[x] \in 1..f[i]
  BY <1>1, <1>2
<1>4. g \in [1..i -> 1..f[i]]
  BY <1>3
<1>5. ASSUME NEW x \in 1..i, NEW y \in 1..i, g[x] = g[y]
      PROVE  x = y
  <2>1. f[x] = f[y] /\ f[x] \in Nat
    BY <1>2, <1>5
  <2>2. ~(x < y) /\ ~(y < x)
    BY <1>1, <1>2, <2>1
  <2>. QED BY <2>2
<1>6. g \in Injection(1..i, 1..f[i])
  BY <1>4, <1>5 DEF Injection, IsInjective
<1>7. /\ Cardinality(1..i) = i /\ Cardinality(1..f[i]) = f[i]
      /\ IsFiniteSet(1..f[i])
  BY <1>2, FS_Interval
<1>. QED BY <1>6, <1>7, FS_Injection

\* What Thinned yields: a sequence of deliveries taken in order from `s`.
LEMMA ThinnedProperties ==
  ASSUME NEW s \in Seq(Delivery), NEW t \in Thinned(s)
  PROVE  /\ t \in Seq(Delivery)
         /\ \E f \in [1..Len(t) -> 1..Len(s)] :
              Increasing(f) /\ \A i \in 1..Len(t) : t[i] = s[f[i]]
<1>1. PICK k \in 0..Len(s) :
        \E f \in [1..k -> 1..Len(s)] :
          /\ \A i, j \in 1..k : i < j => f[i] < f[j]
          /\ t = [i \in 1..k |-> s[f[i]]]
  BY DEF Thinned
<1>. PICK f \in [1..k -> 1..Len(s)] :
       /\ \A i, j \in 1..k : i < j => f[i] < f[j]
       /\ t = [i \in 1..k |-> s[f[i]]]
  BY <1>1
<1>2. k \in Nat /\ \A i \in 1..k : s[f[i]] \in Delivery
  OBVIOUS
<1>3. t \in Seq(Delivery) /\ Len(t) = k
  BY <1>2
<1>. QED BY <1>3 DEF Increasing

-----------------------------------------------------------------------------
(* Type correctness.                                                       *)

\* queueLocked keeps the types of what it may change.
LEMMA QueueLockedType ==
  ASSUME TypeOK, NEW d \in Delivery, QueueLocked(d)
  PROVE  /\ offered' \in Nat
         /\ outbox' \in Seq(Delivery)
         /\ events' \in Seq(Delivery) /\ Len(events') <= BufSize
         /\ wake' \in BOOLEAN /\ outSealed' \in BOOLEAN
         /\ disconnecting' \in BOOLEAN /\ refused' \subseteq Nat
<1> USE SendQueueAssumption DEF TypeOK, Delivery
<1>1. offered' \in Nat
  BY DEF QueueLocked
<1>2. CASE DirectSend(d)
  BY <1>1, <1>2, AppendProperties DEF DirectSend, TakesDirectPath
<1>3. CASE Overflowed(d)
  BY <1>1, <1>3 DEF Overflowed
<1>4. CASE Appended(d)
  BY <1>1, <1>4, AppendProperties DEF Appended
<1>5. CASE Discarded(d)
  BY <1>1, <1>5 DEF Discarded
<1>. QED BY <1>2, <1>3, <1>4, <1>5 DEF QueueLocked

\* Offering a terminal delivery keeps them too.
LEMMA OfferTerminalType ==
  ASSUME TypeOK, NEW t \in Teardowns, NEW found, OfferTerminal(t, found)
  PROVE  /\ offered' \in Nat
         /\ outbox' \in Seq(Delivery)
         /\ events' \in Seq(Delivery) /\ Len(events') <= BufSize
         /\ wake' \in BOOLEAN /\ outSealed' \in BOOLEAN
         /\ disconnecting' \in BOOLEAN /\ refused' \subseteq Nat
         /\ told' \in [Teardowns -> Nat]
<1>1. CASE found
  <2>1. Offering(TRUE) \in Delivery
    BY DEF Offering, Delivery, TypeOK
  <2>2. QueueLocked(Offering(TRUE))
    BY <1>1 DEF OfferTerminal
  <2>3. told' \in [Teardowns -> Nat]
    <3>1. told[t] \in Nat /\ told[t] + 1 \in Nat
      BY DEF TypeOK
    <3>2. CASE Discards(Offering(TRUE))
      BY <1>1, <3>1, <3>2 DEF OfferTerminal, TypeOK
    <3>3. CASE ~Discards(Offering(TRUE))
      BY <1>1, <3>1, <3>3 DEF OfferTerminal, TypeOK
    <3>. QED BY <3>2, <3>3
  <2>. QED BY <2>1, <2>2, <2>3, QueueLockedType
<1>2. CASE ~found
  BY <1>2 DEF OfferTerminal, TypeOK
<1>. QED BY <1>1, <1>2

\* closeOutbound too.
LEMMA CloseOutboundType ==
  ASSUME TypeOK, CloseOutbound
  PROVE  /\ outbox' \in Seq(Delivery) /\ lost' \subseteq Nat
         /\ outClosed' \in BOOLEAN /\ outDrained' \in BOOLEAN
         /\ outSealed' \in BOOLEAN /\ terminating' \in BOOLEAN
         /\ outDraining' \in BOOLEAN
<1>1. Releasable \in Seq(Delivery)
  BY HeadTailProperties DEF TypeOK, Releasable
<1>2. \A d \in Delivery : d.n \in Nat
  BY DEF Delivery
<1>3. \A i \in 1..Len(Releasable) : Releasable[i] \in Delivery
  BY <1>1, ElementOfSeq
<1>4. {Releasable[i].n : i \in 1..Len(Releasable)} \subseteq Nat
  BY <1>2, <1>3
<1>5. lost' \subseteq Nat
  BY <1>4 DEF CloseOutbound, TypeOK
<1>6. outbox' \in Seq(Delivery)
  BY DEF CloseOutbound
<1>. QED BY <1>5, <1>6 DEF CloseOutbound, TypeOK

LEMMA GotoType ==
  ASSUME TypeOK, NEW t \in Teardowns, NEW from, NEW to \in TeardownStates,
         Goto(t, from, to)
  PROVE  pc' \in [Teardowns -> TeardownStates]
BY DEF Goto, TypeOK

\* Every value the program holds keeps its type.
THEOREM TypeCorrect == Spec => []TypeOK
<1>1. Init => TypeOK
  <2> SUFFICES ASSUME Init PROVE TypeOK
    OBVIOUS
  <2>1. pc \in [Teardowns -> TeardownStates] /\ told \in [Teardowns -> Nat]
    BY DEF Init, TeardownStates
  <2>2. /\ outbox \in Seq(Delivery) /\ events \in Seq(Delivery)
        /\ received \in Seq(Delivery) /\ Len(events) <= BufSize
    BY SendQueueAssumption DEF Init
  <2>3. offered \in Nat /\ refused \subseteq Nat /\ lost \subseteq Nat
    BY DEF Init
  <2>4. held \in Delivery /\ pump \in PumpStates
    BY DEF Init, NoDelivery, Delivery, PumpStates
  <2>. QED BY <2>1, <2>2, <2>3, <2>4, SendQueueAssumption DEF Init, TypeOK
<1>2. TypeOK /\ [Next]_vars => TypeOK'
  <2> SUFFICES ASSUME TypeOK, [Next]_vars PROVE TypeOK'
    OBVIOUS
  <2> USE DEF vars, queue, flags, session, registry, history, PumpStates
  <2>1. CASE Enqueue
    <3>1. Offering(FALSE) \in Delivery
      BY DEF Offering, Delivery, TypeOK
    <3>. QED BY <2>1, <3>1, QueueLockedType DEF Enqueue, TypeOK
  <2>2. CASE SealUnreplayable
    BY <2>2 DEF SealUnreplayable, TypeOK
  <2>3. CASE Peek
    BY <2>3, HeadTailProperties DEF Peek, TypeOK
  <2>4. CASE Woken
    BY <2>4 DEF Woken, TypeOK
  <2>5. CASE Send
    BY <2>5, AppendProperties, SendQueueAssumption DEF Send, TypeOK
  <2>6. CASE Advance
    <3>1. outbox' \in Seq(Delivery)
      BY <2>6, HeadTailProperties DEF Advance, TypeOK
    <3>2. outDrained' \in BOOLEAN
      BY <2>6 DEF Advance, TypeOK, Drained
    <3>. QED BY <2>6, <3>1, <3>2 DEF Advance, TypeOK
  <2>7. CASE PumpExit
    <3>1. CloseOutbound
      BY <2>7 DEF PumpExit
    <3>2. /\ outbox' \in Seq(Delivery) /\ lost' \subseteq Nat
          /\ outClosed' \in BOOLEAN /\ outDrained' \in BOOLEAN
          /\ outSealed' \in BOOLEAN /\ terminating' \in BOOLEAN
          /\ outDraining' \in BOOLEAN
      BY <3>1, CloseOutboundType
    <3>. QED BY <2>7, <3>2 DEF PumpExit, TypeOK
  <2>8. CASE Receive
    BY <2>8, HeadTailProperties, AppendProperties, SendQueueAssumption
       DEF Receive, TypeOK
  <2>9. CASE Activate
    <3>1. outbox' \in Seq(Delivery)
      BY <2>9, ThinnedProperties DEF Activate, TypeOK
    <3>2. UNCHANGED <<offered, events, received, flags, disconnecting, stop,
                      registry, pump, held, pc, history>>
      BY <2>9 DEF Activate
    <3>3. replayBlocked' \in BOOLEAN /\ wake' \in BOOLEAN
      BY <2>9 DEF Activate
    <3>. QED BY <3>1, <3>2, <3>3 DEF TypeOK
  <2>10. CASE Unsubscribe
    <3>1. CloseOutbound
      BY <2>10 DEF Unsubscribe, Reap
    <3>2. /\ outbox' \in Seq(Delivery) /\ lost' \subseteq Nat
          /\ outClosed' \in BOOLEAN /\ outDrained' \in BOOLEAN
          /\ outSealed' \in BOOLEAN /\ terminating' \in BOOLEAN
          /\ outDraining' \in BOOLEAN
      BY <3>1, CloseOutboundType
    <3>. QED BY <2>10, <3>2 DEF Unsubscribe, Reap, TypeOK
  <2>11. CASE Shutdown
    BY <2>11 DEF Shutdown, TypeOK
  <2>12. ASSUME NEW t \in Teardowns, BeginTermination(t)
         PROVE  TypeOK'
    <3>1. pc' \in [Teardowns -> TeardownStates]
      BY <2>12, GotoType DEF BeginTermination, TeardownStates
    <3>2. terminating' \in BOOLEAN
      BY <2>12, outClosed \/ outDraining \/ ~(outClosed \/ outDraining)
         DEF BeginTermination, TypeOK
    <3>3. UNCHANGED <<queue, outClosed, outSealed, outDraining, outDrained,
                      session, registry, pump, held, history>>
      BY <2>12 DEF BeginTermination
    <3>. QED BY <3>1, <3>2, <3>3 DEF TypeOK
  <2>13. ASSUME NEW t \in Teardowns, Proceed(t)
         PROVE  TypeOK'
    <3>0. pc' \in [Teardowns -> TeardownStates]
      <4>1. \E from, to \in TeardownStates : Goto(t, from, to)
        BY <2>13 DEF Proceed, KillNotice, CommitQuit, CommitSilently, Departs,
           AbortTermination, SealOutbound, ConnectionError, LoseSubscription, DrainOutbound,
           TakeDead, ReaperDrained, ReapClient, JoinPump, TeardownStates
      <4>. QED BY <4>1, GotoType
    <3>1. CASE KillNotice(t)
      <4>1. OfferTerminal(t, registered)
        BY <3>1 DEF KillNotice
      <4>2. /\ offered' \in Nat
            /\ outbox' \in Seq(Delivery)
            /\ events' \in Seq(Delivery) /\ Len(events') <= BufSize
            /\ wake' \in BOOLEAN /\ outSealed' \in BOOLEAN
            /\ disconnecting' \in BOOLEAN /\ refused' \subseteq Nat
            /\ told' \in [Teardowns -> Nat]
        BY <4>1, OfferTerminalType
      <4>3. UNCHANGED <<received, outClosed, terminating, outDraining,
                        outDrained, replayBlocked, stop, registry, pump,
                        held, silent, lost>>
        BY <3>1 DEF KillNotice
      <4>. QED BY <3>0, <4>2, <4>3 DEF TypeOK
    <3>2. CASE CommitQuit(t)
      <4>1. OfferTerminal(t, registered)
        BY <3>2 DEF CommitQuit
      <4>2. /\ offered' \in Nat
            /\ outbox' \in Seq(Delivery)
            /\ events' \in Seq(Delivery) /\ Len(events') <= BufSize
            /\ wake' \in BOOLEAN /\ outSealed' \in BOOLEAN
            /\ disconnecting' \in BOOLEAN /\ refused' \subseteq Nat
            /\ told' \in [Teardowns -> Nat]
        BY <4>1, OfferTerminalType
      <4>3. UNCHANGED <<received, outClosed, terminating, outDraining,
                        outDrained, replayBlocked, stop, registry, pump,
                        held, silent, lost>>
        BY <3>2 DEF CommitQuit
      <4>. QED BY <3>0, <4>2, <4>3 DEF TypeOK
    <3>3. CASE AbortTermination(t)
      <4>1. UNCHANGED <<offered, outbox, events, received, outClosed,
                        outSealed, outDraining, outDrained, session,
                        registry, pump, held, history>>
        BY <3>3 DEF AbortTermination
      <4>2. CASE outClosed \/ outDraining
        <5>1. UNCHANGED <<terminating, wake>>
          BY <3>3, <4>2 DEF AbortTermination
        <5>. QED BY <3>0, <4>1, <5>1 DEF TypeOK
      <4>3. CASE ~(outClosed \/ outDraining)
        <5>1. terminating' \in BOOLEAN /\ wake' \in BOOLEAN
          BY <3>3, <4>3 DEF AbortTermination
        <5>. QED BY <3>0, <4>1, <5>1 DEF TypeOK
      <4>. QED BY <4>2, <4>3
    <3>4. CASE SealOutbound(t)
      BY <3>0, <3>4 DEF SealOutbound, TypeOK
    <3>5. CASE ConnectionError(t)
      <4>1. OfferTerminal(t, subscribed)
        BY <3>5 DEF ConnectionError
      <4>2. /\ offered' \in Nat
            /\ outbox' \in Seq(Delivery)
            /\ events' \in Seq(Delivery) /\ Len(events') <= BufSize
            /\ wake' \in BOOLEAN /\ outSealed' \in BOOLEAN
            /\ disconnecting' \in BOOLEAN /\ refused' \subseteq Nat
            /\ told' \in [Teardowns -> Nat]
        BY <4>1, OfferTerminalType
      <4>3. UNCHANGED <<received, outClosed, terminating, outDraining,
                        outDrained, replayBlocked, stop, registry, pump,
                        held, silent, lost>>
        BY <3>5 DEF ConnectionError
      <4>. QED BY <3>0, <4>2, <4>3 DEF TypeOK
    <3>6. CASE LoseSubscription(t)
      BY <3>0, <3>6 DEF LoseSubscription, TypeOK
    <3>7. CASE DrainOutbound(t)
      BY <3>0, <3>7 DEF DrainOutbound, Drained, TypeOK
    <3>8. CASE TakeDead(t)
      <4>1. /\ registered' \in BOOLEAN
            /\ UNCHANGED <<queue, flags, session, subscribed, done, pump, held,
                           history>>
        BY <3>8 DEF TakeDead
      <4>. QED BY <3>0, <4>1 DEF TypeOK
    <3>9. CASE ReaperDrained(t)
      <4>1. UNCHANGED <<queue, flags, session, registry, pump, held, history>>
        BY <3>9 DEF ReaperDrained
      <4>. QED BY <3>0, <4>1 DEF TypeOK
    <3>10. CASE ReapClient(t)
      <4>1. CASE Goto(t, "closing", "joining") /\ Reap
        <5>1. CloseOutbound
          BY <4>1 DEF Reap
        <5>2. /\ outbox' \in Seq(Delivery) /\ lost' \subseteq Nat
              /\ outClosed' \in BOOLEAN /\ outDrained' \in BOOLEAN
              /\ outSealed' \in BOOLEAN /\ terminating' \in BOOLEAN
              /\ outDraining' \in BOOLEAN
          BY <5>1, CloseOutboundType
        <5>. QED BY <3>0, <4>1, <5>2 DEF Reap, TypeOK
      <4>2. CASE ~(Goto(t, "closing", "joining") /\ Reap)
        <5>1. UNCHANGED <<queue, flags, session, registry, pump, held,
                          history>>
          BY <3>10, <4>2 DEF ReapClient
        <5>. QED BY <3>0, <5>1 DEF TypeOK
      <4>. QED BY <4>1, <4>2
    <3>11. CASE JoinPump(t)
      BY <3>0, <3>11 DEF JoinPump, TypeOK
    <3>12. CASE CommitSilently(t)
      BY <3>0, <3>12 DEF CommitSilently, TypeOK
    <3>. QED BY <2>13, <3>1, <3>2, <3>3, <3>4, <3>5, <3>6, <3>7, <3>8, <3>9,
            <3>10, <3>11, <3>12 DEF Proceed
  <2>14. CASE UNCHANGED vars
    BY <2>14 DEF TypeOK
  <2>. QED BY <2>1, <2>2, <2>3, <2>4, <2>5, <2>6, <2>7, <2>8, <2>9, <2>10,
          <2>11, <2>12, <2>13, <2>14 DEF Next, Pump
<1>. QED BY <1>1, <1>2, PTL DEF Spec

-----------------------------------------------------------------------------
(* The steps by what they do to the queue, the channel and the pump.       *)

\* A step that leaves the stream alone: bookkeeping of a teardown, or a
\* delivery turned away.
Aside ==
  /\ UNCHANGED <<outbox, events, received, outClosed, pump, held>>
  /\ offered' \in {offered, offered + 1}
  /\ replayBlocked' \in {replayBlocked, FALSE}

\* A producer or a teardown hands a delivery to the queue.
Offered ==
  /\ \E terminal \in BOOLEAN : QueueLocked(Offering(terminal))
  /\ UNCHANGED <<received, outClosed, replayBlocked, pump, held>>

\* The subscription is reaped.
Reaped ==
  /\ CloseOutbound
  /\ UNCHANGED <<offered, events, received, replayBlocked, pump, held>>

LEMMA OfferTerminalKind ==
  ASSUME NEW t, NEW found, OfferTerminal(t, found),
         UNCHANGED <<received, outClosed, replayBlocked, pump, held>>
  PROVE  Offered \/ Aside
<1>1. CASE found
  BY <1>1 DEF OfferTerminal, Offered
<1>2. CASE ~found
  BY <1>2 DEF OfferTerminal, Aside
<1>. QED BY <1>1, <1>2

LEMMA StepKinds ==
  ASSUME [Next]_vars
  PROVE  Aside \/ Offered \/ Reaped \/ Pump \/ Receive \/ Activate
<1> USE DEF vars, queue, flags, session, registry, history
<1>1. CASE Enqueue
  BY <1>1 DEF Enqueue, Offered
<1>2. CASE SealUnreplayable
  BY <1>2 DEF SealUnreplayable, Aside
<1>3. CASE Unsubscribe
  BY <1>3 DEF Unsubscribe, Reap, Reaped
<1>4. CASE Shutdown
  BY <1>4 DEF Shutdown, Aside
<1>5. ASSUME NEW t \in Teardowns, BeginTermination(t)
      PROVE  Aside
  BY <1>5 DEF BeginTermination, Aside
<1>6. ASSUME NEW t \in Teardowns, Proceed(t)
      PROVE  Aside \/ Offered \/ Reaped
  <2>1. CASE KillNotice(t)
    <3>1. OfferTerminal(t, registered)
      BY <2>1 DEF KillNotice
    <3>. QED BY <2>1, <3>1, OfferTerminalKind DEF KillNotice
  <2>2. CASE CommitQuit(t)
    <3>1. OfferTerminal(t, registered)
      BY <2>2 DEF CommitQuit
    <3>. QED BY <2>2, <3>1, OfferTerminalKind DEF CommitQuit
  <2>3. CASE ConnectionError(t)
    <3>1. OfferTerminal(t, subscribed)
      BY <2>3 DEF ConnectionError
    <3>. QED BY <2>3, <3>1, OfferTerminalKind DEF ConnectionError
  <2>4. CASE AbortTermination(t)
    BY <2>4 DEF AbortTermination, Aside
  <2>5. CASE SealOutbound(t)
    BY <2>5 DEF SealOutbound, Aside
  <2>6. CASE LoseSubscription(t)
    BY <2>6 DEF LoseSubscription, Aside
  <2>7. CASE DrainOutbound(t)
    BY <2>7 DEF DrainOutbound, Aside
  <2>8. CASE TakeDead(t)
    BY <2>8 DEF TakeDead, Aside
  <2>9. CASE ReaperDrained(t)
    BY <2>9 DEF ReaperDrained, Aside
  <2>10. CASE ReapClient(t)
    <3>1. CASE Reap
      BY <3>1 DEF Reap, Reaped
    <3>2. CASE ~Reap
      BY <2>10, <3>2 DEF ReapClient, Aside
    <3>. QED BY <3>1, <3>2
  <2>11. CASE JoinPump(t)
    BY <2>11 DEF JoinPump, Aside
  <2>12. CASE CommitSilently(t)
    BY <2>12 DEF CommitSilently, Aside
  <2>. QED BY <1>6, <2>1, <2>2, <2>3, <2>4, <2>5, <2>6, <2>7, <2>8, <2>9,
          <2>10, <2>11, <2>12 DEF Proceed
<1>7. CASE UNCHANGED vars
  BY <1>7 DEF Aside
<1>. QED BY <1>1, <1>2, <1>3, <1>4, <1>5, <1>6, <1>7 DEF Next

-----------------------------------------------------------------------------
(* The allowance.                                                          *)

\* However producers, pump and teardowns interleave, ordinary deliveries
\* never stand past the allowance (`queueLocked`, `sendQAllowance`).
THEOREM QueueBounded == Spec => []Bounded
<1>1. Init => Bounded
  BY DEF Init, Bounded
<1>2. TypeOK /\ Bounded /\ [Next]_vars => Bounded'
  <2> SUFFICES ASSUME TypeOK, Bounded, [Next]_vars PROVE Bounded'
    OBVIOUS
  <2> SUFFICES ASSUME ~SessionLifetime, NEW i \in 1..Len(outbox)',
                      i > Allowance
               PROVE  outbox'[i].terminal
    BY DEF Bounded
  <2>0. /\ outbox \in Seq(Delivery)
        /\ \A j \in 1..Len(outbox) : j > Allowance => outbox[j].terminal
    BY DEF Bounded, TypeOK
  <2>1. CASE outbox' = outbox
    BY <2>0, <2>1
  <2>2. CASE outbox' = <<>>
    BY <2>2
  <2>3. CASE Offered
    <3>1. PICK terminal \in BOOLEAN : QueueLocked(Offering(terminal))
      BY <2>3 DEF Offered
    <3>. DEFINE d == Offering(terminal)
    <3>2. outbox' = outbox \/ Appended(d)
      BY <3>1 DEF QueueLocked, DirectSend, Overflowed, Discarded
    <3>3. CASE Appended(d)
      <4>1. Len(outbox) < Allowance \/ d.terminal
        BY <2>0, <3>3, SendQueueAssumption DEF Appended, Overflows
      <4>2. d \in Delivery
        BY DEF Offering, Delivery, TypeOK
      <4>3. outbox' = Append(outbox, d)
        BY <3>3 DEF Appended
      <4>. HIDE DEF d
      <4>4. /\ Len(outbox') = Len(outbox) + 1
            /\ \A j \in 1..Len(outbox) : outbox'[j] = outbox[j]
            /\ outbox'[Len(outbox) + 1] = d
        BY <2>0, <4>2, <4>3, AppendProperties
      <4>5. CASE i <= Len(outbox)
        BY <2>0, <4>4, <4>5
      <4>6. CASE i = Len(outbox) + 1
        BY <2>0, <4>1, <4>4, <4>6, SendQueueAssumption
      <4>. QED BY <2>0, <4>4, <4>5, <4>6
    <3>. QED BY <2>1, <3>2, <3>3
  <2>4. CASE Advance
    <3>1. CASE outbox = <<>>
      BY <2>2, <2>4, <3>1 DEF Advance
    <3>2. CASE outbox # <<>>
      <4>1. outbox' = Tail(outbox)
        BY <2>4, <3>2 DEF Advance
      <4>2. i + 1 \in 1..Len(outbox) /\ outbox'[i] = outbox[i + 1]
        BY <2>0, <3>2, <4>1, HeadTailProperties
      <4>. QED BY <2>0, <4>2, SendQueueAssumption
    <3>. QED BY <3>1, <3>2
  <2>5. CASE Activate
    <3>1. outbox' \in Thinned(outbox)
      BY <2>5 DEF Activate
    <3>2. PICK f \in [1..Len(outbox') -> 1..Len(outbox)] :
            /\ Increasing(f)
            /\ \A j \in 1..Len(outbox') : outbox'[j] = outbox[f[j]]
      BY <2>0, <3>1, ThinnedProperties
    <3>3. Len(outbox') \in Nat /\ Len(outbox) \in Nat
      BY <2>0, <3>1, ThinnedProperties
    <3>4. i <= f[i]
      BY <3>2, <3>3, PositionBound
    <3>. QED BY <2>0, <3>2, <3>3, <3>4, SendQueueAssumption
  <2>. QED BY <2>1, <2>2, <2>3, <2>4, <2>5, StepKinds
       DEF Aside, Reaped, CloseOutbound, Pump, Peek, Woken, Send, PumpExit,
           Receive, queue
<1>. QED BY <1>1, <1>2, TypeCorrect, PTL DEF Spec

-----------------------------------------------------------------------------
(* The pump and the queue agree.                                           *)

\* What ties the pump's program counter to the queue it holds no lock on.
PumpCoherent ==
  /\ ~outClosed /\ pump \in {"send", "advance"} => outbox # <<>>
  /\ ~outClosed /\ pump = "send" => held = Head(outbox)
  /\ outClosed => outbox = <<>>
  /\ pump = "exited" => outClosed
  /\ replayBlocked => /\ received = <<>> /\ events = <<>>
                      /\ pump \in {"peek", "wait", "exited"}

\* queueLocked extends the queue behind the head the pump holds.
LEMMA OfferedOutcomes ==
  ASSUME TypeOK, PumpCoherent, Offered
  PROVE  \/ UNCHANGED <<outbox, events>>
         \/ \E d \in Delivery :
              /\ d.n = offered + 1 /\ ~outClosed
              /\ d.terminal \/ (~outSealed /\ ~outDraining)
              /\ \/ /\ events' = Append(events, d)
                    /\ outbox' = outbox /\ outbox = <<>> /\ ~replayBlocked
                 \/ outbox' = Append(outbox, d) /\ events' = events
<1>1. PICK terminal \in BOOLEAN : QueueLocked(Offering(terminal))
  BY DEF Offered
<1>. DEFINE d == Offering(terminal)
<1>2. d \in Delivery /\ d.n = offered + 1
  BY DEF Offering, Delivery, TypeOK
<1>3. CASE DirectSend(d)
  BY <1>2, <1>3 DEF DirectSend, TakesDirectPath, Discards
<1>4. CASE Appended(d)
  BY <1>2, <1>4 DEF Appended, Discards
<1>. QED BY <1>1, <1>3, <1>4 DEF QueueLocked, Overflowed, Discarded

\* Between peek and advance the head stays on the queue, an attach's replay
\* is over before anything reaches the client, and a closed queue is empty.
THEOREM PumpCoherence == Spec => [](TypeOK /\ PumpCoherent)
<1>1. Init => PumpCoherent
  BY DEF Init, PumpCoherent
<1>2. TypeOK /\ PumpCoherent /\ [Next]_vars => PumpCoherent'
  <2> SUFFICES ASSUME TypeOK, PumpCoherent, [Next]_vars PROVE PumpCoherent'
    OBVIOUS
  <2> USE DEF PumpCoherent
  <2>0. outbox \in Seq(Delivery) /\ events \in Seq(Delivery)
    BY DEF TypeOK
  <2>1. CASE Aside
    <3>1. replayBlocked' => replayBlocked
      BY <2>1 DEF Aside
    <3>. QED BY <2>1, <3>1 DEF Aside
  <2>2. CASE Offered
    <3>0. UNCHANGED <<received, outClosed, replayBlocked, pump, held>>
      BY <2>2 DEF Offered
    <3>1. CASE UNCHANGED <<outbox, events>>
      BY <3>0, <3>1
    <3>2. ASSUME NEW d \in Delivery, ~outClosed,
                 events' = Append(events, d), outbox' = outbox,
                 outbox = <<>>, ~replayBlocked
          PROVE  PumpCoherent'
      BY <3>0, <3>2
    <3>3. ASSUME NEW d \in Delivery, ~outClosed,
                 outbox' = Append(outbox, d), events' = events
          PROVE  PumpCoherent'
      <4>1. outbox' # <<>> /\ (outbox # <<>> => Head(outbox') = Head(outbox))
        BY <2>0, <3>3, AppendProperties, HeadTailAppend
      <4>. QED BY <3>0, <3>3, <4>1
    <3>. QED BY <2>2, <3>1, <3>2, <3>3, OfferedOutcomes
  <2>3. CASE Reaped
    BY <2>3 DEF Reaped, CloseOutbound
  <2>4. CASE Peek
    BY <2>4 DEF Peek, queue, flags, session
  <2>5. CASE Woken
    BY <2>5 DEF Woken, flags, session
  <2>6. CASE Send
    BY <2>6 DEF Send, flags, session
  <2>7. CASE Advance
    BY <2>7 DEF Advance, session
  <2>8. CASE PumpExit
    BY <2>8 DEF PumpExit, CloseOutbound, session
  <2>9. CASE Receive
    BY <2>9 DEF Receive, flags, session
  <2>10. CASE Activate
    <3>1. outClosed => outbox' = <<>>
      <4> SUFFICES ASSUME outClosed PROVE outbox' = <<>>
        OBVIOUS
      <4>1. outbox = <<>> /\ outbox' \in Thinned(outbox)
        BY <2>10 DEF Activate
      <4>2. PICK f \in [1..Len(outbox') -> 1..Len(outbox)] :
              \A j \in 1..Len(outbox') : outbox'[j] = outbox[f[j]]
        BY <2>0, <4>1, ThinnedProperties
      <4>3. outbox' \in Seq(Delivery)
        BY <2>0, <4>1, ThinnedProperties
      <4>4. \A j \in 1..Len(outbox') : f[j] \in 1..0
        BY <4>1, <4>2
      <4>. QED BY <4>3, <4>4
    <3>. QED BY <2>10, <3>1 DEF Activate, flags
  <2>. QED BY <2>1, <2>2, <2>3, <2>4, <2>5, <2>6, <2>7, <2>8, <2>9, <2>10,
          StepKinds DEF Pump
<1>. QED BY <1>1, <1>2, TypeCorrect, PTL DEF Spec

-----------------------------------------------------------------------------
(* The pipeline: received, then the channel, then what is still queued.    *)

LEMMA ConcatAppend ==
  ASSUME NEW S, NEW a \in Seq(S), NEW b \in Seq(S), NEW x \in S
  PROVE  a \o Append(b, x) = Append(a \o b, x)
<1>1. <<x>> \in Seq(S) /\ a \o b \in Seq(S)
  BY ConcatProperties
<1>2. a \o Append(b, x) = a \o (b \o <<x>>)
  BY AppendIsConcat
<1>3. (a \o b) \o <<x>> = Append(a \o b, x)
  BY <1>1, AppendIsConcat
<1>4. (a \o b) \o <<x>> = a \o (b \o <<x>>)
  BY <1>1, ConcatAssociative
<1>. QED BY <1>2, <1>3, <1>4

LEMMA HeadThenTail ==
  ASSUME NEW S, NEW s \in Seq(S), s # <<>>
  PROVE  <<Head(s)>> \o Tail(s) = s
<1>1. Head(s) \in S /\ Tail(s) \in Seq(S) /\ Len(Tail(s)) = Len(s) - 1
  BY HeadTailProperties
<1>2. <<Head(s)>> \in Seq(S) /\ Len(<<Head(s)>>) = 1
  BY <1>1
<1>3. \A i \in 1..Len(Tail(s)) : Tail(s)[i] = s[i + 1]
  BY HeadTailProperties
<1>4. /\ <<Head(s)>> \o Tail(s) \in Seq(S)
      /\ Len(<<Head(s)>> \o Tail(s)) = Len(s)
      /\ \A i \in 1..Len(s) : (<<Head(s)>> \o Tail(s))[i] =
           IF i <= 1 THEN <<Head(s)>>[i] ELSE Tail(s)[i - 1]
  BY <1>1, <1>2, ConcatProperties
<1>5. ASSUME NEW i \in 1..Len(s)
      PROVE  (<<Head(s)>> \o Tail(s))[i] = s[i]
  <2>1. CASE i = 1
    BY <1>4, <2>1
  <2>2. CASE i > 1
    BY <1>1, <1>3, <1>4, <2>2
  <2>. QED BY <2>1, <2>2
<1>. QED BY <1>4, <1>5, SeqEqual

LEMMA PrefixOfConcat ==
  ASSUME NEW S, NEW a \in Seq(S), NEW b \in Seq(S)
  PROVE  SubSeq(a \o b, 1, Len(a)) = a
<1>. DEFINE t == SubSeq(a \o b, 1, Len(a))
<1>1. /\ Len(a) \in Nat /\ Len(b) \in Nat
      /\ \A i \in 1..Len(a) : (a \o b)[i] = a[i] /\ a[i] \in S
  BY ConcatProperties, ElementOfSeq
<1>2. /\ t \in Seq(S) /\ Len(t) = Len(a)
      /\ \A i \in 1..Len(a) : t[i] = (a \o b)[i]
  BY <1>1, SubSeqProperties
<1>. QED BY <1>1, <1>2, SeqEqual

\* What the pump has yet to send is a sequence of deliveries.
LEMMA PipelineType ==
  ASSUME TypeOK, PumpCoherent
  PROVE  /\ Pending \in Seq(Delivery)
         /\ received \o events \in Seq(Delivery)
         /\ Pipeline \in Seq(Delivery)
         /\ Len(received \o events) = Len(received) + Len(events)
         /\ Len(Pipeline) = Len(received) + Len(events) + Len(Pending)
<1>1. Pending \in Seq(Delivery)
  BY HeadTailProperties DEF TypeOK, PumpCoherent, Pending
<1>2. /\ received \in Seq(Delivery) /\ events \in Seq(Delivery)
  BY DEF TypeOK
<1>3. /\ received \o events \in Seq(Delivery)
      /\ Len(received \o events) = Len(received) + Len(events)
  BY <1>2, ConcatProperties
<1>. QED BY <1>1, <1>3, ConcatProperties DEF Pipeline

-----------------------------------------------------------------------------
(* What a step does to the pipeline.                                       *)

Kept ==
  /\ UNCHANGED <<Pipeline, received, outClosed>>
  /\ offered' \in {offered, offered + 1}

Extended ==
  /\ ~outClosed /\ UNCHANGED <<received, outClosed>>
  /\ offered' = offered + 1
  /\ \E d \in Delivery :
       /\ d.n = offered + 1 /\ Pipeline' = Append(Pipeline, d)
       /\ d.terminal \/ (~outSealed /\ ~outDraining)

Read ==
  /\ UNCHANGED <<Pipeline, outClosed, offered>>
  /\ Len(received') = Len(received) + 1 /\ Len(received) < Len(Pipeline)

Thinner ==
  /\ received = <<>> /\ UNCHANGED <<received, outClosed, offered>>
  /\ \E f \in [1..Len(Pipeline') -> 1..Len(Pipeline)] :
       /\ Increasing(f)
       /\ \A i \in 1..Len(Pipeline') : Pipeline'[i] = Pipeline[f[i]]

Cut ==
  /\ outClosed' = TRUE /\ UNCHANGED <<received, offered>>
  /\ \E k \in Len(received)..Len(Pipeline) : Pipeline' = SubSeq(Pipeline, 1, k)

LEMMA OfferedMoves ==
  ASSUME TypeOK, PumpCoherent, Offered
  PROVE  Kept \/ Extended
<1>0. /\ UNCHANGED <<received, outClosed, replayBlocked, pump, held>>
      /\ offered' = offered + 1
  BY DEF Offered, QueueLocked
<1>1. CASE UNCHANGED <<outbox, events>>
  BY <1>0, <1>1 DEF Kept, Pipeline, Pending
<1>2. ASSUME NEW d \in Delivery, d.n = offered + 1, ~outClosed,
             d.terminal \/ (~outSealed /\ ~outDraining),
             events' = Append(events, d), outbox' = outbox, outbox = <<>>
      PROVE  Extended
  <2>1. Pending = <<>> /\ Pending' = <<>>
    BY <1>0, <1>2 DEF Pending, PumpCoherent
  <2>2. Pipeline' = received \o Append(events, d)
    <3>1. received \o Append(events, d) \in Seq(Delivery)
      BY ConcatProperties, AppendProperties DEF TypeOK
    <3>. QED BY <1>0, <1>2, <2>1, <3>1, ConcatEmptySeq DEF Pipeline
  <2>3. Pipeline = received \o events
    BY <2>1, PipelineType, ConcatEmptySeq DEF Pipeline
  <2>4. Pipeline' = Append(Pipeline, d)
    BY <2>2, <2>3, ConcatAppend DEF TypeOK
  <2>. QED BY <1>0, <1>2, <2>4 DEF Extended
<1>3. ASSUME NEW d \in Delivery, d.n = offered + 1, ~outClosed,
             d.terminal \/ (~outSealed /\ ~outDraining),
             outbox' = Append(outbox, d), events' = events
      PROVE  Extended
  <2>1. Pending' = Append(Pending, d)
    BY <1>0, <1>3, HeadTailAppend DEF Pending, PumpCoherent, TypeOK
  <2>2. Pipeline' = (received \o events) \o Append(Pending, d)
    BY <1>0, <1>3, <2>1 DEF Pipeline
  <2>3. Pipeline' = Append(Pipeline, d)
    BY <2>2, PipelineType, ConcatAppend DEF Pipeline
  <2>. QED BY <1>0, <1>3, <2>3 DEF Extended
<1>. QED BY <1>1, <1>2, <1>3, OfferedOutcomes

\* Dropping what is pending leaves a prefix that holds all the client read.
LEMMA PendingDropped ==
  ASSUME TypeOK, PumpCoherent, outClosed' = TRUE, Pending' = <<>>,
         UNCHANGED <<received, events, offered>>
  PROVE  Cut
<1>1. Pipeline' = received \o events
  BY PipelineType, ConcatEmptySeq DEF Pipeline
<1>2. SubSeq(Pipeline, 1, Len(received \o events)) = received \o events
  BY PipelineType, PrefixOfConcat DEF Pipeline
<1>3. Len(received \o events) \in Len(received)..Len(Pipeline)
  <2>1. Len(received) \in Nat /\ Len(events) \in Nat /\ Len(Pending) \in Nat
    BY PipelineType DEF TypeOK
  <2>. QED BY <2>1, PipelineType
<1>. QED BY <1>1, <1>2, <1>3 DEF Cut

LEMMA SendMoves ==
  ASSUME TypeOK, PumpCoherent, Send
  PROVE  Kept
<1>0. /\ events' = Append(events, held) /\ pump = "send" /\ pump' = "advance"
      /\ UNCHANGED <<offered, outbox, received, outClosed>>
  BY DEF Send, flags
<1>1. Pending = <<held>> \o Pending'
  <2>1. CASE outClosed
    BY <1>0, <2>1, ConcatEmptySeq DEF Pending, TypeOK
  <2>2. CASE ~outClosed
    BY <1>0, <2>2, HeadThenTail DEF Pending, TypeOK, PumpCoherent
  <2>. QED BY <2>1, <2>2
<1>2. Pending' \in Seq(Delivery)
  BY <1>0, HeadTailProperties DEF Pending, TypeOK, PumpCoherent
<1>3. received \o Append(events, held) = (received \o events) \o <<held>>
  <2>1. /\ received \in Seq(Delivery) /\ events \in Seq(Delivery)
        /\ held \in Delivery /\ received \o events \in Seq(Delivery)
    BY PipelineType DEF TypeOK
  <2>2. received \o Append(events, held) = Append(received \o events, held)
    BY <2>1, ConcatAppend
  <2>3. Append(received \o events, held) = (received \o events) \o <<held>>
    BY <2>1, AppendIsConcat
  <2>. QED BY <2>2, <2>3
<1>4. Pipeline' = ((received \o events) \o <<held>>) \o Pending'
  BY <1>0, <1>3 DEF Pipeline
<1>5. <<held>> \in Seq(Delivery)
  BY DEF TypeOK
<1>6. Pipeline' = (received \o events) \o (<<held>> \o Pending')
  <2>1. received \o events \in Seq(Delivery)
    BY PipelineType
  <2>2. ((received \o events) \o <<held>>) \o Pending'
          = (received \o events) \o (<<held>> \o Pending')
    BY <1>2, <1>5, <2>1, ConcatAssociative
  <2>. QED BY <1>4, <2>2
<1>. QED BY <1>0, <1>1, <1>6 DEF Kept, Pipeline

LEMMA ReceiveMoves ==
  ASSUME TypeOK, PumpCoherent, Receive
  PROVE  Read
<1>0. /\ events # <<>> /\ events' = Tail(events)
      /\ received' = Append(received, Head(events))
      /\ UNCHANGED <<offered, outbox, outClosed, pump, held>>
  BY DEF Receive, flags
<1>1. Pending' = Pending
  BY <1>0 DEF Pending
<1>2. /\ Head(events) \in Delivery /\ Tail(events) \in Seq(Delivery)
      /\ <<Head(events)>> \in Seq(Delivery)
  BY <1>0, HeadTailProperties DEF TypeOK
<1>3. received' \o events' = (received \o <<Head(events)>>) \o Tail(events)
  BY <1>0, <1>2, AppendIsConcat DEF TypeOK
<1>4. received' \o events' = received \o (<<Head(events)>> \o Tail(events))
  BY <1>2, <1>3, ConcatAssociative DEF TypeOK
<1>5. received' \o events' = received \o events
  BY <1>0, <1>4, HeadThenTail DEF TypeOK
<1>6. Pipeline' = Pipeline
  BY <1>1, <1>5 DEF Pipeline
<1>7. /\ Len(received') = Len(received) + 1
      /\ Len(received) \in Nat /\ Len(events) \in Nat \ {0}
      /\ Len(Pending) \in Nat
  BY <1>0, <1>2, AppendProperties, EmptySeq, PipelineType DEF TypeOK
<1>. QED BY <1>0, <1>6, <1>7, PipelineType DEF Read

LEMMA ActivateMoves ==
  ASSUME TypeOK, PumpCoherent, Activate
  PROVE  Thinner
<1>0. /\ outbox' \in Thinned(outbox) /\ replayBlocked
      /\ UNCHANGED <<offered, events, received, outClosed, pump, held>>
  BY DEF Activate, flags
<1>1. /\ received = <<>> /\ events = <<>>
      /\ pump \in {"peek", "wait", "exited"}
  BY <1>0 DEF PumpCoherent
<1>2. outbox \in Seq(Delivery) /\ outbox' \in Seq(Delivery)
  BY <1>0, ThinnedProperties DEF TypeOK
<1>3. \E f \in [1..Len(outbox') -> 1..Len(outbox)] :
        Increasing(f) /\ \A i \in 1..Len(outbox') : outbox'[i] = outbox[f[i]]
  BY <1>0, <1>2, ThinnedProperties
<1>4. CASE ~outClosed
  <2>1. Pending = outbox /\ Pending' = outbox'
    BY <1>0, <1>1, <1>4 DEF Pending
  <2>2. Pipeline = outbox /\ Pipeline' = outbox'
    BY <1>0, <1>1, <1>2, <2>1, ConcatEmptySeq DEF Pipeline
  <2>. QED BY <1>0, <1>1, <1>3, <2>2 DEF Thinner
<1>5. CASE outClosed
  <2>1. Pending = <<>> /\ Pending' = <<>>
    BY <1>0, <1>1, <1>5 DEF Pending
  <2>2. Pipeline = <<>> /\ Pipeline' = <<>>
    BY <1>0, <1>1, <2>1, ConcatEmptySeq DEF Pipeline
  <2>. DEFINE f == [i \in 1..0 |-> i]
  <2>3. /\ f \in [1..Len(Pipeline') -> 1..Len(Pipeline)]
        /\ Increasing(f)
        /\ \A i \in 1..Len(Pipeline') : Pipeline'[i] = Pipeline[f[i]]
    BY <2>2 DEF Increasing
  <2>. QED BY <1>0, <1>1, <2>3 DEF Thinner
<1>. QED BY <1>4, <1>5

LEMMA ReapedMoves ==
  ASSUME TypeOK, PumpCoherent, Reaped
  PROVE  Kept \/ Cut
<1>0. /\ outClosed' = TRUE /\ outbox' = <<>>
      /\ UNCHANGED <<offered, events, received, pump, held>>
  BY DEF Reaped, CloseOutbound
<1>1. CASE outClosed
  BY <1>0, <1>1 DEF Kept, Pipeline, Pending, PumpCoherent, TypeOK
<1>2. CASE ~outClosed /\ pump # "send"
  BY <1>0, <1>2, PendingDropped DEF Pending
<1>3. CASE ~outClosed /\ pump = "send"
  <2>1. outbox # <<>> /\ outbox \in Seq(Delivery) /\ held = Head(outbox)
    BY <1>3 DEF PumpCoherent, TypeOK
  <2>2. Pending' = <<held>> /\ Pending = outbox
    BY <1>0, <1>3 DEF Pending
  <2>. DEFINE a == (received \o events) \o <<held>>
  <2>3. /\ <<held>> \in Seq(Delivery) /\ Tail(outbox) \in Seq(Delivery)
        /\ Len(<<held>>) = 1
    BY <2>1, HeadTailProperties DEF TypeOK
  <2>4. Pipeline = a \o Tail(outbox)
    BY <2>1, <2>2, <2>3, HeadThenTail, ConcatAssociative, PipelineType
       DEF Pipeline
  <2>5. a \in Seq(Delivery) /\ Len(a) = Len(received) + Len(events) + 1
    BY <2>3, PipelineType, ConcatProperties
  <2>6. Pipeline' = a
    BY <1>0, <2>2 DEF Pipeline
  <2>7. SubSeq(Pipeline, 1, Len(a)) = a
    BY <2>3, <2>4, <2>5, PrefixOfConcat
  <2>8. Len(a) \in Len(received)..Len(Pipeline)
    <3>1. Len(Pipeline) = Len(a) + Len(Tail(outbox))
      BY <2>3, <2>4, <2>5, ConcatProperties
    <3>2. Len(received) \in Nat /\ Len(events) \in Nat /\ Len(Tail(outbox)) \in Nat
      BY <2>3 DEF TypeOK
    <3>3. Len(a) \in Nat
      BY <2>5, <3>2
    <3>4. Len(received) <= Len(a)
      BY <2>5, <3>2
    <3>. HIDE DEF a
    <3>5. Len(a) <= Len(Pipeline) /\ Len(Pipeline) \in Nat
      BY <3>1, <3>2, <3>3
    <3>. QED BY <3>2, <3>3, <3>4, <3>5
  <2>. QED BY <1>0, <2>6, <2>7, <2>8 DEF Cut
<1>. QED BY <1>1, <1>2, <1>3

LEMMA PipelineMoves ==
  ASSUME TypeOK, PumpCoherent, [Next]_vars
  PROVE  Kept \/ Extended \/ Read \/ Thinner \/ Cut
<1>1. CASE Aside
  BY <1>1 DEF Aside, Kept, Pipeline, Pending
<1>2. CASE Peek
  BY <1>2 DEF Peek, Kept, Pipeline, Pending, PumpCoherent, queue, flags
<1>3. CASE Woken
  BY <1>3 DEF Woken, Kept, Pipeline, Pending, flags
<1>4. CASE Advance
  BY <1>4 DEF Advance, Kept, Pipeline, Pending, PumpCoherent
<1>5. CASE PumpExit
  <2>1. outClosed' = TRUE /\ Pending' = <<>>
    BY <1>5 DEF PumpExit, CloseOutbound, Pending
  <2>. QED BY <1>5, <2>1, PendingDropped DEF PumpExit
<1>. QED BY <1>1, <1>2, <1>3, <1>4, <1>5, StepKinds, OfferedMoves, SendMoves,
        ReceiveMoves, ActivateMoves, ReapedMoves DEF Pump

-----------------------------------------------------------------------------
(* Order, and the stream the subscription promises.                        *)

\* Nothing in the pipeline is newer than the last delivery offered: with it
\* InOrder is inductive, since what queueLocked adds is newer than the rest.
Fresh == \A i \in 1..Len(Pipeline) : Pipeline[i].n <= offered

\* Deliveries reach the client in the order they were offered.
THEOREM OrderedDelivery == Spec => [](InOrder /\ Fresh)
<1>1. Init => InOrder /\ Fresh
  BY DEF Init, InOrder, Fresh, Pipeline, Pending
<1>2. TypeOK /\ PumpCoherent /\ (InOrder /\ Fresh) /\ [Next]_vars
        => (InOrder /\ Fresh)'
  <2> SUFFICES ASSUME TypeOK, PumpCoherent, InOrder, Fresh, [Next]_vars
               PROVE  InOrder' /\ Fresh'
    OBVIOUS
  <2>0. /\ Pipeline \in Seq(Delivery) /\ offered \in Nat
        /\ \A i \in 1..Len(Pipeline) : Pipeline[i].n \in Nat
    <3>1. Pipeline \in Seq(Delivery)
      BY PipelineType
    <3>2. \A i \in 1..Len(Pipeline) : Pipeline[i] \in Delivery
      BY <3>1, ElementOfSeq
    <3>. QED BY <3>1, <3>2 DEF Delivery, TypeOK
  <2>1. CASE Kept \/ Read
    <3>1. Pipeline' = Pipeline /\ offered' \in {offered, offered + 1}
      BY <2>1 DEF Kept, Read
    <3>2. InOrder'
      BY <3>1 DEF InOrder
    <3>. QED BY <2>0, <3>1, <3>2 DEF Fresh
  <2>2. CASE Extended
    <3>1. PICK d \in Delivery :
            d.n = offered + 1 /\ Pipeline' = Append(Pipeline, d)
      BY <2>2 DEF Extended
    <3>2. /\ Len(Pipeline') = Len(Pipeline) + 1
          /\ \A i \in 1..Len(Pipeline) : Pipeline'[i] = Pipeline[i]
          /\ Pipeline'[Len(Pipeline) + 1].n = offered + 1
          /\ Len(Pipeline) \in Nat
      BY <2>0, <3>1, AppendProperties
    <3>3. offered' = offered + 1
      BY <2>2 DEF Extended
    <3>4. InOrder'
      <4> SUFFICES ASSUME NEW i \in 1..Len(Pipeline'),
                          NEW j \in 1..Len(Pipeline'), i < j
                   PROVE  Pipeline'[i].n < Pipeline'[j].n
        BY DEF InOrder
      <4>1. CASE j <= Len(Pipeline)
        BY <3>2, <4>1 DEF InOrder
      <4>2. CASE j = Len(Pipeline) + 1
        BY <2>0, <3>2, <4>2 DEF Fresh
      <4>. QED BY <3>2, <4>1, <4>2
    <3>5. Fresh'
      <4> SUFFICES ASSUME NEW i \in 1..Len(Pipeline')
                   PROVE  Pipeline'[i].n <= offered'
        BY DEF Fresh
      <4>1. CASE i <= Len(Pipeline)
        BY <2>0, <3>2, <3>3, <4>1 DEF Fresh
      <4>2. CASE i = Len(Pipeline) + 1
        BY <2>0, <3>2, <3>3, <4>2
      <4>. QED BY <3>2, <4>1, <4>2
    <3>. QED BY <3>4, <3>5
  <2>3. CASE Thinner
    <3>1. PICK f \in [1..Len(Pipeline') -> 1..Len(Pipeline)] :
            /\ Increasing(f)
            /\ \A i \in 1..Len(Pipeline') : Pipeline'[i] = Pipeline[f[i]]
      BY <2>3 DEF Thinner
    <3>2. /\ \A i \in 1..Len(Pipeline') : f[i] \in 1..Len(Pipeline)
          /\ \A i, j \in 1..Len(Pipeline') : i < j => f[i] < f[j]
      BY <3>1 DEF Increasing
    <3>3. InOrder'
      BY <3>1, <3>2 DEF InOrder
    <3>4. Fresh'
      BY <2>3, <3>1, <3>2 DEF Fresh, Thinner
    <3>. QED BY <3>3, <3>4
  <2>4. CASE Cut
    <3>1. PICK k \in Len(received)..Len(Pipeline) :
            Pipeline' = SubSeq(Pipeline, 1, k)
      BY <2>4 DEF Cut
    <3>2. k \in Nat /\ k <= Len(Pipeline) /\ Len(Pipeline) \in Nat
      BY <2>0, <3>1, PipelineType DEF TypeOK
    <3>3. /\ Len(Pipeline') = k
          /\ \A i \in 1..k : Pipeline'[i] = Pipeline[i]
      BY <2>0, <3>1, <3>2, SubSeqProperties, ElementOfSeq
    <3>4. InOrder'
      BY <3>2, <3>3 DEF InOrder
    <3>5. Fresh'
      BY <2>4, <3>2, <3>3 DEF Fresh, Cut
    <3>. QED BY <3>4, <3>5
  <2>. QED BY <2>1, <2>2, <2>3, <2>4, PipelineMoves
<1>. QED BY <1>1, <1>2, PumpCoherence, PTL DEF Spec

\* The queue, the channel and the pump together are one ordered stream that
\* only grows at its end, is read in order, and closes once.
THEOREM RefinesStream == Spec => ImplementsStream
<1>1. Init => Stream!Init
  BY DEF Init, Stream!Init, Pipeline, Pending
<1>0. TypeOK /\ PumpCoherent => Pipeline \in Seq(Delivery)
  BY PipelineType
<1>2. TypeOK /\ PumpCoherent /\ Fresh /\ [Next]_vars
        /\ (Pipeline \in Seq(Delivery))'
        => [Stream!Next]_(Stream!vars)
  <2> SUFFICES ASSUME TypeOK, PumpCoherent, Fresh, [Next]_vars,
                      (Pipeline \in Seq(Delivery))'
               PROVE  [Stream!Next]_(Stream!vars)
    OBVIOUS
  <2>0. /\ Pipeline \in Seq(Delivery) /\ Pipeline' \in Seq(Delivery)
        /\ Len(received) \in Nat /\ offered \in Nat
        /\ \A i \in 1..Len(Pipeline) : Pipeline[i].n \in Nat
    <3>1. Pipeline \in Seq(Delivery)
      BY PipelineType
    <3>2. \A i \in 1..Len(Pipeline) : Pipeline[i] \in Delivery
      BY <3>1, ElementOfSeq
    <3>. QED BY <3>1, <3>2 DEF Delivery, TypeOK
  <2>1. CASE Kept
    BY <2>1 DEF Kept, Stream!vars
  <2>2. CASE Extended
    <3>1. PICK d \in Delivery :
            d.n = offered + 1 /\ Pipeline' = Append(Pipeline, d)
      BY <2>2 DEF Extended
    <3>2. /\ Len(Pipeline') = Len(Pipeline) + 1
          /\ \A i \in 1..Len(Pipeline) : Pipeline'[i] = Pipeline[i]
          /\ Pipeline'[Len(Pipeline) + 1].n = offered + 1
      BY <2>0, <3>1, AppendProperties
    <3>3. \A i \in 1..Len(Pipeline) :
             Pipeline[i].n < Pipeline'[Len(Pipeline) + 1].n
      BY <2>0, <3>2 DEF Fresh
    <3>4. ~outClosed /\ UNCHANGED <<Len(received), ~outClosed>>
      BY <2>2 DEF Extended
    <3>. QED BY <2>0, <3>2, <3>3, <3>4 DEF Stream!Accept, Stream!Next
  <2>3. CASE Read
    <3>1. Stream!Deliver
      BY <2>3 DEF Read, Stream!Deliver
    <3>. QED BY <3>1 DEF Stream!Next
  <2>4. CASE Thinner
    <3>1. PICK f \in [1..Len(Pipeline') -> 1..Len(Pipeline)] :
            /\ Increasing(f)
            /\ \A i \in 1..Len(Pipeline') : Pipeline'[i] = Pipeline[f[i]]
      BY <2>4 DEF Thinner
    <3>2. \A i, j \in 1..Len(Pipeline') : i < j => f[i] < f[j]
      BY <3>1 DEF Increasing
    <3>3. Len(received) = 0 /\ UNCHANGED <<Len(received), ~outClosed>>
      BY <2>4 DEF Thinner
    <3>4. Stream!Withdraw
      BY <2>0, <3>1, <3>2, <3>3 DEF Stream!Withdraw
    <3>. QED BY <3>4 DEF Stream!Next
  <2>5. CASE Cut
    <3>1. Stream!Close
      BY <2>5 DEF Cut, Stream!Close
    <3>. QED BY <3>1 DEF Stream!Next
  <2>. QED BY <2>1, <2>2, <2>3, <2>4, <2>5, PipelineMoves
<1>. QED BY <1>0, <1>1, <1>2, PumpCoherence, OrderedDelivery, PTL
     DEF Spec, ImplementsStream, Stream!Spec

-----------------------------------------------------------------------------
(* No holes.                                                               *)

Withheld == refused \cup lost

\* Whoever withholds a delivery has sealed, drained or closed the queue, and
\* nobody opens it again.
Sealing == Withheld # {} => outSealed \/ outDraining \/ outClosed

LEMMA QueueLockedSeals ==
  ASSUME NEW d, QueueLocked(d), Sealing, UNCHANGED <<outClosed, outDraining, lost>>
  PROVE  Sealing'
<1>1. CASE DirectSend(d)
  BY <1>1 DEF DirectSend, Sealing, Withheld
<1>2. CASE Overflowed(d)
  BY <1>2 DEF Overflowed, Sealing, Withheld
<1>3. CASE Appended(d)
  BY <1>3 DEF Appended, Sealing, Withheld
<1>4. CASE Discarded(d)
  <2>1. CASE d.terminal
    BY <1>4, <2>1 DEF Discarded, Sealing, Withheld
  <2>2. CASE ~d.terminal
    BY <1>4, <2>2 DEF Discarded, Discards, Sealing, Withheld
  <2>. QED BY <2>1, <2>2
<1>. QED BY <1>1, <1>2, <1>3, <1>4 DEF QueueLocked

LEMMA OfferTerminalSeals ==
  ASSUME NEW t, NEW found, OfferTerminal(t, found), Sealing,
         UNCHANGED <<outClosed, outDraining, lost>>
  PROVE  Sealing'
<1>1. CASE found
  BY <1>1, QueueLockedSeals DEF OfferTerminal
<1>2. CASE ~found
  BY <1>2 DEF OfferTerminal, Sealing, Withheld
<1>. QED BY <1>1, <1>2

LEMMA SealingKept == Sealing /\ [Next]_vars => Sealing'
<1> SUFFICES ASSUME Sealing, [Next]_vars PROVE Sealing'
  OBVIOUS
<1> USE DEF vars, queue, flags, session, registry, history
<1>1. CASE Enqueue
  BY <1>1, QueueLockedSeals DEF Enqueue
<1>2. CASE SealUnreplayable
  BY <1>2 DEF SealUnreplayable, Sealing
<1>3. CASE Peek \/ Woken \/ Send \/ Advance \/ Receive \/ Activate \/ Shutdown \/ UNCHANGED vars
  <2>1. UNCHANGED <<outSealed, outDraining, outClosed, refused, lost>>
    BY <1>3 DEF Peek, Woken, Send, Advance, Receive, Activate, Shutdown
  <2>. QED BY <2>1 DEF Sealing, Withheld
<1>4. CASE CloseOutbound
  BY <1>4 DEF CloseOutbound, Sealing
<1>5. ASSUME NEW t \in Teardowns, BeginTermination(t)
      PROVE  Sealing'
  BY <1>5 DEF BeginTermination, Sealing, Withheld
<1>6. ASSUME NEW t \in Teardowns, Proceed(t)
      PROVE  Sealing'
  <2>1. CASE KillNotice(t)
    BY <2>1, OfferTerminalSeals DEF KillNotice
  <2>2. CASE CommitQuit(t)
    BY <2>2, OfferTerminalSeals DEF CommitQuit
  <2>3. CASE ConnectionError(t)
    BY <2>3, OfferTerminalSeals DEF ConnectionError
  <2>4. CASE SealOutbound(t) \/ DrainOutbound(t)
    BY <2>4 DEF SealOutbound, DrainOutbound, Sealing
  <2>5. CASE AbortTermination(t) \/ LoseSubscription(t) \/ TakeDead(t) \/ ReaperDrained(t)
             \/ JoinPump(t) \/ CommitSilently(t)
    <3>1. UNCHANGED <<outSealed, outDraining, outClosed, refused, lost>>
      BY <2>5 DEF AbortTermination, LoseSubscription, TakeDead, ReaperDrained, JoinPump,
                  CommitSilently
    <3>. QED BY <3>1 DEF Sealing, Withheld
  <2>6. CASE ReapClient(t)
    <3>1. CloseOutbound \/ UNCHANGED <<outSealed, outDraining, outClosed, refused, lost>>
      BY <2>6 DEF ReapClient, Reap
    <3>. QED BY <1>4, <3>1 DEF Sealing, Withheld
  <2>. QED BY <1>6, <2>1, <2>2, <2>3, <2>4, <2>5, <2>6 DEF Proceed
<1>. QED BY <1>1, <1>2, <1>3, <1>4, <1>5, <1>6 DEF Next, Pump, PumpExit, Unsubscribe, Reap

\* What a close throws away stood at or behind the last delivery it leaves.
LEMMA ClosingDrops ==
  ASSUME TypeOK, PumpCoherent, CloseOutbound, UNCHANGED <<received, events, held>>,
         NEW m \in lost' \ lost
  PROVE  \E j \in 1..Len(Pipeline) : Len(Pipeline') <= j /\ m = Pipeline[j].n
<1>1. /\ outClosed' = TRUE /\ outbox' = <<>>
      /\ \E x \in 1..Len(Releasable) : m = Releasable[x].n
  BY DEF CloseOutbound
<1>2. ~outClosed /\ Releasable = Pending
  <2>1. ~outClosed
    BY <1>1 DEF PumpCoherent, Releasable
  <2>. QED BY <2>1 DEF PumpCoherent, Releasable, Pending
<1>3. PICK x \in 1..Len(Pending) : m = Pending[x].n
  BY <1>1, <1>2
<1>. DEFINE front == received \o events
<1>4. /\ front \in Seq(Delivery) /\ Pending \in Seq(Delivery)
      /\ Pipeline = front \o Pending
  BY PipelineType DEF Pipeline
<1>5. Pending' = <<>> \/ Pending' = <<held>>
  BY <1>1 DEF Pending
<1>6. /\ Pending' \in Seq(Delivery) /\ Len(Pending') \in {0, 1}
      /\ Pipeline' = front \o Pending'
  <2>1. held \in Delivery
    BY DEF TypeOK
  <2>2. Pending' \in Seq(Delivery) /\ Len(Pending') \in {0, 1}
    <3>1. <<held>> \in Seq(Delivery) /\ Len(<<held>>) = 1
      BY <2>1
    <3>2. <<>> \in Seq(Delivery) /\ Len(<<>>) = 0
      BY EmptySeq
    <3>3. CASE Pending' = <<>>
      BY <3>2, <3>3
    <3>4. CASE Pending' = <<held>>
      BY <3>1, <3>4
    <3>. QED BY <1>5, <3>3, <3>4
  <2>3. Pipeline' = (received' \o events') \o Pending'
    BY DEF Pipeline
  <2>. QED BY <2>2, <2>3
<1>. HIDE DEF front
<1>7. Len(front) \in Nat /\ Len(Pending) \in Nat
  BY <1>4
<1>8. Len(Pipeline') <= Len(front) + x
  <2>1. Len(Pipeline') = Len(front) + Len(Pending')
    BY <1>4, <1>6, ConcatProperties
  <2>. QED BY <1>3, <1>6, <1>7, <2>1
<1>9. Len(Pipeline) = Len(front) + Len(Pending)
  BY <1>4, ConcatProperties
<1>10. Len(front) + x \in 1..Len(Pipeline)
  BY <1>3, <1>7, <1>9
<1>11. Pipeline[Len(front) + x] = Pending[x]
  BY <1>3, <1>4, <1>7, ConcatProperties
<1>. QED BY <1>3, <1>8, <1>10, <1>11

\* A delivery is withheld as it is offered, or by the close that throws it away.
LEMMA WithheldMoves ==
  ASSUME TypeOK, PumpCoherent, [Next]_vars
  PROVE  \/ Withheld' = Withheld
         \/ Kept /\ Withheld' \subseteq Withheld \cup {offered + 1}
         \/ (Reaped \/ PumpExit) /\ refused' = refused
<1> USE DEF vars, queue, flags, session, registry, history
<1>1. ASSUME NEW d, QueueLocked(d), d.n = offered + 1,
             UNCHANGED <<received, outClosed, pump, held, lost>>
      PROVE  \/ Withheld' = Withheld
             \/ Kept /\ Withheld' \subseteq Withheld \cup {offered + 1}
  <2>1. CASE DirectSend(d) \/ Appended(d)
    BY <1>1, <2>1 DEF DirectSend, Appended, Withheld
  <2>2. CASE Overflowed(d) \/ Discarded(d)
    <3>1. UNCHANGED <<outbox, events>> /\ refused' \subseteq refused \cup {offered + 1}
      BY <1>1, <2>2 DEF Overflowed, Discarded
    <3>2. Kept
      BY <1>1, <3>1 DEF Kept, Pipeline, Pending, QueueLocked
    <3>. QED BY <1>1, <3>1, <3>2 DEF Withheld
  <2>. QED BY <1>1, <2>1, <2>2 DEF QueueLocked
<1>2. ASSUME NEW t, NEW found, OfferTerminal(t, found),
             UNCHANGED <<received, outClosed, pump, held, lost>>
      PROVE  \/ Withheld' = Withheld
             \/ Kept /\ Withheld' \subseteq Withheld \cup {offered + 1}
  <2>1. CASE found
    <3>1. QueueLocked(Offering(TRUE)) /\ Offering(TRUE).n = offered + 1
      BY <1>2, <2>1 DEF OfferTerminal, Offering
    <3>. QED BY <1>1, <1>2, <3>1
  <2>2. CASE ~found
    BY <1>2, <2>2 DEF OfferTerminal, Withheld
  <2>. QED BY <2>1, <2>2
<1>3. CASE Enqueue
  <2>1. QueueLocked(Offering(FALSE)) /\ Offering(FALSE).n = offered + 1
    BY <1>3 DEF Enqueue, Offering
  <2>. QED BY <1>1, <1>3, <2>1 DEF Enqueue
<1>4. CASE SealUnreplayable
  BY <1>4 DEF SealUnreplayable, Kept, Pipeline, Pending, Withheld
<1>5. CASE Peek \/ Woken \/ Send \/ Advance \/ Receive \/ Activate \/ Shutdown \/ UNCHANGED vars
  <2>1. UNCHANGED <<refused, lost>>
    BY <1>5 DEF Peek, Woken, Send, Advance, Receive, Activate, Shutdown
  <2>. QED BY <2>1 DEF Withheld
<1>6. CASE PumpExit \/ Unsubscribe
  BY <1>6 DEF PumpExit, Unsubscribe, Reap, Reaped
<1>7. ASSUME NEW t \in Teardowns, BeginTermination(t)
      PROVE  Withheld' = Withheld
  BY <1>7 DEF BeginTermination, Withheld
<1>8. CASE \E t \in Teardowns : Proceed(t)
  <2>. PICK t \in Teardowns : Proceed(t)
    BY <1>8
  <2>1. CASE KillNotice(t)
    BY <1>2, <2>1 DEF KillNotice
  <2>2. CASE CommitQuit(t)
    BY <1>2, <2>2 DEF CommitQuit
  <2>3. CASE ConnectionError(t)
    BY <1>2, <2>3 DEF ConnectionError
  <2>4. CASE SealOutbound(t) \/ DrainOutbound(t) \/ AbortTermination(t) \/ LoseSubscription(t)
             \/ TakeDead(t) \/ ReaperDrained(t) \/ JoinPump(t) \/ CommitSilently(t)
    <3>1. UNCHANGED <<refused, lost>>
      BY <2>4 DEF SealOutbound, DrainOutbound, AbortTermination, LoseSubscription, TakeDead,
                  ReaperDrained, JoinPump, CommitSilently
    <3>. QED BY <3>1 DEF Withheld
  <2>5. CASE ReapClient(t)
    BY <2>5 DEF ReapClient, Reap, Reaped, Withheld
  <2>. QED BY <2>1, <2>2, <2>3, <2>4, <2>5 DEF Proceed
<1>. QED BY <1>3, <1>4, <1>5, <1>6, <1>7, <1>8 DEF Next, Pump

LEMMA CutIsPrefix ==
  ASSUME TypeOK, PumpCoherent, Cut, NEW i \in 1..Len(Pipeline')
  PROVE  i \in 1..Len(Pipeline) /\ Pipeline'[i] = Pipeline[i]
<1>1. PICK k \in Len(received)..Len(Pipeline) : Pipeline' = SubSeq(Pipeline, 1, k)
  BY DEF Cut
<1>2. Pipeline \in Seq(Delivery) /\ k \in Nat /\ k <= Len(Pipeline) /\ Len(Pipeline) \in Nat
  BY <1>1, PipelineType DEF TypeOK
<1>. QED BY <1>1, <1>2, SubSeqProperties, ElementOfSeq

LEMMA ClosingKeepsPrefix ==
  ASSUME TypeOK, PumpCoherent, Reaped \/ PumpExit, NEW i \in 1..Len(Pipeline')
  PROVE  i \in 1..Len(Pipeline) /\ Pipeline'[i] = Pipeline[i]
<1>1. CASE Reaped
  BY <1>1, ReapedMoves, CutIsPrefix DEF Kept
<1>2. CASE PumpExit
  <2>1. outClosed' = TRUE /\ Pending' = <<>>
    BY <1>2 DEF PumpExit, CloseOutbound, Pending
  <2>2. Cut
    BY <1>2, <2>1, PendingDropped DEF PumpExit
  <2>. QED BY <2>2, CutIsPrefix
<1>. QED BY <1>1, <1>2

\* Once one delivery was turned away or thrown away no later ordinary one is
\* accepted: what the client reads is a prefix of what the server sent.
THEOREM ReadsAPrefix == Spec => []NoHoles
<1>1. Init => Sealing /\ NoHoles
  BY DEF Init, Sealing, Withheld, NoHoles, Pipeline, Pending
<1>2. TypeOK /\ PumpCoherent => Pipeline \in Seq(Delivery)
  BY PipelineType
<1>3. TypeOK /\ PumpCoherent /\ InOrder /\ Fresh /\ Sealing /\ NoHoles /\ [Next]_vars
      /\ (TypeOK /\ PumpCoherent /\ Pipeline \in Seq(Delivery))'
      => NoHoles'
  <2> SUFFICES ASSUME TypeOK, PumpCoherent, InOrder, Fresh, Sealing, NoHoles, [Next]_vars,
                      (TypeOK /\ PumpCoherent /\ Pipeline \in Seq(Delivery))',
                      NEW i \in 1..Len(Pipeline'), NEW m \in Withheld', m < Pipeline'[i].n
               PROVE  Pipeline'[i].terminal
    BY DEF NoHoles, Withheld
  <2>1. /\ Pipeline \in Seq(Delivery) /\ offered \in Nat
        /\ \A j \in 1..Len(Pipeline) : Pipeline[j].n \in Nat /\ Pipeline[j].n <= offered
        /\ \A j \in 1..Len(Pipeline') : Pipeline'[j].n \in Nat
        /\ Withheld' \subseteq Nat
    <3>1. Pipeline \in Seq(Delivery)
      BY PipelineType
    <3>2. \A j \in 1..Len(Pipeline) : Pipeline[j] \in Delivery
      BY <3>1, ElementOfSeq
    <3>3. \A j \in 1..Len(Pipeline') : Pipeline'[j] \in Delivery
      BY ElementOfSeq
    <3>. QED BY <3>1, <3>2, <3>3 DEF Delivery, TypeOK, Fresh, Withheld
  \* What was withheld before: what stays in the pipeline already answers for it.
  <2>2. ASSUME NEW j \in 1..Len(Pipeline), Pipeline'[i] = Pipeline[j], m \in Withheld
        PROVE  Pipeline'[i].terminal
    BY <2>2 DEF NoHoles, Withheld
  <2>3. CASE Kept /\ Withheld' \subseteq Withheld \cup {offered + 1}
    <3>1. Pipeline' = Pipeline
      BY <2>3 DEF Kept
    <3>2. m # offered + 1
      BY <2>1, <3>1
    <3>. QED BY <2>2, <2>3, <3>1, <3>2
  <2>4. CASE Withheld' = Withheld
    <3>1. CASE Kept \/ Read
      BY <2>2, <2>4, <3>1 DEF Kept, Read
    <3>2. CASE Extended
      <4>1. PICK d \in Delivery :
              /\ Pipeline' = Append(Pipeline, d)
              /\ d.terminal \/ (~outSealed /\ ~outDraining)
        BY <3>2 DEF Extended
      <4>2. CASE i \in 1..Len(Pipeline)
        BY <2>1, <2>2, <2>4, <4>1, <4>2, AppendProperties
      <4>3. CASE i \notin 1..Len(Pipeline)
        <5>1. Pipeline'[i] = d
          BY <2>1, <4>1, <4>3, AppendProperties
        <5>2. outSealed \/ outDraining
          BY <2>4, <3>2 DEF Sealing, Extended
        <5>. QED BY <4>1, <5>1, <5>2
      <4>. QED BY <4>2, <4>3
    <3>3. CASE Thinner
      <4>1. PICK f \in [1..Len(Pipeline') -> 1..Len(Pipeline)] :
              \A j \in 1..Len(Pipeline') : Pipeline'[j] = Pipeline[f[j]]
        BY <3>3 DEF Thinner
      <4>. QED BY <2>2, <2>4, <4>1
    <3>4. CASE Cut
      BY <2>1, <2>2, <2>4, <3>4, CutIsPrefix
    <3>. QED BY <3>1, <3>2, <3>3, <3>4, PipelineMoves
  <2>5. CASE (Reaped \/ PumpExit) /\ refused' = refused
    <3>1. i \in 1..Len(Pipeline) /\ Pipeline'[i] = Pipeline[i]
      BY <2>5, ClosingKeepsPrefix
    <3>2. CASE m \in Withheld
      BY <2>2, <3>1, <3>2
    <3>3. CASE m \notin Withheld
      <4>1. m \in lost' \ lost
        BY <2>5, <3>3 DEF Withheld
      <4>2. PICK j \in 1..Len(Pipeline) : Len(Pipeline') <= j /\ m = Pipeline[j].n
        BY <2>5, <4>1, ClosingDrops DEF Reaped, PumpExit
      <4>3. i <= j
        BY <4>2
      <4>4. Pipeline[i].n <= m
        BY <2>1, <3>1, <4>2, <4>3 DEF InOrder
      <4>. QED BY <2>1, <3>1, <4>4
    <3>. QED BY <3>2, <3>3
  <2>. QED BY <2>3, <2>4, <2>5, WithheldMoves
<1>. QED BY <1>1, <1>2, <1>3, SealingKept, PumpCoherence, OrderedDelivery, PTL DEF Spec

-----------------------------------------------------------------------------
(* Teardowns.                                                              *)

\* A drained queue is empty and stays so: nothing is accepted behind it.
DrainedEmpty ==
  /\ outDrained => outbox = <<>> /\ (outDraining \/ outClosed)
  /\ \A t \in Teardowns \ Deads : pc[t] = "closing" => outDrained

LEMMA ThinnedEmpty ==
  ASSUME TypeOK, outbox = <<>>, outbox' \in Thinned(outbox)
  PROVE  outbox' = <<>>
<1>1. PICK f \in [1..Len(outbox') -> 1..Len(outbox)] :
        \A j \in 1..Len(outbox') : outbox'[j] = outbox[f[j]]
  BY ThinnedProperties DEF TypeOK
<1>2. outbox' \in Seq(Delivery)
  BY ThinnedProperties DEF TypeOK
<1>3. \A j \in 1..Len(outbox') : f[j] \in 1..0
  BY <1>1
<1>. QED BY <1>2, <1>3

\* What a step does to the queue that is already drained, and to the flag.
LEMMA DrainedStays ==
  ASSUME TypeOK, DrainedEmpty, [Next]_vars
  PROVE  /\ outDrained' => outbox' = <<>> /\ (outDraining' \/ outClosed')
         /\ outDrained => outDrained'
<1> USE DEF vars, queue, flags, session, registry, history
<1>1. ASSUME NEW d, QueueLocked(d), UNCHANGED <<outClosed, outDraining, outDrained>>
      PROVE  outDrained => outbox' = outbox
  BY <1>1 DEF QueueLocked, DirectSend, Overflowed, Appended, Discarded, Discards, DrainedEmpty
<1>2. ASSUME NEW t, NEW found, OfferTerminal(t, found),
             UNCHANGED <<outClosed, outDraining, outDrained>>
      PROVE  outDrained => outbox' = outbox
  BY <1>1, <1>2 DEF OfferTerminal
<1>3. CASE Enqueue
  BY <1>1, <1>3 DEF Enqueue, DrainedEmpty
<1>4. CASE SealUnreplayable \/ Peek \/ Woken \/ Send \/ Receive \/ Shutdown \/ UNCHANGED vars
  <2>1. UNCHANGED <<outbox, outClosed, outDraining, outDrained>>
    BY <1>4 DEF SealUnreplayable, Peek, Woken, Send, Receive, Shutdown
  <2>. QED BY <2>1 DEF DrainedEmpty
<1>5. CASE Advance
  <2>1. outDraining' = outDraining /\ outClosed' = outClosed
    BY <1>5 DEF Advance
  <2>2. CASE outbox = <<>>
    BY <1>5, <2>1, <2>2 DEF Advance, DrainedEmpty
  <2>3. CASE outbox # <<>>
    <3>1. outbox' = Tail(outbox) /\ ~outDrained
      BY <1>5, <2>3 DEF Advance, DrainedEmpty
    <3>2. outDrained' = (outDrained \/ (outDraining /\ Tail(outbox) = <<>>))
      BY <1>5, <2>3 DEF Advance, Drained
    <3>. QED BY <2>1, <3>1, <3>2 DEF TypeOK
  <2>. QED BY <2>2, <2>3
<1>6. CASE CloseOutbound
  BY <1>6 DEF CloseOutbound
<1>7. CASE Activate
  <2>1. UNCHANGED <<outDrained, outDraining, outClosed>> /\ outbox' \in Thinned(outbox)
    BY <1>7 DEF Activate
  <2>2. outbox = <<>> => outbox' = <<>>
    BY <2>1, ThinnedEmpty
  <2>. QED BY <2>1, <2>2 DEF DrainedEmpty
<1>8. ASSUME NEW t \in Teardowns, BeginTermination(t)
      PROVE  UNCHANGED <<outbox, outClosed, outDraining, outDrained>>
  BY <1>8 DEF BeginTermination
<1>9. ASSUME NEW t \in Teardowns, Proceed(t)
      PROVE  /\ outDrained' => outbox' = <<>> /\ (outDraining' \/ outClosed')
             /\ outDrained => outDrained'
  <2>1. CASE KillNotice(t)
    BY <1>2, <2>1 DEF KillNotice, DrainedEmpty
  <2>2. CASE CommitQuit(t)
    BY <1>2, <2>2 DEF CommitQuit, DrainedEmpty
  <2>3. CASE ConnectionError(t)
    BY <1>2, <2>3 DEF ConnectionError, DrainedEmpty
  <2>4. CASE DrainOutbound(t)
    <3>1. outDraining' = TRUE /\ outbox' = outbox
      BY <2>4 DEF DrainOutbound
    <3>2. outDrained' = (outDrained \/ outbox = <<>>)
      BY <2>4 DEF DrainOutbound, Drained
    <3>. QED BY <3>1, <3>2 DEF DrainedEmpty, TypeOK
  <2>5. CASE SealOutbound(t) \/ AbortTermination(t) \/ LoseSubscription(t) \/ TakeDead(t)
             \/ ReaperDrained(t) \/ JoinPump(t) \/ CommitSilently(t)
    <3>1. UNCHANGED <<outbox, outClosed, outDraining, outDrained>>
      BY <2>5 DEF SealOutbound, AbortTermination, LoseSubscription, TakeDead, ReaperDrained,
                  JoinPump, CommitSilently
    <3>. QED BY <3>1 DEF DrainedEmpty
  <2>6. CASE ReapClient(t)
    <3>1. CloseOutbound \/ UNCHANGED <<outbox, outClosed, outDraining, outDrained>>
      BY <2>6 DEF ReapClient, Reap
    <3>. QED BY <1>6, <3>1 DEF DrainedEmpty
  <2>. QED BY <1>9, <2>1, <2>2, <2>3, <2>4, <2>5, <2>6 DEF Proceed
<1>. QED BY <1>3, <1>4, <1>5, <1>6, <1>7, <1>8, <1>9
     DEF Next, Pump, PumpExit, Unsubscribe, Reap, DrainedEmpty

\* When a reaper that waited for the drain closes the subscription, every
\* delivery the server accepted has been sent (reapClient after drainOutbound).
THEOREM GracefulClose == Spec => DrainLosesNothing
<1>1. Init => DrainedEmpty
  BY DEF Init, DrainedEmpty
<1>2. TypeOK /\ DrainedEmpty /\ [Next]_vars => DrainedEmpty'
  <2> SUFFICES ASSUME TypeOK, DrainedEmpty, [Next]_vars PROVE DrainedEmpty'
    OBVIOUS
  <2>1. /\ outDrained' => outbox' = <<>> /\ (outDraining' \/ outClosed')
        /\ outDrained => outDrained'
    BY DrainedStays
  <2>2. ASSUME NEW t \in Teardowns \ Deads, pc'[t] = "closing"
        PROVE  outDrained
    <3>1. pc[t] = "closing" \/ outDrained
      <4>1. CASE pc' = pc
        BY <2>2, <4>1
      <4>2. ASSUME NEW u \in Teardowns, BeginTermination(u) \/ Proceed(u)
            PROVE  pc[t] = "closing" \/ outDrained
        <5>1. PICK from, to \in TeardownStates :
                Goto(u, from, to) /\ (to = "closing" => ReaperDrained(u) \/ TakeDead(u))
          BY <4>2 DEF BeginTermination, Proceed, KillNotice, CommitQuit, CommitSilently, Departs, AbortTermination,
             SealOutbound, ConnectionError, LoseSubscription, DrainOutbound,
             TakeDead, ReaperDrained, ReapClient, JoinPump, TeardownStates
        <5>2. pc' = [pc EXCEPT ![u] = to]
          BY <5>1 DEF Goto
        <5>3. CASE t = u
          BY <2>2, <5>1, <5>2, <5>3 DEF TypeOK, ReaperDrained, TakeDead
        <5>4. CASE t # u
          BY <2>2, <5>2, <5>4 DEF TypeOK
        <5>. QED BY <5>3, <5>4
      <4>3. pc' = pc \/ \E u \in Teardowns : BeginTermination(u) \/ Proceed(u)
        BY DEF Next, vars, Enqueue, SealUnreplayable, Pump, Peek, Woken, Send, Advance, PumpExit,
               Receive, Activate, Unsubscribe, Shutdown
      <4>. QED BY <4>1, <4>2, <4>3
    <3>. QED BY <2>2, <3>1 DEF DrainedEmpty
  <2>. QED BY <2>1, <2>2 DEF DrainedEmpty
<1>3. TypeOK /\ DrainedEmpty /\ [Next]_vars
        => [\A t \in Teardowns \ Deads :
              pc[t] = "closing" /\ pc'[t] = "joining" => lost' = lost]_vars
  <2> SUFFICES ASSUME TypeOK, DrainedEmpty, Next,
                      NEW t \in Teardowns \ Deads, pc[t] = "closing", pc'[t] = "joining"
               PROVE  lost' = lost
    OBVIOUS
  <2>1. outbox = <<>>
    BY DEF DrainedEmpty
  <2>2. CloseOutbound \/ lost' = lost
    <3>1. pc' # pc
      OBVIOUS
    <3>2. PICK u \in Teardowns : BeginTermination(u) \/ Proceed(u)
      BY <3>1 DEF Next, Enqueue, SealUnreplayable, Pump, Peek, Woken, Send, Advance, PumpExit,
                  Receive, Activate, Unsubscribe, Shutdown
    <3>. QED BY <3>2 DEF BeginTermination, Proceed, KillNotice, CommitQuit, CommitSilently, Departs, AbortTermination,
           SealOutbound, ConnectionError, LoseSubscription, DrainOutbound, history,
           TakeDead, ReaperDrained, ReapClient, Reap, JoinPump
  <2>3. CloseOutbound => lost' = lost
    BY <2>1 DEF CloseOutbound, Releasable
  <2>. QED BY <2>2, <2>3
<1>. QED BY <1>1, <1>2, <1>3, TypeCorrect, PTL DEF Spec, DrainLosesNothing

(* While the handle is registered and the session runs, the queue is open to
   terminal deliveries, so a teardown's events were accepted as it offered them. *)
Heard(t, at) ==
  CASE at = "noticed" -> 1
    [] at \in {"committed", "sealed"} -> Owed(t) - 1
    [] at \in {"notified", "draining"} -> Owed(t)
    [] OTHER -> 0

TellsAll ==
  /\ registered => subscribed
  /\ ~subscribed <=> done
  /\ subscribed /\ ~stop => ~outClosed
  /\ registered => ~outDraining
  /\ \A t \in Teardowns :
       /\ pc[t] = "noticed" => t \in Kills
       /\ pc[t] \in {"idle", "begun", "noticed"} => t \notin silent
       /\ ~stop /\ registered /\ pc[t] \in {"idle", "begun", "noticed", "committed", "sealed",
                                           "notified"}
            => told[t] = Heard(t, pc[t])
       /\ ~stop /\ subscribed /\ pc[t] = "draining" => told[t] = Heard(t, "draining")

\* Offering a terminal delivery: it is accepted while the queue is open.
LEMMA OfferTerminalTold ==
  ASSUME TypeOK, NEW t \in Teardowns, NEW found, OfferTerminal(t, found)
  PROVE  /\ \A u \in Teardowns \ {t} : told'[u] = told[u]
         /\ found /\ ~outClosed /\ ~outDraining => told'[t] = told[t] + 1
<1>1. Offering(TRUE).terminal
  BY DEF Offering
<1>2. told' = told \/ told' = [told EXCEPT ![t] = @ + 1]
  BY DEF OfferTerminal, TypeOK
<1>3. found /\ ~outClosed /\ ~outDraining => told' = [told EXCEPT ![t] = @ + 1]
  BY <1>1 DEF OfferTerminal, Discards
<1>. QED BY <1>2, <1>3 DEF TypeOK

\* The flags that say who still reaches the client only move one way.
LEMMA FlagsMove ==
  ASSUME TypeOK, TellsAll, PumpCoherent, [Next]_vars
  PROVE  /\ stop => stop'
         /\ registered' => registered /\ subscribed
         /\ subscribed' => subscribed
         /\ (registered => subscribed)' /\ (~subscribed <=> done)'
         /\ (subscribed /\ ~stop => ~outClosed)'
         /\ (registered => ~outDraining)'
<1> USE DEF vars, queue, flags, session, registry, history, TellsAll
<1>1. ASSUME UNCHANGED <<registered, subscribed, done, outClosed, outDraining>>,
             stop' \in {stop, TRUE}
      PROVE  /\ stop => stop'
             /\ registered' => registered /\ subscribed
             /\ subscribed' => subscribed
             /\ (registered => subscribed)' /\ (~subscribed <=> done)'
             /\ (subscribed /\ ~stop => ~outClosed)'
             /\ (registered => ~outDraining)'
  BY <1>1 DEF TypeOK
<1>2. CASE Enqueue \/ SealUnreplayable \/ Peek \/ Woken \/ Send \/ Advance \/ Receive \/ Activate
           \/ Shutdown \/ UNCHANGED vars
  <2>1. UNCHANGED <<registered, subscribed, done, outClosed, outDraining>>
        /\ stop' \in {stop, TRUE}
    BY <1>2 DEF Enqueue, SealUnreplayable, Peek, Woken, Send, Advance, Receive, Activate, Shutdown
  <2>. QED BY <1>1, <2>1
<1>3. CASE PumpExit
  <2>1. UNCHANGED <<registered, subscribed, done, stop, outDraining>> /\ (done \/ stop)
    BY <1>3 DEF PumpExit, CloseOutbound
  <2>. QED BY <2>1 DEF TypeOK
<1>4. CASE Reap
  <2>1. /\ subscribed' = FALSE /\ registered' = FALSE /\ done' = TRUE /\ stop' = stop
    BY <1>4 DEF Reap
  <2>. QED BY <1>4, <2>1 DEF Reap
<1>5. ASSUME NEW t \in Teardowns, BeginTermination(t)
      PROVE  UNCHANGED <<registered, subscribed, done, outClosed, outDraining, stop>>
  BY <1>5 DEF BeginTermination
<1>6. ASSUME NEW t \in Teardowns, Proceed(t)
      PROVE  \/ UNCHANGED <<registered, subscribed, done, outClosed, outDraining, stop>>
             \/ Reap
             \/ registered' = FALSE /\ UNCHANGED <<subscribed, done, outClosed, stop>>
  BY <1>6 DEF Proceed, KillNotice, CommitQuit, CommitSilently, AbortTermination, SealOutbound, ConnectionError,
     LoseSubscription, DrainOutbound, TakeDead, ReaperDrained, ReapClient, JoinPump
<1>7. CASE registered' = FALSE /\ UNCHANGED <<subscribed, done, outClosed, stop>>
  BY <1>7 DEF TypeOK
<1>. QED BY <1>1, <1>2, <1>3, <1>4, <1>5, <1>6, <1>7 DEF Next, Pump, Unsubscribe

\* A step of teardown t leaves the other teardowns where they are and their
\* events as they were told.
LEMMA OthersUntold ==
  ASSUME TypeOK, NEW t \in Teardowns, BeginTermination(t) \/ Proceed(t),
         NEW u \in Teardowns, u # t
  PROVE  pc'[u] = pc[u] /\ told'[u] = told[u] /\ (u \in silent' <=> u \in silent)
<1>1. \E to : pc' = [pc EXCEPT ![t] = to]
  BY DEF BeginTermination, Proceed, KillNotice, CommitQuit, CommitSilently, Departs, AbortTermination, SealOutbound,
     ConnectionError, LoseSubscription, DrainOutbound, TakeDead, ReaperDrained, ReapClient,
     JoinPump, Goto
<1>2. told'[u] = told[u]
  <2>1. CASE KillNotice(t) \/ CommitQuit(t)
    BY <2>1, OfferTerminalTold DEF KillNotice, CommitQuit
  <2>2. CASE ConnectionError(t)
    BY <2>2, OfferTerminalTold DEF ConnectionError
  <2>3. CASE ~(KillNotice(t) \/ CommitQuit(t) \/ ConnectionError(t))
    <3>1. told' = told
      BY <2>3 DEF BeginTermination, Proceed, CommitSilently, AbortTermination, SealOutbound, LoseSubscription,
         DrainOutbound, TakeDead, ReaperDrained, ReapClient, Reap, JoinPump, history
    <3>. QED BY <3>1
  <2>. QED BY <2>1, <2>2, <2>3
<1>3. silent' = silent \/ silent' = silent \cup {t}
  BY DEF BeginTermination, Proceed, KillNotice, CommitQuit, CommitSilently, AbortTermination,
     SealOutbound, ConnectionError, LoseSubscription, DrainOutbound, TakeDead, ReaperDrained,
     ReapClient, Reap, JoinPump, history
<1>. QED BY <1>1, <1>2, <1>3 DEF TypeOK

ToldRight(t) ==
  /\ pc[t] = "noticed" => t \in Kills
  /\ pc[t] \in {"idle", "begun", "noticed"} => t \notin silent
  /\ ~stop /\ registered /\ pc[t] \in {"idle", "begun", "noticed", "committed", "sealed",
                                      "notified"}
       => told[t] = Heard(t, pc[t])
  /\ ~stop /\ subscribed /\ pc[t] = "draining" => told[t] = Heard(t, "draining")

\* Each step of a teardown moves its count with its program counter.
LEMMA TeardownTold ==
  ASSUME TypeOK, TellsAll, NEW t \in Teardowns, BeginTermination(t) \/ Proceed(t),
         stop => stop', registered' => registered /\ subscribed, subscribed' => subscribed
  PROVE  ToldRight(t)'
<1>1. /\ pc[t] = "noticed" => t \in Kills
      /\ ~stop /\ registered /\ pc[t] \in {"idle", "begun", "noticed", "committed", "sealed",
                                          "notified"}
           => told[t] = Heard(t, pc[t]) /\ ~outClosed /\ ~outDraining
      /\ pc[t] \in {"idle", "begun", "noticed"} => t \notin silent
  BY DEF TellsAll
<1>2. \A from, to : Goto(t, from, to) => pc[t] = from /\ pc'[t] = to
  BY DEF Goto, TypeOK
<1> USE DEF ToldRight, Heard, Owed
<1>3. CASE BeginTermination(t) \/ SealOutbound(t)
  <2>1. UNCHANGED <<told, silent>> /\ ((pc[t] = "idle" /\ pc'[t] = "begun")
                                      \/ (pc[t] = "committed" /\ pc'[t] = "sealed"))
    BY <1>2, <1>3 DEF BeginTermination, SealOutbound, history
  <2>. QED BY <1>1, <2>1
<1>4. CASE KillNotice(t)
  <2>1. /\ OfferTerminal(t, registered) /\ t \in Kills /\ silent' = silent
        /\ pc[t] = "begun" /\ pc'[t] = "noticed"
    BY <1>2, <1>4 DEF KillNotice
  <2>. QED BY <1>1, <2>1, OfferTerminalTold
<1>5. CASE CommitQuit(t)
  <2>1. /\ OfferTerminal(t, registered) /\ pc'[t] = "committed" /\ silent' = silent
        /\ pc[t] = IF t \in Kills THEN "noticed" ELSE "begun"
    BY <1>2, <1>5 DEF CommitQuit, Departs
  <2>. QED BY <1>1, <2>1, OfferTerminalTold
<1>6. CASE ConnectionError(t)
  <2>1. /\ OfferTerminal(t, subscribed) /\ silent' = silent
        /\ pc[t] = "sealed" /\ pc'[t] = "notified"
    BY <1>2, <1>6 DEF ConnectionError
  <2>. QED BY <1>1, <2>1, OfferTerminalTold
<1>7. CASE DrainOutbound(t)
  <2>1. /\ UNCHANGED <<told, silent>> /\ registered
        /\ pc[t] = "notified" /\ pc'[t] = "draining"
    BY <1>2, <1>7 DEF DrainOutbound, history
  <2>. QED BY <1>1, <2>1
<1>8. CASE AbortTermination(t) \/ LoseSubscription(t) \/ TakeDead(t) \/ ReaperDrained(t)
           \/ ReapClient(t) \/ JoinPump(t)
  <2>1. pc'[t] \in {"aborted", "finished", "closing", "joining"}
    BY <1>2, <1>8 DEF AbortTermination, LoseSubscription, TakeDead, ReaperDrained, ReapClient,
                      JoinPump
  <2>. QED BY <2>1
<1>9. CASE CommitSilently(t)
  <2>1. /\ told' = told /\ t \in silent' /\ pc'[t] = "committed"
        /\ pc[t] = IF t \in Kills THEN "noticed" ELSE "begun"
    BY <1>2, <1>9 DEF CommitSilently, Departs
  <2>. QED BY <1>1, <2>1
<1>. QED BY <1>3, <1>4, <1>5, <1>6, <1>7, <1>8, <1>9 DEF Proceed

(* The teardown whose drain closes the connection got its own Quit, unless no
   storage took it, and the ConnectionError after it, and a KILL its notice
   before them, onto the queue first (handleQuit, handleKill, emitQuit,
   emitScoped, reapModelConnection). *)
THEOREM CloserHeard == Spec => []ClosingClientTold
<1>1. Init => TellsAll
  BY DEF Init, TellsAll, Heard
<1>2. TypeOK /\ PumpCoherent /\ TellsAll /\ [Next]_vars => TellsAll'
  <2> SUFFICES ASSUME TypeOK, PumpCoherent, TellsAll, [Next]_vars PROVE TellsAll'
    OBVIOUS
  <2>1. /\ stop => stop'
        /\ registered' => registered /\ subscribed
        /\ subscribed' => subscribed
        /\ (registered => subscribed)' /\ (~subscribed <=> done)'
        /\ (subscribed /\ ~stop => ~outClosed)'
        /\ (registered => ~outDraining)'
    BY FlagsMove
  <2>2. ASSUME NEW u \in Teardowns, pc'[u] = pc[u], told'[u] = told[u],
               u \in silent' <=> u \in silent
        PROVE  ToldRight(u)'
    BY <2>1, <2>2 DEF TellsAll, ToldRight, Heard, Owed
  <2>3. ASSUME NEW u \in Teardowns PROVE ToldRight(u)'
    <3>1. CASE \E t \in Teardowns : BeginTermination(t) \/ Proceed(t)
      <4>. PICK t \in Teardowns : BeginTermination(t) \/ Proceed(t)
        BY <3>1
      <4>1. CASE t = u
        BY <2>1, <4>1, TeardownTold
      <4>2. CASE t # u
        BY <2>2, <4>2, OthersUntold
      <4>. QED BY <4>1, <4>2
    <3>2. CASE ~\E t \in Teardowns : BeginTermination(t) \/ Proceed(t)
      <4>1. UNCHANGED <<pc, told, silent>>
        BY <3>2 DEF Next, vars, Enqueue, SealUnreplayable, Pump, Peek, Woken, Send, Advance,
               PumpExit, Receive, Activate, Unsubscribe, Reap, Shutdown, history
      <4>. QED BY <2>2, <4>1
    <3>. QED BY <3>1, <3>2
  <2>. QED BY <2>1, <2>3 DEF TellsAll, ToldRight
<1>3. TellsAll => ClosingClientTold
  BY DEF TellsAll, ClosingClientTold, Heard
<1>. QED BY <1>1, <1>2, <1>3, PumpCoherence, PTL DEF Spec

-----------------------------------------------------------------------------
(* The user's subscription.                                                *)

\* What keeps UserMissesNothing: no disconnect is ever claimed for the user's
\* handle and, until the session stops, its queue is open and has refused
\* nothing.
UserServed ==
  SessionLifetime =>
    /\ ~disconnecting /\ ~done
    /\ pc[Overflow] = "idle"
    /\ stop \/ (~outClosed /\ ~outSealed /\ ~outDraining /\ refused = {})

\* The user's queue turns no delivery away while the session runs, however
\* far the client falls behind (queueLocked exempts it from the allowance).
THEOREM UserNeverRefused == Spec => []UserMissesNothing
<1>1. Init => UserServed
  BY DEF Init, UserServed, Teardowns
<1>2. UserServed /\ [Next]_vars => UserServed'
  <2> SUFFICES ASSUME UserServed, [Next]_vars, SessionLifetime
               PROVE  UserServed'
    BY DEF UserServed
  <2>1. /\ ~ReplayHistory /\ Teardowns = {Overflow}
        /\ Overflow \notin Quits \cup Kills \cup Deads
    BY SendQueueAssumption DEF Teardowns
  <2>2. /\ ~disconnecting /\ ~done /\ pc[Overflow] = "idle"
        /\ stop \/ (~outClosed /\ ~outSealed /\ ~outDraining /\ refused = {})
    BY DEF UserServed
  <2>3. CASE Enqueue
    <3> DEFINE d == Offering(FALSE)
    <3>1. QueueLocked(d) /\ ~Overflows(d)
      BY <2>3 DEF Enqueue, Overflows
    <3>2. /\ UNCHANGED <<stop, outClosed, outDraining, pc>>
          /\ UNCHANGED registry
      BY <2>3 DEF Enqueue
    <3>3. UNCHANGED <<disconnecting, outSealed>>
      BY <3>1 DEF QueueLocked, DirectSend, Overflowed, Appended, Discarded
    <3>4. stop \/ UNCHANGED refused
      BY <2>2, <3>1
      DEF QueueLocked, DirectSend, Overflowed, Appended, Discarded, Discards
    <3>. QED BY <2>2, <3>2, <3>3, <3>4 DEF UserServed, registry
  <2>4. CASE SealUnreplayable
    BY <2>1, <2>4 DEF SealUnreplayable
  <2>5. CASE Pump
    <3>1. CASE Peek \/ Woken \/ Send \/ Advance
      BY <2>2, <3>1
      DEF Peek, Woken, Send, Advance, UserServed, session, registry, flags,
          history, queue
    <3>2. CASE PumpExit
      BY <2>2, <3>2 DEF PumpExit, CloseOutbound, UserServed, session, registry
    <3>. QED BY <2>5, <3>1, <3>2 DEF Pump
  <2>6. CASE Receive \/ Activate \/ Shutdown
    BY <2>2, <2>6
    DEF Receive, Activate, Shutdown, UserServed, session, registry, flags,
        history, queue
  <2>7. CASE Unsubscribe
    BY <2>7 DEF Unsubscribe, Reap
  <2>8. ASSUME NEW t \in Teardowns, BeginTermination(t) \/ Proceed(t)
        PROVE  FALSE
    <3>1. t = Overflow
      BY <2>1
    <3>2. ~BeginTermination(t)
      BY <2>2, <3>1 DEF BeginTermination
    <3>3. ~Proceed(t)
      BY <2>1, <2>2, <3>1
      DEF Proceed, KillNotice, CommitQuit, CommitSilently, Departs, AbortTermination, SealOutbound,
          ConnectionError, LoseSubscription, DrainOutbound, TakeDead,
          ReaperDrained, ReapClient, JoinPump, Goto
    <3>. QED BY <2>8, <3>2, <3>3
  <2>9. CASE UNCHANGED vars
    BY <2>2, <2>9 DEF vars, UserServed, session, registry, flags, history
  <2>. QED BY <2>3, <2>4, <2>5, <2>6, <2>7, <2>8, <2>9 DEF Next
<1>3. UserServed => UserMissesNothing
  BY DEF UserServed, UserMissesNothing
<1>. QED BY <1>1, <1>2, <1>3, PTL DEF Spec
=============================================================================
