----------------------------- MODULE PaceProofs -----------------------------
(* Theorems about Flood and Poke, for any clients and channels, any penalty, lead,
   window, limits and cap, without bounds on time or commands. *)
EXTENDS Pace, Integers, Sequences, FiniteSetTheorems, SequenceTheorems, TLAPS

---------------------------------------------------------------------------
(* Pokes *)

Backoffs == [multiplier : Nat, quietTicks : Nat]
PokeType ==
  s \in [live : SUBSET Channels, active : SUBSET Channels,
         backoff : [Channels -> Backoffs], enabled : BOOLEAN,
         pc : {"plan", "sleep", "list", "drain", "poke"}, planned : BOOLEAN,
         names : SUBSET Channels, due : SUBSET Channels, wake : BOOLEAN,
         lively : SUBSET Channels, silent : [Channels -> Nat], gap : [Channels -> Nat]]

\* A back-off counts up to its multiplier, which is within the cap.
BackoffRight(b) ==
  /\ b.multiplier <= PokeBackoffCap
  /\ b.quietTicks < Poke!Multiplier(b)

\* The cycles a channel was passed over are those its back-off has counted, or some
\* of them; all of them from the second poke on.
Counted(b, silent, gap) ==
  /\ silent <= b.quietTicks
  /\ gap = 0 \/ (silent = b.quietTicks /\ gap < Poke!Multiplier(b))

\* A channel that begins while the scheduler works on its list has been passed over
\* by nobody, and loses the back-off of its name.
ChannelRight(c) ==
  /\ BackoffRight(s.backoff[c])
  /\ s.silent[c] < PokeBackoffCap
  /\ c \in s.live \/ (s.pc = "drain" /\ c \in s.names) =>
       Counted(s.backoff[c], s.silent[c], s.gap[c])
  /\ s.pc = "drain" /\ c \in s.live \ s.names => s.silent[c] = 0 /\ s.gap[c] = 0
  /\ c \in s.lively => s.backoff[c] = Poke!Zero

PokeInv == PokeType /\ \A c \in Channels : ChannelRight(c)

\* What a cycle makes of the back-off of a quiet channel.
LEMMA DueCounts ==
  ASSUME NEW b \in Backoffs, BackoffRight(b), NEW silent \in Nat, NEW gap \in Nat,
         Counted(b, silent, gap)
  PROVE  /\ Poke!Due(b) \in Backoffs /\ BackoffRight(Poke!Due(b))
         /\ Poke!IsDue(b) => Counted(Poke!Due(b), 0, silent) /\ silent >= gap
         /\ ~Poke!IsDue(b) => Counted(Poke!Due(b), silent + 1, gap) /\ silent + 1 < PokeBackoffCap
<1>. DEFINE m == Poke!Multiplier(b)
<1>1. /\ m \in Nat \ {0} /\ m <= PokeBackoffCap /\ b.quietTicks \in Nat /\ b.quietTicks < m
      /\ PokeBackoffCap \in Nat \ {0}
  BY PaceAssumption DEF Backoffs, BackoffRight, Poke!Multiplier
<1>2. silent <= b.quietTicks /\ (gap = 0 \/ (silent = b.quietTicks /\ gap < m))
  BY DEF Counted
<1>3. CASE Poke!IsDue(b)
  <2>. DEFINE n == Poke!Least(m * 2, PokeBackoffCap)
  <2>1. Poke!Due(b) = [multiplier |-> n, quietTicks |-> 0]
    BY <1>3 DEF Poke!Due
  <2>2. n \in Nat \ {0} /\ n <= PokeBackoffCap /\ m <= n
    BY <1>1 DEF Poke!Least
  <2>3. b.quietTicks + 1 >= m
    BY <1>3 DEF Poke!IsDue
  <2>. HIDE DEF n, m
  <2>4. Poke!Due(b).multiplier = n /\ Poke!Due(b).quietTicks = 0 /\ Poke!Due(b) \in Backoffs
    BY <2>1, <2>2 DEF Backoffs
  <2>5. Poke!Multiplier(Poke!Due(b)) = n
    BY <2>2, <2>4 DEF Poke!Multiplier
  <2>. QED BY <1>1, <1>2, <1>3, <2>2, <2>3, <2>4, <2>5 DEF BackoffRight, Counted
<1>4. CASE ~Poke!IsDue(b)
  <2>1. Poke!Due(b) = [multiplier |-> m, quietTicks |-> b.quietTicks + 1]
    BY <1>4 DEF Poke!Due
  <2>2. b.quietTicks + 1 < m
    BY <1>1, <1>4 DEF Poke!IsDue
  <2>. HIDE DEF m
  <2>3. /\ Poke!Due(b).multiplier = m /\ Poke!Due(b).quietTicks = b.quietTicks + 1
        /\ Poke!Due(b) \in Backoffs
    BY <1>1, <2>1 DEF Backoffs
  <2>4. Poke!Multiplier(Poke!Due(b)) = m
    BY <1>1, <2>3 DEF Poke!Multiplier
  <2>. QED BY <1>1, <1>2, <1>4, <2>2, <2>3, <2>4 DEF BackoffRight, Counted
<1>. QED BY <1>3, <1>4

LEMMA PokeStarts == ASSUME Poke!Init PROVE PokeInv
<1>1. PICK live \in SUBSET Channels :
        s = [live |-> live, active |-> {}, backoff |-> [c \in Channels |-> Poke!Zero],
             enabled |-> TRUE, pc |-> "plan", planned |-> FALSE, names |-> {}, due |-> {},
             wake |-> FALSE, lively |-> {}, silent |-> [c \in Channels |-> 0],
             gap |-> [c \in Channels |-> 0]]
  BY DEF Poke!Init
<1>2. Poke!Zero \in Backoffs /\ BackoffRight(Poke!Zero) /\ Counted(Poke!Zero, 0, 0)
  BY PaceAssumption DEF Backoffs, BackoffRight, Counted, Poke!Zero, Poke!Multiplier
<1>3. PokeType
  BY <1>1, <1>2 DEF PokeType
<1>4. \A c \in Channels : ChannelRight(c)
  BY <1>1, <1>2, PaceAssumption DEF ChannelRight
<1>. QED BY <1>3, <1>4 DEF PokeInv

\* A step of the scheduler beside its drain, of the loop or of the schedule.
LEMMA PokeIdles ==
  ASSUME PokeInv, PokeType',
         s'.backoff = s.backoff, s'.silent = s.silent, s'.gap = s.gap, s'.lively = s.lively,
         s'.live \subseteq s.live,
         s'.pc = "drain" => s'.names = s'.live \/ (s.pc = "drain" /\ s'.names = s.names)
  PROVE  PokeInv'
<1>1. SUFFICES ASSUME NEW c \in Channels PROVE ChannelRight(c)'
  BY DEF PokeInv
<1>2. ChannelRight(c)
  BY DEF PokeInv
<1>. QED BY <1>2 DEF ChannelRight

LEMMA PlanKeeps == ASSUME PokeInv, Poke!Plan PROVE PokeInv'
BY PokeIdles DEF PokeInv, PokeType, Poke!Plan
LEMMA WokenKeeps == ASSUME PokeInv, Poke!Woken PROVE PokeInv'
BY PokeIdles DEF PokeInv, PokeType, Poke!Woken
LEMMA ElapsesKeeps == ASSUME PokeInv, Poke!Elapses PROVE PokeInv'
BY PokeIdles DEF PokeInv, PokeType, Poke!Elapses
LEMMA ListKeeps == ASSUME PokeInv, Poke!List PROVE PokeInv'
BY PokeIdles DEF PokeInv, PokeType, Poke!List
LEMMA PokeOneKeeps == ASSUME PokeInv, Poke!PokeOne PROVE PokeInv'
BY PokeIdles DEF PokeInv, PokeType, Poke!PokeOne
LEMMA PokedKeeps == ASSUME PokeInv, Poke!Poked PROVE PokeInv'
BY PokeIdles DEF PokeInv, PokeType, Poke!Poked
LEMMA SayKeeps == ASSUME PokeInv, NEW c \in Channels, Poke!Say(c) PROVE PokeInv'
BY PokeIdles DEF PokeInv, PokeType, Poke!Say
LEMMA EndKeeps == ASSUME PokeInv, NEW c \in Channels, Poke!End(c) PROVE PokeInv'
BY PokeIdles DEF PokeInv, PokeType, Poke!End
LEMMA ConfigureKeeps == ASSUME PokeInv, Poke!Configure PROVE PokeInv'
BY PokeIdles DEF PokeInv, PokeType, Poke!Configure

LEMMA BeginKeeps == ASSUME PokeInv, NEW c \in Channels, Poke!Begin(c) PROVE PokeInv'
<1>1. /\ s'.live = s.live \cup {c} /\ s'.pc = s.pc /\ s'.names = s.names /\ s'.lively = s.lively
      /\ s'.backoff = s.backoff
      /\ s'.silent = [s.silent EXCEPT ![c] = 0] /\ s'.gap = [s.gap EXCEPT ![c] = 0]
  BY DEF PokeInv, PokeType, Poke!Begin
<1>2. PokeType'
  BY DEF PokeInv, PokeType, Poke!Begin
<1>3. SUFFICES ASSUME NEW d \in Channels PROVE ChannelRight(d)'
  BY <1>2 DEF PokeInv
<1>4. ChannelRight(d) /\ s.backoff[d] \in Backoffs
  BY DEF PokeInv, PokeType
<1>5. CASE d = c
  <2>1. s'.silent[c] = 0 /\ s'.gap[c] = 0
    BY <1>1 DEF PokeInv, PokeType
  <2>. QED BY <1>1, <1>4, <1>5, <2>1, PaceAssumption DEF ChannelRight, Counted, Backoffs
<1>6. CASE d # c
  BY <1>1, <1>4, <1>6 DEF ChannelRight, PokeInv, PokeType
<1>. QED BY <1>5, <1>6

LEMMA DrainKeeps == ASSUME PokeInv, Poke!Drain PROVE PokeInv'
<1>. DEFINE due == {c \in Poke!Quiet : Poke!IsDue(s.backoff[c])}
<1>1. /\ s.pc = "drain"
      /\ s' = [s EXCEPT !.pc = "poke", !.due = due, !.active = {}, !.lively = s.active,
                 !.backoff = [c \in Channels |-> Poke!Backoff(c)],
                 !.silent = [c \in Channels |-> IF c \in due \cup s.active THEN 0
                                                ELSE IF c \in Poke!Quiet THEN s.silent[c] + 1 ELSE s.silent[c]],
                 !.gap = [c \in Channels |-> IF c \in due THEN s.silent[c]
                                             ELSE IF c \in s.active THEN 0 ELSE s.gap[c]]]
  BY DEF Poke!Drain, PokeInv, PokeType
<1>2. Poke!Quiet = s.names \ s.active /\ Poke!Quiet \subseteq Channels
  BY DEF Poke!Quiet, PokeInv, PokeType
<1>3. due \subseteq Poke!Quiet
  OBVIOUS
<1>. HIDE DEF due
<1>4. /\ s'.pc = "poke" /\ s'.lively = s.active /\ s'.live = s.live
      /\ s'.backoff = [c \in Channels |-> Poke!Backoff(c)]
      /\ s'.silent = [c \in Channels |-> IF c \in due \cup s.active THEN 0
                                         ELSE IF c \in Poke!Quiet THEN s.silent[c] + 1 ELSE s.silent[c]]
      /\ s'.gap = [c \in Channels |-> IF c \in due THEN s.silent[c]
                                      ELSE IF c \in s.active THEN 0 ELSE s.gap[c]]
  BY <1>1 DEF PokeInv, PokeType
<1>5. ASSUME NEW c \in Channels
      PROVE  /\ Poke!Backoff(c) \in Backoffs /\ ChannelRight(c)'
             /\ s'.silent[c] \in Nat /\ s'.gap[c] \in Nat
  <2>1. ChannelRight(c) /\ s.backoff[c] \in Backoffs /\ s.silent[c] \in Nat /\ s.gap[c] \in Nat
    BY DEF PokeInv, PokeType
  <2>2. Poke!Zero \in Backoffs /\ BackoffRight(Poke!Zero) /\ Counted(Poke!Zero, 0, 0)
    BY PaceAssumption DEF Backoffs, BackoffRight, Counted, Poke!Zero, Poke!Multiplier
  <2>3. s'.backoff[c] = Poke!Backoff(c)
    BY <1>4
  <2>4. CASE c \in Poke!Quiet
    <3>1. /\ Poke!Backoff(c) = Poke!Due(s.backoff[c]) /\ c \notin s.active
          /\ Counted(s.backoff[c], s.silent[c], s.gap[c]) /\ BackoffRight(s.backoff[c])
      BY <1>1, <1>2, <2>1, <2>4 DEF Poke!Backoff, ChannelRight
    <3>2. c \in due <=> Poke!IsDue(s.backoff[c])
      BY <2>4 DEF due
    <3>3. CASE c \in due
      <4>1. s'.silent[c] = 0 /\ s'.gap[c] = s.silent[c]
        BY <1>4, <3>3
      <4>. QED BY <1>4, <2>1, <2>3, <3>1, <3>2, <3>3, <4>1, DueCounts, PaceAssumption DEF ChannelRight
    <3>4. CASE c \notin due
      <4>1. s'.silent[c] = s.silent[c] + 1 /\ s'.gap[c] = s.gap[c]
        BY <1>4, <2>4, <3>1, <3>4
      <4>. QED BY <1>4, <2>1, <2>3, <3>1, <3>2, <3>4, <4>1, DueCounts DEF ChannelRight
    <3>. QED BY <3>3, <3>4
  <2>5. CASE c \notin Poke!Quiet
    <3>1. Poke!Backoff(c) = Poke!Zero /\ c \notin due
      BY <1>3, <2>5 DEF Poke!Backoff
    <3>2. CASE c \in s.active
      <4>1. s'.silent[c] = 0 /\ s'.gap[c] = 0
        BY <1>4, <3>1, <3>2
      <4>. QED BY <1>4, <2>2, <2>3, <3>1, <4>1, PaceAssumption DEF ChannelRight
    <3>3. CASE c \notin s.active
      <4>1. s'.silent[c] = s.silent[c] /\ s'.gap[c] = s.gap[c]
        BY <1>4, <2>5, <3>1, <3>3
      <4>2. c \notin s.names
        BY <1>2, <2>5, <3>3
      <4>. QED BY <1>1, <1>4, <2>1, <2>2, <2>3, <3>1, <3>3, <4>1, <4>2 DEF ChannelRight
    <3>. QED BY <3>2, <3>3
  <2>. QED BY <2>4, <2>5
<1>6. PokeType'
  <2>1. due \subseteq Channels
    BY <1>2, <1>3
  <2>2. [c \in Channels |-> Poke!Backoff(c)] \in [Channels -> Backoffs]
    BY <1>5
  <2>3. s'.silent \in [Channels -> Nat] /\ s'.gap \in [Channels -> Nat]
    BY <1>4, <1>5
  <2>. QED BY <1>1, <1>4, <2>1, <2>2, <2>3 DEF PokeInv, PokeType
<1>. QED BY <1>5, <1>6 DEF PokeInv

LEMMA PokeStays == ASSUME PokeInv, Poke!Next \/ UNCHANGED s PROVE PokeInv'
<1>1. CASE UNCHANGED s
  BY <1>1 DEF PokeInv, PokeType, ChannelRight
<1>2. CASE Poke!Next
  BY <1>2, PlanKeeps, WokenKeeps, ElapsesKeeps, ListKeeps, PokeOneKeeps, PokedKeeps, SayKeeps, EndKeeps,
     ConfigureKeeps, BeginKeeps, DrainKeeps DEF Poke!Next
<1>. QED BY <1>1, <1>2

LEMMA PokesInTime == ASSUME PokeInv PROVE Poke!PokedByTheCap /\ Poke!Widens
<1>1. Poke!PokedByTheCap
  BY DEF PokeInv, ChannelRight, Poke!PokedByTheCap
<1>2. ASSUME s.pc = "drain", NEW c \in Poke!Quiet
      PROVE  /\ Poke!IsDue(s.backoff[c]) => s.silent[c] >= s.gap[c]
             /\ c \in s.lively => Poke!IsDue(s.backoff[c])
  <2>1. c \in Channels /\ c \in s.names
    BY DEF Poke!Quiet, PokeInv, PokeType
  <2>2. /\ BackoffRight(s.backoff[c]) /\ Counted(s.backoff[c], s.silent[c], s.gap[c])
        /\ c \in s.lively => s.backoff[c] = Poke!Zero
        /\ s.backoff[c] \in Backoffs /\ s.silent[c] \in Nat /\ s.gap[c] \in Nat
    BY <1>2, <2>1 DEF PokeInv, PokeType, ChannelRight
  <2>3. Poke!IsDue(s.backoff[c]) => s.silent[c] >= s.gap[c]
    BY <2>2, DueCounts
  <2>4. Poke!IsDue(Poke!Zero)
    BY DEF Poke!IsDue, Poke!Zero, Poke!Multiplier
  <2>. QED BY <2>2, <2>3, <2>4
<1>. QED BY <1>1, <1>2 DEF Poke!Widens
---------------------------------------------------------------------------
(* Penalties are summed. *)
Spent(k) == Penalty * k

LEMMA SpentGrows ==
  ASSUME NEW k \in Nat
  PROVE  /\ Spent(k) \in Nat
         /\ Spent(k + 1) = Spent(k) + Penalty
BY PaceAssumption DEF Spent

LEMMA SpentMonotone ==
  ASSUME NEW k \in Nat, NEW m \in Nat, k <= m
  PROVE  Spent(k) <= Spent(m)
<1>1. Penalty * m = Penalty * k + Penalty * (m - k)
  BY PaceAssumption
<1>2. Penalty * (m - k) \in Nat /\ Penalty * k \in Nat
  BY PaceAssumption
<1>. QED BY <1>1, <1>2 DEF Spent
---------------------------------------------------------------------------
(* Commands *)

Orders == [c : Clients, n : Nat \ {0}, at : Nat]
Marks == [at : Nat, limit : Nat]
Counts == [openedAt : Nat, messages : Nat, open : BOOLEAN]
FloodType ==
  s \in [now : Nat, since : [Clients -> Nat], throttled : [Clients -> BOOLEAN], sent : [Clients -> Nat],
         held : SUBSET Orders, limit : Nat, counts : Counts,
         ran : [Clients -> Seq(Orders)], passed : Seq(Marks), warned : [Clients -> Nat]]

\* The commands of a client that wait or ran.
Known(c) == {h \in s.held : h.c = c} \cup {s.ran[c][i] : i \in 1..Len(s.ran[c])}

\* The timer has been charged for each command and all sent after it, beyond the
\* lead unless the command's time has come.
Timed(c, h) ==
  LET charged == Spent(s.sent[c] + 1 - h.n)
  IN  /\ h.n \in 1..s.sent[c]
      /\ h.at + charged <= s.since[c]
      /\ h.at <= s.now \/ h.at + MaxLead + charged <= s.since[c]

Spaced(h, k) ==
  /\ h.n = k.n => h = k
  /\ h.n < k.n => h.at <= k.at /\ h.at + Spent(k.n - h.n) <= k.at + MaxLead

\* Commands run once, as the time goes.
RanRight(c) ==
  LET r == s.ran[c]
  IN  /\ \A i \in 1..Len(r) : r[i].c = c /\ r[i].at <= s.now /\ r[i] \notin s.held
      /\ \A i, j \in 1..Len(r) : i < j => r[i].at <= r[j].at /\ r[i] # r[j]

WarnedRight(c) == s.warned[c] <= 1 /\ (s.warned[c] = 1 => s.throttled[c] /\ s.since[c] >= s.now)

ClientRight(c) ==
  /\ \A h \in Known(c) : Timed(c, h)
  /\ \A h, k \in Known(c) : Spaced(h, k)
  /\ RanRight(c)
  /\ WarnedRight(c)

\* b is the start of a window and a that of the window before it.
Windows(p, a, b) ==
  /\ b > 1 => b - a <= p[b - 1].limit
  /\ a > 1 => p[a - 1].at + FloodWindow <= p[b].at

\* The count is of the last messages let through, and each was within its limit when
\* it was counted in its window.
CountRight(p, w, now) ==
  /\ \A i \in 1..Len(p) : p[i].at <= now
  /\ \A i, j \in 1..Len(p) : i <= j => p[i].at <= p[j].at
  /\ ~w.open => Len(p) = 0
  /\ w.open => /\ w.openedAt <= now /\ w.messages \in 1..Len(p)
               /\ p[Len(p) - w.messages + 1].at = w.openedAt
               /\ w.messages <= p[Len(p)].limit
               /\ \E a \in 1..(Len(p) - w.messages + 1) : Windows(p, a, Len(p) - w.messages + 1)
  /\ \A j \in 1..Len(p) : \E b \in 1..j : j - b + 1 <= p[j].limit /\ \E a \in 1..b : Windows(p, a, b)

FloodInv == FloodType /\ (\A c \in Clients : ClientRight(c)) /\ CountRight(s.passed, s.counts, s.now)

LEMMA FloodStarts == ASSUME Flood!Init PROVE FloodInv
<1>1. PICK l \in Limits :
        s = [now |-> 0, since |-> [c \in Clients |-> 0],
             throttled |-> [c \in Clients |-> FALSE], sent |-> [c \in Clients |-> 0],
             held |-> {}, limit |-> l, counts |-> Flood!NotCounted,
             ran |-> [c \in Clients |-> <<>>], passed |-> <<>>,
             warned |-> [c \in Clients |-> 0]]
  BY DEF Flood!Init
<1>2. FloodType
  BY <1>1, PaceAssumption DEF FloodType, Counts, Flood!NotCounted
<1>3. CountRight(s.passed, s.counts, s.now)
  BY <1>1 DEF CountRight, Flood!NotCounted
<1>4. ASSUME NEW c \in Clients PROVE ClientRight(c)
  <2>1. s.ran[c] = <<>> /\ s.held = {} /\ s.warned[c] = 0
    BY <1>1
  <2>2. Known(c) = {}
    BY <2>1 DEF Known
  <2>. QED BY <2>1, <2>2 DEF ClientRight, RanRight, WarnedRight
<1>. QED BY <1>2, <1>3, <1>4 DEF FloodInv

\* What leaves the commands of a client known, its timer and what ran.
LEMMA ClientAlone ==
  ASSUME NEW c \in Clients, ClientRight(c), FloodType, FloodType', s'.now >= s.now,
         s'.since[c] = s.since[c], s'.sent[c] = s.sent[c], s'.ran[c] = s.ran[c],
         \A h \in s'.held : h.c = c => h \in s.held,
         \A i \in 1..Len(s.ran[c]) : s.ran[c][i] \notin s'.held,
         WarnedRight(c)'
  PROVE  ClientRight(c)'
<1>1. Known(c)' \subseteq Known(c)
  BY DEF Known
<1>2. \A h \in Known(c) : h \in Orders
  BY DEF Known, FloodType
<1>3. ASSUME NEW h \in Known(c)' PROVE Timed(c, h)'
  <2>1. Timed(c, h) /\ h \in Orders
    BY <1>1, <1>2, <1>3 DEF ClientRight
  <2>2. s.now \in Nat /\ s'.now \in Nat /\ h.at \in Nat
    BY <2>1 DEF FloodType, Orders
  <2>. QED BY <2>1, <2>2 DEF Timed
<1>4. ASSUME NEW h \in Known(c)', NEW k \in Known(c)' PROVE Spaced(h, k)'
  BY <1>1, <1>4 DEF ClientRight, Spaced
<1>5. RanRight(c)'
  <2>1. RanRight(c) /\ s.now \in Nat /\ s'.now \in Nat /\ s.ran[c] \in Seq(Orders)
    BY DEF ClientRight, FloodType
  <2>2. \A i \in 1..Len(s.ran[c]) : s.ran[c][i] \in Orders
    BY <2>1, ElementOfSeq
  <2>. DEFINE r == s.ran[c]
  <2>3. /\ \A i \in 1..Len(r) : r[i].c = c /\ r[i].at <= s.now /\ r[i] \notin s'.held
        /\ \A i, j \in 1..Len(r) : i < j => r[i].at <= r[j].at /\ r[i] # r[j]
    BY <2>1 DEF RanRight
  <2>4. s'.ran[c] = r /\ \A i \in 1..Len(r) : r[i] \in Orders
    BY <2>2
  <2>. HIDE DEF r
  <2>5. \A i \in 1..Len(r) : r[i].at <= s'.now
    <3>1. \A h \in Orders : h.at \in Nat
      BY DEF Orders
    <3>. QED BY <2>1, <2>3, <2>4, <3>1
  <2>. QED BY <2>3, <2>4, <2>5 DEF RanRight
<1>. QED BY <1>3, <1>4, <1>5 DEF ClientRight

LEMMA CountLasts ==
  ASSUME NEW p \in Seq(Marks), NEW w \in Counts, NEW now \in Nat, NEW later \in Nat, now <= later,
         CountRight(p, w, now)
  PROVE  CountRight(p, w, later)
<1>1. \A i \in 1..Len(p) : p[i] \in Marks
  BY ElementOfSeq
<1>2. \A i \in 1..Len(p) : p[i].at <= later
  <2>1. \A i \in 1..Len(p) : p[i].at <= now
    BY DEF CountRight
  <2>. QED BY <1>1, <2>1 DEF Marks
<1>3. w.open => w.openedAt <= later
  BY DEF CountRight, Counts
<1>. QED BY <1>2, <1>3 DEF CountRight

\* Only the clock, the limit, the count or what waits is changed.
LEMMA QuietKeeps ==
  ASSUME FloodInv, FloodType', s'.now >= s.now,
         s'.since = s.since, s'.sent = s.sent, s'.ran = s.ran, s'.held \subseteq s.held,
         \A c \in Clients : WarnedRight(c)', CountRight(s.passed, s.counts, s.now)'
  PROVE  FloodInv'
<1>1. ASSUME NEW c \in Clients PROVE ClientRight(c)'
  <2>1. ClientRight(c) /\ FloodType
    BY DEF FloodInv
  <2>2. \A i \in 1..Len(s.ran[c]) : s.ran[c][i] \notin s'.held
    BY <2>1 DEF ClientRight, RanRight
  <2>. QED BY <2>1, <2>2, ClientAlone
<1>. QED BY <1>1 DEF FloodInv

LEMMA WarnedStays ==
  ASSUME FloodInv, s'.now = s.now, s'.since = s.since, s'.throttled = s.throttled, s'.warned = s.warned
  PROVE  \A c \in Clients : WarnedRight(c)'
BY DEF FloodInv, ClientRight, WarnedRight

LEMMA GiveUpKeeps == ASSUME FloodInv, NEW h \in s.held, Flood!GiveUp(h) PROVE FloodInv'
<1>1. FloodType'
  BY DEF FloodInv, FloodType, Flood!GiveUp
<1>2. /\ s'.now = s.now /\ s'.since = s.since /\ s'.sent = s.sent /\ s'.ran = s.ran
      /\ s'.held = s.held \ {h} /\ s'.throttled = s.throttled /\ s'.warned = s.warned
      /\ s'.passed = s.passed /\ s'.counts = s.counts
  BY DEF FloodInv, FloodType, Flood!GiveUp
<1>3. s.now \in Nat /\ CountRight(s.passed, s.counts, s.now)
  BY DEF FloodInv, FloodType
<1>. QED BY <1>1, <1>2, <1>3, WarnedStays, QuietKeeps

LEMMA SetLimitKeeps == ASSUME FloodInv, NEW l \in Limits, Flood!SetLimit(l) PROVE FloodInv'
<1>1. FloodType'
  BY PaceAssumption DEF FloodInv, FloodType, Flood!SetLimit
<1>2. /\ s'.now = s.now /\ s'.since = s.since /\ s'.sent = s.sent /\ s'.ran = s.ran
      /\ s'.held = s.held /\ s'.throttled = s.throttled /\ s'.warned = s.warned
      /\ s'.passed = s.passed /\ s'.counts = s.counts
  BY DEF FloodInv, FloodType, Flood!SetLimit
<1>3. s.now \in Nat /\ CountRight(s.passed, s.counts, s.now)
  BY DEF FloodInv, FloodType
<1>. QED BY <1>1, <1>2, <1>3, WarnedStays, QuietKeeps

LEMMA ForgetKeeps == ASSUME FloodInv, Flood!Forget PROVE FloodInv'
<1>1. FloodType'
  <2>1. Flood!NotCounted \in Counts /\ <<>> \in Seq(Marks)
    BY DEF Flood!NotCounted, Counts
  <2>2. s' = [s EXCEPT !.counts = Flood!NotCounted, !.passed = <<>>, !.limit = 0]
    BY DEF Flood!Forget
  <2>. QED BY <2>1, <2>2 DEF FloodInv, FloodType
<1>2. /\ s'.now = s.now /\ s'.since = s.since /\ s'.sent = s.sent /\ s'.ran = s.ran
      /\ s'.held = s.held /\ s'.throttled = s.throttled /\ s'.warned = s.warned
      /\ s'.passed = <<>> /\ s'.counts = Flood!NotCounted
  BY DEF FloodInv, FloodType, Flood!Forget
<1>3. s.now \in Nat
  BY DEF FloodInv, FloodType
<1>4. CountRight(s.passed, s.counts, s.now)'
  BY <1>2 DEF CountRight, Flood!NotCounted
<1>. QED BY <1>1, <1>2, <1>3, <1>4, WarnedStays, QuietKeeps

LEMMA TickKeeps == ASSUME FloodInv, Flood!Tick PROVE FloodInv'
<1>1. FloodType'
  <2>. DEFINE warned == [c \in Clients |-> IF s.since[c] <= s.now THEN 0 ELSE s.warned[c]]
  <2>1. s' = [s EXCEPT !.now = s.now + 1, !.warned = warned]
    BY DEF FloodInv, FloodType, Flood!Tick
  <2>2. warned \in [Clients -> Nat] /\ s.now + 1 \in Nat
    BY DEF FloodInv, FloodType
  <2>. HIDE DEF warned
  <2>. QED BY <2>1, <2>2 DEF FloodInv, FloodType
<1>2. /\ s'.now = s.now + 1 /\ s'.since = s.since /\ s'.sent = s.sent /\ s'.ran = s.ran
      /\ s'.held = s.held /\ s'.throttled = s.throttled
      /\ s'.warned = [c \in Clients |-> IF s.since[c] <= s.now THEN 0 ELSE s.warned[c]]
      /\ s'.passed = s.passed /\ s'.counts = s.counts
  BY DEF FloodInv, FloodType, Flood!Tick
<1>3. s.now \in Nat /\ s.passed \in Seq(Marks) /\ s.counts \in Counts
  BY DEF FloodInv, FloodType
<1>4. CountRight(s.passed, s.counts, s.now)'
  <2>1. CountRight(s.passed, s.counts, s.now)
    BY DEF FloodInv
  <2>2. CountRight(s.passed, s.counts, s.now + 1)
    BY <1>3, <2>1, CountLasts
  <2>. QED BY <1>2, <2>2
<1>5. ASSUME NEW c \in Clients PROVE WarnedRight(c)'
  <2>1. WarnedRight(c) /\ s.since[c] \in Nat /\ s.warned[c] \in Nat
    BY DEF FloodInv, FloodType, ClientRight
  <2>. QED BY <1>2, <1>3, <2>1 DEF WarnedRight
<1>. QED BY <1>1, <1>2, <1>3, <1>4, <1>5, QuietKeeps

---------------------------------------------------------------------------
(* throttleCommand charges the timer and holds the command back. *)

LEMMA DelayIsNat ==
  ASSUME FloodType, NEW since \in Nat
  PROVE  /\ Flood!Delay(since) \in Nat
         /\ Flood!Delay(since) > 0 => since > s.now + MaxLead /\ s.now + Flood!Delay(since) = since - MaxLead
         /\ since <= s.now + Flood!Delay(since) + MaxLead
         /\ Flood!Charged(since) \in Nat
         /\ Flood!Charged(since) >= since + Penalty /\ Flood!Charged(since) >= s.now + Penalty
<1>1. s.now \in Nat /\ MaxLead \in Nat /\ Penalty \in Nat
  BY PaceAssumption DEF FloodType
<1>. QED BY <1>1 DEF Flood!Delay, Flood!Lead, Flood!Drained, Flood!Charged

LEMMA SendFields ==
  ASSUME FloodInv, NEW c \in Clients, Flood!Send(c)
  PROVE  LET delay == Flood!Delay(s.since[c])
             inside == s.throttled[c] /\ ~Flood!Drained(s.since[c])
             new == [c |-> c, n |-> s.sent[c] + 1, at |-> s.now + delay]
         IN  /\ FloodType'
             /\ s'.now = s.now /\ s'.ran = s.ran /\ s'.passed = s.passed /\ s'.counts = s.counts
             /\ s'.sent = [s.sent EXCEPT ![c] = s.sent[c] + 1]
             /\ s'.since = [s.since EXCEPT ![c] = Flood!Charged(s.since[c])]
             /\ s'.held = s.held \cup {new} /\ new \in Orders
             /\ \A d \in Clients \ {c} : s'.throttled[d] = s.throttled[d] /\ s'.warned[d] = s.warned[d]
             /\ s'.throttled[c] <=> delay > 0 \/ inside
             /\ s'.warned[c] = IF delay > 0 /\ ~inside THEN s.warned[c] + 1 ELSE s.warned[c]
<1>. DEFINE delay == Flood!Delay(s.since[c])
            inside == s.throttled[c] /\ ~Flood!Drained(s.since[c])
            busy == delay > 0 \/ inside
            opened == delay > 0 /\ ~inside
            new == [c |-> c, n |-> s.sent[c] + 1, at |-> s.now + delay]
            charged == Flood!Charged(s.since[c])
            warned == IF opened THEN s.warned[c] + 1 ELSE s.warned[c]
<1>1. FloodType /\ s.since[c] \in Nat /\ s.sent[c] \in Nat /\ s.now \in Nat /\ s.warned[c] \in Nat
  BY DEF FloodInv, FloodType
<1>2. s' = [s EXCEPT !.sent = [s.sent EXCEPT ![c] = s.sent[c] + 1],
                     !.since = [s.since EXCEPT ![c] = charged],
                     !.throttled = [s.throttled EXCEPT ![c] = busy],
                     !.warned = [s.warned EXCEPT ![c] = warned],
                     !.held = s.held \cup {new}]
  BY <1>1 DEF Flood!Send, FloodType
<1>3. charged \in Nat /\ delay \in Nat /\ busy \in BOOLEAN /\ warned \in Nat
  BY <1>1, DelayIsNat
<1>4. new \in Orders
  BY <1>1, <1>3 DEF Orders
<1>5. (busy <=> delay > 0 \/ inside) /\ warned = IF delay > 0 /\ ~inside THEN s.warned[c] + 1 ELSE s.warned[c]
  OBVIOUS
<1>. HIDE DEF charged, busy, warned, new, delay, inside
<1>6. /\ s'.now = s.now /\ s'.ran = s.ran /\ s'.passed = s.passed /\ s'.counts = s.counts
      /\ s'.sent = [s.sent EXCEPT ![c] = s.sent[c] + 1]
      /\ s'.since = [s.since EXCEPT ![c] = charged]
      /\ s'.throttled = [s.throttled EXCEPT ![c] = busy]
      /\ s'.warned = [s.warned EXCEPT ![c] = warned]
      /\ s'.held = s.held \cup {new}
  BY <1>1, <1>2 DEF FloodType
<1>7. FloodType'
  <2>1. [s.sent EXCEPT ![c] = s.sent[c] + 1] \in [Clients -> Nat]
    BY <1>1 DEF FloodType
  <2>2. [s.since EXCEPT ![c] = charged] \in [Clients -> Nat]
    BY <1>1, <1>3 DEF FloodType
  <2>3. [s.throttled EXCEPT ![c] = busy] \in [Clients -> BOOLEAN]
    BY <1>1, <1>3 DEF FloodType
  <2>4. [s.warned EXCEPT ![c] = warned] \in [Clients -> Nat]
    BY <1>1, <1>3 DEF FloodType
  <2>5. s.held \cup {new} \in SUBSET Orders
    BY <1>1, <1>4 DEF FloodType
  <2>. QED BY <1>1, <1>2, <2>1, <2>2, <2>3, <2>4, <2>5 DEF FloodType
<1>8. /\ s'.throttled[c] = busy /\ s'.warned[c] = warned
      /\ \A d \in Clients \ {c} : s'.throttled[d] = s.throttled[d] /\ s'.warned[d] = s.warned[d]
  BY <1>1, <1>6 DEF FloodType
<1>9. s'.throttled[c] <=> busy
  BY <1>8
<1>. QED BY <1>4, <1>5, <1>6, <1>7, <1>8, <1>9 DEF charged, new, delay, inside

LEMMA SendKeeps == ASSUME FloodInv, NEW c \in Clients, Flood!Send(c) PROVE FloodInv'
<1>. DEFINE delay == Flood!Delay(s.since[c])
            inside == s.throttled[c] /\ ~Flood!Drained(s.since[c])
            new == [c |-> c, n |-> s.sent[c] + 1, at |-> s.now + delay]
<1>1. /\ FloodType' /\ new \in Orders
      /\ s'.now = s.now /\ s'.ran = s.ran /\ s'.passed = s.passed /\ s'.counts = s.counts
      /\ s'.sent = [s.sent EXCEPT ![c] = s.sent[c] + 1]
      /\ s'.since = [s.since EXCEPT ![c] = Flood!Charged(s.since[c])]
      /\ s'.held = s.held \cup {new}
  BY SendFields
<1>2. /\ \A d \in Clients \ {c} : s'.throttled[d] = s.throttled[d] /\ s'.warned[d] = s.warned[d]
      /\ s'.throttled[c] <=> delay > 0 \/ inside
      /\ s'.warned[c] = IF delay > 0 /\ ~inside THEN s.warned[c] + 1 ELSE s.warned[c]
  BY SendFields
<1>3. FloodType /\ s.since[c] \in Nat /\ s.sent[c] \in Nat /\ s.now \in Nat /\ s.warned[c] \in Nat
  BY DEF FloodInv, FloodType
<1>0. s'.since[c] = Flood!Charged(s.since[c])
  BY <1>1, <1>3 DEF FloodType
<1>4. /\ delay \in Nat /\ Penalty \in Nat /\ MaxLead \in Nat
      /\ delay > 0 => s.since[c] > s.now + MaxLead /\ s.now + delay = s.since[c] - MaxLead
      /\ s.since[c] <= s.now + delay + MaxLead
      /\ s'.since[c] \in Nat /\ s'.since[c] >= s.since[c] + Penalty /\ s'.since[c] >= s.now + Penalty
  BY <1>0, <1>3, DelayIsNat, PaceAssumption
<1>5. s'.sent[c] = s.sent[c] + 1
  BY <1>1, <1>3 DEF FloodType
<1>6. ClientRight(c)
  BY DEF FloodInv
<1>7. new.c = c /\ new.n = s.sent[c] + 1 /\ new.at = s.now + delay
  OBVIOUS
<1>. HIDE DEF delay, inside, new
<1>8. CountRight(s.passed, s.counts, s.now)'
  BY <1>1 DEF FloodInv
<1>9. ASSUME NEW d \in Clients, d # c PROVE ClientRight(d)'
  <2>1. /\ s'.since[d] = s.since[d] /\ s'.sent[d] = s.sent[d] /\ s'.ran[d] = s.ran[d]
        /\ ClientRight(d) /\ s'.now >= s.now
    BY <1>1, <1>3, <1>9 DEF FloodInv, FloodType
  <2>2. \A h \in s'.held : h.c = d => h \in s.held
    BY <1>1, <1>7, <1>9
  <2>3. \A i \in 1..Len(s.ran[d]) : s.ran[d][i] \notin s'.held
    BY <1>1, <1>7, <1>9, <2>1 DEF ClientRight, RanRight
  <2>4. WarnedRight(d)'
    BY <1>1, <1>2, <1>9, <2>1 DEF ClientRight, WarnedRight
  <2>. QED BY <1>1, <1>3, <2>1, <2>2, <2>3, <2>4, ClientAlone
<1>10. Known(c)' = Known(c) \cup {new}
  BY <1>1, <1>7 DEF Known
<1>11. \A h \in Known(c) : h \in Orders /\ Timed(c, h)
  BY <1>3, <1>6 DEF Known, FloodType, ClientRight
<1>12. ASSUME NEW h \in Known(c) PROVE Timed(c, h)' /\ Spaced(h, new) /\ Spaced(new, h)
  <2>. DEFINE k == s.sent[c] + 1 - h.n
  <2>1. /\ h.n \in 1..s.sent[c] /\ h.at \in Nat /\ k \in Nat /\ h.at + Spent(k) <= s.since[c]
        /\ h.at <= s.now \/ h.at + MaxLead + Spent(k) <= s.since[c]
    BY <1>3, <1>11, <1>12 DEF Timed, Orders
  <2>2. s'.sent[c] + 1 - h.n = k + 1 /\ new.n - h.n = k
    BY <1>3, <1>5, <1>7, <2>1
  <2>. HIDE DEF k
  <2>3. Spent(k) \in Nat /\ Spent(k + 1) = Spent(k) + Penalty
    BY <2>1, SpentGrows
  <2>4. Timed(c, h)'
    BY <1>1, <1>3, <1>4, <1>5, <2>1, <2>2, <2>3 DEF Timed
  <2>5. Spaced(h, new)
    BY <1>3, <1>4, <1>7, <2>1, <2>2, <2>3 DEF Spaced
  <2>6. Spaced(new, h)
    BY <1>3, <1>7, <2>1 DEF Spaced
  <2>. QED BY <2>4, <2>5, <2>6
<1>13. \A h \in {new} : Timed(c, h)'
  <2>1. SUFFICES ASSUME NEW h, h = new PROVE Timed(c, h)'
    OBVIOUS
  <2>2. Spent(1) = Penalty
    BY PaceAssumption DEF Spent
  <2>3. h.n \in 1..s'.sent[c] /\ s'.sent[c] + 1 - h.n = 1 /\ h.at = s.now + delay
    BY <1>3, <1>5, <1>7, <2>1
  <2>4. s'.now = s.now
    BY <1>1
  <2>. QED BY <1>3, <1>4, <2>2, <2>3, <2>4 DEF Timed
<1>14. \A h, k \in Known(c)' : Spaced(h, k)'
  <2>1. Spaced(new, new)
    BY <1>3, <1>7 DEF Spaced
  <2>2. \A h, k \in Known(c) \cup {new} : Spaced(h, k)
    BY <1>6, <1>12, <2>1 DEF ClientRight
  <2>. QED BY <1>10, <2>2 DEF Spaced
<1>15. RanRight(c)'
  <2>1. \A i \in 1..Len(s.ran[c]) : s.ran[c][i] # new
    BY <1>3, <1>7, <1>11 DEF Known, Timed
  <2>. QED BY <1>1, <1>6, <2>1 DEF ClientRight, RanRight
<1>16. WarnedRight(c)'
  <2>1. s.warned[c] = 1 => s.throttled[c] /\ s.since[c] >= s.now
    BY <1>6 DEF ClientRight, WarnedRight
  <2>2. inside <=> s.throttled[c] /\ ~(s.since[c] < s.now)
    BY DEF inside, Flood!Drained
  <2>3. s.warned[c] <= 1
    BY <1>6 DEF ClientRight, WarnedRight
  <2>4. CASE s.warned[c] = 1
    <3>1. inside
      BY <1>3, <2>1, <2>2, <2>4
    <3>. QED BY <1>1, <1>2, <1>3, <1>4, <2>1, <2>4, <3>1 DEF WarnedRight
  <2>5. CASE s.warned[c] = 0
    BY <1>1, <1>2, <1>3, <1>4, <2>5 DEF WarnedRight
  <2>. QED BY <1>3, <2>3, <2>4, <2>5
<1>17. ClientRight(c)'
  BY <1>10, <1>12, <1>13, <1>14, <1>15, <1>16 DEF ClientRight
<1>. QED BY <1>1, <1>8, <1>9, <1>17 DEF FloodInv

---------------------------------------------------------------------------
(* A command comes to the loop, and a message is counted in its window. *)

\* countMessage opens a window.
LEMMA WindowOpens ==
  ASSUME NEW p \in Seq(Marks), NEW w \in Counts, NEW now \in Nat, NEW e \in Marks, NEW new \in Counts,
         CountRight(p, w, now), w.open => now - w.openedAt >= FloodWindow,
         e.at = now, e.limit > 0, new.open, new.openedAt = now, new.messages = 1
  PROVE  CountRight(Append(p, e), new, now)
<1>. DEFINE n == Len(p)
            q == Append(p, e)
<1>1. /\ n \in Nat /\ Len(q) = n + 1 /\ q[n + 1] = e /\ \A i \in 1..n : q[i] = p[i] /\ p[i] \in Marks
  BY AppendProperties, ElementOfSeq
<1>2. FloodWindow \in Nat \ {0} /\ \A i \in 1..(n + 1) : i \in 1..n \/ i = n + 1
  BY <1>1, PaceAssumption
<1>3. /\ \A i \in 1..n : p[i].at <= now
      /\ \A i, j \in 1..n : i <= j => p[i].at <= p[j].at
      /\ \A j \in 1..n : \E b \in 1..j : j - b + 1 <= p[j].limit /\ \E a \in 1..b : Windows(p, a, b)
  BY DEF CountRight
<1>. HIDE DEF q, n
<1>4. \A a, b \in 1..n : Windows(p, a, b) => Windows(q, a, b)
  BY <1>1 DEF Windows
<1>5. \E a \in 1..(n + 1) : Windows(q, a, n + 1)
  <2>1. CASE ~w.open
    <3>1. n = 0
      BY <2>1 DEF CountRight, n
    <3>. QED BY <3>1 DEF Windows
  <2>2. CASE w.open
    <3>. DEFINE a == n - w.messages + 1
    <3>0. w.openedAt + FloodWindow <= now
      BY <1>2, <2>2 DEF Counts
    <3>. w.messages \in 1..n /\ p[a].at = w.openedAt /\ w.messages <= p[n].limit
      BY <2>2 DEF CountRight, n
    <3>1. /\ w.messages \in 1..n /\ p[a].at = w.openedAt /\ w.messages <= p[n].limit
          /\ w.openedAt + FloodWindow <= now /\ a \in 1..n
      BY <1>1, <3>0
    <3>2. n + 1 - a = w.messages
      BY <1>1, <3>1
    <3>. HIDE DEF a
    <3>3. n + 1 > 1 => n + 1 - a <= q[n + 1 - 1].limit
      BY <1>1, <3>1, <3>2
    <3>4. a > 1 => p[a - 1].at <= p[a].at /\ q[a - 1].at = p[a - 1].at /\ p[a - 1].at \in Nat
      <4>1. SUFFICES ASSUME a > 1 PROVE p[a - 1].at <= p[a].at /\ q[a - 1].at = p[a - 1].at /\ p[a - 1].at \in Nat
        OBVIOUS
      <4>2. a - 1 \in 1..n /\ a \in 1..n /\ a - 1 <= a
        BY <1>1, <3>1, <4>1
      <4>3. q[a - 1] = p[a - 1] /\ p[a - 1] \in Marks /\ p[a - 1].at <= p[a].at
        BY <1>1, <1>3, <4>2
      <4>. QED BY <4>3 DEF Marks
    <3>5. a > 1 => q[a - 1].at + FloodWindow <= q[n + 1].at
      BY <1>1, <1>2, <3>1, <3>4 DEF Counts
    <3>. QED BY <1>1, <3>1, <3>3, <3>5 DEF Windows
  <2>. QED BY <2>1, <2>2
<1>6. \A i \in 1..(n + 1) : q[i].at <= now
  BY <1>1, <1>2, <1>3
<1>7. ASSUME NEW i \in 1..(n + 1), NEW j \in 1..(n + 1), i <= j PROVE q[i].at <= q[j].at
  <2>1. CASE j = n + 1
    BY <1>1, <1>6, <2>1
  <2>2. CASE j # n + 1
    <3>1. i \in 1..n /\ j \in 1..n
      BY <1>1, <1>7, <2>2
    <3>. QED BY <1>1, <1>3, <1>7, <3>1
  <2>. QED BY <2>1, <2>2
<1>8. ASSUME NEW j \in 1..(n + 1)
      PROVE  \E b \in 1..j : j - b + 1 <= q[j].limit /\ \E a \in 1..b : Windows(q, a, b)
  <2>1. CASE j = n + 1
    <3>1. j - (n + 1) + 1 <= q[j].limit
      BY <1>1, <2>1 DEF Marks
    <3>. QED BY <1>1, <1>5, <2>1, <3>1
  <2>2. CASE j # n + 1
    <3>1. j \in 1..n /\ q[j] = p[j]
      BY <1>1, <2>2
    <3>2. PICK b \in 1..j : j - b + 1 <= p[j].limit /\ \E a \in 1..b : Windows(p, a, b)
      BY <1>3, <3>1
    <3>3. PICK a \in 1..b : Windows(p, a, b)
      BY <3>2
    <3>4. Windows(q, a, b)
      BY <1>1, <1>4, <3>1, <3>3
    <3>. QED BY <3>1, <3>2, <3>4
  <2>. QED BY <2>1, <2>2
<1>9. /\ new.messages \in 1..(n + 1) /\ (n + 1) - new.messages + 1 = n + 1
      /\ q[n + 1].at = new.openedAt /\ new.messages <= q[n + 1].limit
  BY <1>1 DEF Marks
<1>10. Len(q) = n + 1
  BY <1>1
<1>11. CountRight(q, new, now)
  BY <1>5, <1>6, <1>7, <1>8, <1>9, <1>10 DEF CountRight, Counts
<1>. QED BY <1>11 DEF q

\* countMessage counts one more.
LEMMA WindowFills ==
  ASSUME NEW p \in Seq(Marks), NEW w \in Counts, NEW now \in Nat, NEW e \in Marks, NEW new \in Counts,
         CountRight(p, w, now), w.open, w.messages < e.limit,
         e.at = now, new.open, new.openedAt = w.openedAt, new.messages = w.messages + 1
  PROVE  CountRight(Append(p, e), new, now)
<1>. DEFINE n == Len(p)
            q == Append(p, e)
            b == n - w.messages + 1
<1>1. /\ n \in Nat /\ Len(q) = n + 1 /\ q[n + 1] = e /\ \A i \in 1..n : q[i] = p[i] /\ p[i] \in Marks
  BY AppendProperties, ElementOfSeq
<1>2. /\ \A i \in 1..n : p[i].at <= now
      /\ \A i, j \in 1..n : i <= j => p[i].at <= p[j].at
      /\ \A j \in 1..n : \E c \in 1..j : j - c + 1 <= p[j].limit /\ \E a \in 1..c : Windows(p, a, c)
  BY DEF CountRight
<1>3. w.openedAt <= now /\ w.messages \in 1..n /\ p[b].at = w.openedAt /\ \E a \in 1..b : Windows(p, a, b)
  BY DEF CountRight
<1>4. b \in 1..n /\ n + 1 - b = w.messages /\ n + 1 - new.messages + 1 = b
  BY <1>1, <1>3
<1>12. \A i \in 1..(n + 1) : i \in 1..n \/ i = n + 1
  BY <1>1
<1>. HIDE DEF q, n, b
<1>5. \A a, c \in 1..n : Windows(p, a, c) => Windows(q, a, c)
  BY <1>1 DEF Windows
<1>6. PICK a \in 1..b : Windows(q, a, b)
  BY <1>1, <1>3, <1>4, <1>5
<1>7. ASSUME NEW i \in 1..(n + 1) PROVE q[i].at <= now
  <2>1. CASE i \in 1..n
    BY <1>1, <1>2, <2>1
  <2>2. CASE i = n + 1
    BY <1>1, <2>2
  <2>. QED BY <1>12, <2>1, <2>2
<1>8. ASSUME NEW i \in 1..(n + 1), NEW j \in 1..(n + 1), i <= j PROVE q[i].at <= q[j].at
  <2>1. CASE j = n + 1
    BY <1>1, <1>7, <2>1
  <2>2. CASE j # n + 1
    <3>1. i \in 1..n /\ j \in 1..n
      BY <1>1, <1>8, <2>2
    <3>. QED BY <1>1, <1>2, <1>8, <3>1
  <2>. QED BY <2>1, <2>2
<1>9. ASSUME NEW j \in 1..(n + 1)
      PROVE  \E c \in 1..j : j - c + 1 <= q[j].limit /\ \E x \in 1..c : Windows(q, x, c)
  <2>1. CASE j = n + 1
    <3>1. b \in 1..j /\ j - b + 1 <= q[j].limit
      BY <1>1, <1>4, <2>1 DEF Marks, Counts
    <3>. QED BY <1>6, <3>1
  <2>2. CASE j # n + 1
    <3>1. j \in 1..n /\ q[j] = p[j]
      BY <1>1, <2>2
    <3>2. PICK c \in 1..j : j - c + 1 <= p[j].limit /\ \E x \in 1..c : Windows(p, x, c)
      BY <1>2, <3>1
    <3>3. PICK x \in 1..c : Windows(p, x, c)
      BY <3>2
    <3>4. Windows(q, x, c)
      BY <1>1, <1>5, <3>1, <3>3
    <3>. QED BY <3>1, <3>2, <3>4
  <2>. QED BY <2>1, <2>2
<1>10. /\ new.messages \in 1..(n + 1) /\ q[b].at = new.openedAt /\ new.messages <= q[n + 1].limit
       /\ new.openedAt <= now
  <2>1. q[b] = p[b] /\ q[n + 1].limit = e.limit /\ e.limit \in Nat /\ w.messages \in 1..n
    BY <1>1, <1>3, <1>4 DEF Marks
  <2>. QED BY <1>1, <1>3, <2>1
<1>13. Len(q) = n + 1 /\ Len(q) - new.messages + 1 = b
  BY <1>1, <1>4
<1>11. CountRight(q, new, now)
  BY <1>6, <1>7, <1>8, <1>9, <1>10, <1>13 DEF CountRight
<1>. QED BY <1>11 DEF q

\* checkChannelFlood refuses only in a window it counts in.
LEMMA FullIsOpen ==
  ASSUME FloodType, Flood!Full
  PROVE  /\ s.counts.open /\ s.now - s.counts.openedAt < FloodWindow
         /\ s.limit \in Nat \ {0} /\ s.counts.messages >= s.limit
         /\ Flood!WindowAt(s.counts) = s.counts
<1>1. s.counts \in Counts /\ s.limit \in Nat /\ s.now \in Nat
  BY DEF FloodType
<1>2. ~Flood!Reopened(s.counts)
  <2>1. SUFFICES ASSUME Flood!Reopened(s.counts) PROVE FALSE
    OBVIOUS
  <2>2. Flood!WindowAt(s.counts).messages = 0
    BY <2>1 DEF Flood!WindowAt
  <2>. QED BY <1>1, <2>2 DEF Flood!Full
<1>3. Flood!WindowAt(s.counts) = s.counts
  BY <1>2 DEF Flood!WindowAt
<1>. QED BY <1>1, <1>2, <1>3, PaceAssumption DEF Flood!Full, Flood!Reopened, Counts

LEMMA CountedOne ==
  ASSUME NEW w \in Counts
  PROVE  LET one == Flood!OneMore(w)
         IN  one \in Counts /\ one.open = w.open /\ one.openedAt = w.openedAt /\ one.messages = w.messages + 1
BY DEF Counts, Flood!OneMore

LEMMA CountsOn ==
  ASSUME FloodType, CountRight(s.passed, s.counts, s.now), s.limit > 0, ~Flood!Full
  PROVE  LET window == Flood!OneMore(Flood!WindowAt(s.counts))
             mark == [at |-> s.now, limit |-> s.limit]
         IN  window \in Counts /\ mark \in Marks /\ CountRight(Append(s.passed, mark), window, s.now)
<1>. DEFINE window == Flood!OneMore(Flood!WindowAt(s.counts))
            mark == [at |-> s.now, limit |-> s.limit]
<1>1. s.counts \in Counts /\ s.limit \in Nat /\ s.now \in Nat /\ s.passed \in Seq(Marks)
  BY DEF FloodType
<1>2. mark \in Marks /\ mark.at = s.now /\ mark.limit = s.limit
  BY <1>1 DEF Marks
<1>3. CASE Flood!Reopened(s.counts)
  <2>1. Flood!WindowAt(s.counts) = [openedAt |-> s.now, messages |-> 0, open |-> TRUE]
    BY <1>3 DEF Flood!WindowAt
  <2>2. s.counts.open => s.now - s.counts.openedAt >= FloodWindow
    BY <1>3 DEF Flood!Reopened
  <2>3. window \in Counts /\ window.open /\ window.openedAt = s.now /\ window.messages = 1
    <3>1. Flood!WindowAt(s.counts) \in Counts
      BY <1>1, <2>1 DEF Counts
    <3>2. /\ window \in Counts /\ window.messages = Flood!WindowAt(s.counts).messages + 1
          /\ window.open = Flood!WindowAt(s.counts).open
          /\ window.openedAt = Flood!WindowAt(s.counts).openedAt
      BY <3>1, CountedOne
    <3>3. /\ Flood!WindowAt(s.counts).messages = 0 /\ Flood!WindowAt(s.counts).open
          /\ Flood!WindowAt(s.counts).openedAt = s.now
      BY <2>1
    <3>. HIDE DEF window
    <3>. QED BY <3>2, <3>3
  <2>. HIDE DEF window, mark
  <2>4. CountRight(Append(s.passed, mark), window, s.now)
    BY <1>1, <1>2, <2>2, <2>3, WindowOpens
  <2>. QED BY <1>2, <2>3, <2>4 DEF window, mark
<1>4. CASE ~Flood!Reopened(s.counts)
  <2>1. window = Flood!OneMore(s.counts)
    BY <1>4 DEF Flood!WindowAt
  <2>2. s.counts.open /\ s.counts.messages < s.limit
    BY <1>1, <1>4 DEF Flood!Reopened, Flood!Full, Flood!WindowAt, Counts
  <2>3. /\ window \in Counts /\ window.open /\ window.openedAt = s.counts.openedAt
        /\ window.messages = s.counts.messages + 1
    BY <1>1, <2>1, <2>2, CountedOne
  <2>. HIDE DEF window, mark
  <2>4. CountRight(Append(s.passed, mark), window, s.now)
    BY <1>1, <1>2, <2>2, <2>3, WindowFills
  <2>. QED BY <1>2, <2>3, <2>4 DEF window, mark
<1>. QED BY <1>3, <1>4

LEMMA RunKeeps == ASSUME FloodInv, NEW h \in s.held, Flood!Run(h) PROVE FloodInv'
<1>. DEFINE c == h.c
            mark == [at |-> s.now, limit |-> s.limit]
            counts == IF s.limit = 0 THEN s.counts
                      ELSE IF Flood!Full THEN Flood!WindowAt(s.counts)
                      ELSE Flood!OneMore(Flood!WindowAt(s.counts))
            passed == IF s.limit = 0 \/ Flood!Full THEN s.passed ELSE Append(s.passed, mark)
            ran == Append(s.ran[c], h)
<1>1. /\ FloodType /\ h \in Orders /\ c \in Clients /\ h.at = s.now /\ s.now \in Nat
      /\ s.ran[c] \in Seq(Orders) /\ s.limit \in Nat /\ s.counts \in Counts /\ s.passed \in Seq(Marks)
  BY DEF FloodInv, FloodType, Orders, Flood!Run
<1>2. s' = [s EXCEPT !.held = s.held \ {h}, !.ran = [s.ran EXCEPT ![c] = ran],
                     !.counts = counts, !.passed = passed]
  <2>1. s' = [s EXCEPT !.held = s.held \ {h}, !.ran[h.c] = Append(@, h),
                       !.counts = counts, !.passed = passed]
    BY DEF Flood!Run
  <2>. HIDE DEF counts, passed
  <2>. QED BY <1>1, <2>1 DEF FloodType
<1>3. counts \in Counts /\ passed \in Seq(Marks) /\ CountRight(passed, counts, s.now)
  <2>1. CountRight(s.passed, s.counts, s.now)
    BY DEF FloodInv
  <2>2. CASE s.limit = 0
    BY <1>1, <2>1, <2>2
  <2>3. CASE s.limit > 0 /\ Flood!Full
    BY <1>1, <2>1, <2>3, FullIsOpen
  <2>4. CASE s.limit > 0 /\ ~Flood!Full
    <3>1. counts = Flood!OneMore(Flood!WindowAt(s.counts)) /\ passed = Append(s.passed, mark)
      BY <1>1, <2>4
    <3>2. /\ Flood!OneMore(Flood!WindowAt(s.counts)) \in Counts /\ mark \in Marks
          /\ CountRight(Append(s.passed, mark), Flood!OneMore(Flood!WindowAt(s.counts)), s.now)
      BY <1>1, <2>1, <2>4, CountsOn
    <3>. QED BY <1>1, <3>1, <3>2, AppendProperties
  <2>. QED BY <1>1, <2>2, <2>3, <2>4
<1>4. ran \in Seq(Orders) /\ Len(ran) = Len(s.ran[c]) + 1 /\ ran[Len(s.ran[c]) + 1] = h
      /\ \A i \in 1..Len(s.ran[c]) : ran[i] = s.ran[c][i]
  BY <1>1, AppendProperties
<1>. HIDE DEF counts, passed, ran, c
<1>5. /\ s'.now = s.now /\ s'.since = s.since /\ s'.sent = s.sent /\ s'.throttled = s.throttled
      /\ s'.warned = s.warned /\ s'.held = s.held \ {h} /\ s'.counts = counts /\ s'.passed = passed
      /\ s'.ran = [s.ran EXCEPT ![c] = ran]
  BY <1>1, <1>2 DEF FloodType
<1>6. FloodType'
  <2>1. [s.ran EXCEPT ![c] = ran] \in [Clients -> Seq(Orders)]
    BY <1>1, <1>4 DEF FloodType
  <2>2. s.held \ {h} \in SUBSET Orders
    BY <1>1 DEF FloodType
  <2>. QED BY <1>1, <1>2, <1>3, <2>1, <2>2 DEF FloodType
<1>7. \A d \in Clients : WarnedRight(d)'
  BY <1>5, WarnedStays
<1>8. ASSUME NEW d \in Clients, d # c PROVE ClientRight(d)'
  <2>1. s'.ran[d] = s.ran[d] /\ ClientRight(d) /\ s'.now >= s.now
    BY <1>1, <1>5, <1>8 DEF FloodInv, FloodType
  <2>2. \A i \in 1..Len(s.ran[d]) : s.ran[d][i] \notin s'.held
    BY <1>5, <2>1 DEF ClientRight, RanRight
  <2>. QED BY <1>1, <1>5, <1>6, <1>7, <2>1, <2>2, ClientAlone
<1>9. s'.ran[c] = ran /\ ClientRight(c) /\ h.c = c
  BY <1>1, <1>5 DEF FloodInv, FloodType, c
<1>10. Known(c)' \subseteq Known(c)
  BY <1>4, <1>5, <1>9 DEF Known
<1>11. \A k \in Known(c)' : Timed(c, k)'
  BY <1>5, <1>9, <1>10 DEF ClientRight, Timed
<1>12. \A k, m \in Known(c)' : Spaced(k, m)'
  BY <1>9, <1>10 DEF ClientRight, Spaced
<1>13. RanRight(c)'
  <2>1. RanRight(c)
    BY <1>9 DEF ClientRight
  <2>. DEFINE r == s.ran[c]
              n == Len(r)
  <2>2. /\ n \in Nat /\ Len(ran) = n + 1 /\ ran[n + 1] = h
        /\ \A i \in 1..n : ran[i] = r[i] /\ r[i].c = c /\ r[i].at <= s.now /\ r[i] \notin s.held
        /\ \A i, j \in 1..n : i < j => r[i].at <= r[j].at /\ r[i] # r[j]
    BY <1>1, <1>4, <2>1 DEF RanRight
  <2>. HIDE DEF n, r
  <2>3. ASSUME NEW j \in 1..Len(ran)
        PROVE  /\ ran[j].c = c /\ ran[j].at <= s.now /\ ran[j] \notin s.held \ {h}
               /\ \A i \in 1..Len(ran) : i < j => ran[i].at <= ran[j].at /\ ran[i] # ran[j]
    <3>1. CASE j \in 1..n
      <4>1. \A i \in 1..Len(ran) : i < j => i \in 1..n
        BY <2>2, <3>1
      <4>. QED BY <2>2, <3>1, <4>1
    <3>2. CASE j = n + 1
      <4>1. \A i \in 1..Len(ran) : i < j => i \in 1..n
        BY <2>2, <3>2
      <4>. QED BY <1>1, <1>9, <2>2, <3>2, <4>1
    <3>. QED BY <2>2, <3>1, <3>2
  <2>. QED BY <1>5, <1>9, <2>2, <2>3 DEF RanRight
<1>14. ClientRight(c)'
  BY <1>1, <1>7, <1>11, <1>12, <1>13 DEF ClientRight
<1>15. CountRight(s.passed, s.counts, s.now)'
  BY <1>3, <1>5
<1>. QED BY <1>6, <1>8, <1>14, <1>15 DEF FloodInv

LEMMA FloodStays == ASSUME FloodInv, Flood!Next \/ UNCHANGED s PROVE FloodInv'
<1>1. CASE UNCHANGED s
  BY <1>1 DEF FloodInv, FloodType, ClientRight, Known, Timed, Spaced, RanRight, WarnedRight, CountRight
<1>2. CASE Flood!Next
  BY <1>2, SendKeeps, RunKeeps, GiveUpKeeps, SetLimitKeeps, ForgetKeeps, TickKeeps DEF Flood!Next
<1>. QED BY <1>1, <1>2

---------------------------------------------------------------------------
(* What the invariant says of the commands. *)

LEMMA LeastNumber ==
  ASSUME NEW S \in SUBSET Nat, S # {}
  PROVE  \E x \in S : \A y \in S : x <= y
<1>1. PICK x \in S : \A y \in S : ~ (<<y, x>> \in OpToRel(<, Nat))
  BY WFMin, NatLessThanWellFounded, Zenon
<1>2. \A y \in S : ~ (y < x)
  BY <1>1 DEF OpToRel
<1>. QED BY <1>2

LEMMA GreatestNumber ==
  ASSUME NEW S \in SUBSET Nat, S # {}, NEW bound \in Nat, \A x \in S : x <= bound
  PROVE  \E x \in S : \A y \in S : y <= x
<1>. DEFINE rest == {bound - x : x \in S}
<1>. \A x \in S : bound - x \in Nat
  OBVIOUS
<1>1. rest \in SUBSET Nat /\ rest # {}
  OBVIOUS
<1>2. PICK r \in rest : \A y \in rest : r <= y
  BY <1>1, LeastNumber
<1>3. PICK x \in S : r = bound - x
  OBVIOUS
<1>4. \A y \in S : bound - x <= bound - y
  BY <1>2, <1>3
<1>. QED BY <1>3, <1>4

\* Different numbers spread over as many.
LEMMA Spread ==
  ASSUME NEW i \in Nat, NEW j \in Nat, i <= j, NEW f \in [i..j -> Nat],
         \A k, m \in i..j : k # m => f[k] # f[m], NEW bound \in Nat, \A k \in i..j : f[k] <= bound
  PROVE  \E k, m \in i..j : f[m] >= f[k] /\ f[m] - f[k] >= j - i
<1>. DEFINE N == {f[k] : k \in i..j}
<1>1. N \in SUBSET Nat /\ N # {} /\ \A x \in N : x <= bound
  OBVIOUS
<1>2. PICK lo \in N : \A y \in N : lo <= y
  BY <1>1, LeastNumber
<1>3. PICK hi \in N : \A y \in N : y <= hi
  BY <1>1, GreatestNumber
<1>4. lo \in Nat /\ hi \in Nat /\ lo <= hi
  BY <1>1, <1>2
<1>5. hi - lo >= j - i
  <2>1. SUFFICES ASSUME hi - lo < j - i PROVE FALSE
    BY <1>4
  <2>2. /\ IsFiniteSet(i..j) /\ Cardinality(i..j) = j - i + 1
        /\ IsFiniteSet(lo..hi) /\ Cardinality(lo..hi) = hi - lo + 1
    BY <1>4, FS_Interval
  <2>3. Cardinality(lo..hi) < Cardinality(i..j)
    BY <1>4, <2>1, <2>2
  <2>4. f \in [i..j -> lo..hi]
    BY <1>1, <1>2, <1>3, <1>4
  <2>5. \E x, y \in i..j : x # y /\ f[x] = f[y]
    BY <2>2, <2>3, <2>4, FS_PigeonHole
  <2>. QED BY <2>5
<1>. QED BY <1>2, <1>3, <1>4, <1>5

LEMMA CommandsSpaced ==
  ASSUME FloodInv, NEW c \in Clients, NEW i \in 1..Len(s.ran[c]), NEW j \in 1..Len(s.ran[c]), i < j
  PROVE  /\ s.ran[c][j].at - s.ran[c][i].at + MaxLead >= Penalty * (j - i)
         /\ s.ran[c][i].at < s.ran[c][j].at => s.ran[c][i].n < s.ran[c][j].n
<1>. DEFINE r == s.ran[c]
            f == [k \in i..j |-> r[k].n]
<1>1. /\ r \in Seq(Orders) /\ Len(r) \in Nat /\ s.sent[c] \in Nat /\ MaxLead \in Nat
      /\ \A k \in 1..Len(r) : r[k] \in Orders
  BY ElementOfSeq, PaceAssumption DEF FloodInv, FloodType
<1>2. /\ \A k \in 1..Len(r) : r[k] \in Known(c)
      /\ \A h \in Known(c) : Timed(c, h)
      /\ \A h, k \in Known(c) : Spaced(h, k)
      /\ \A k, m \in 1..Len(r) : k < m => r[k].at <= r[m].at /\ r[k] # r[m]
  BY DEF FloodInv, ClientRight, RanRight, Known
<1>3. /\ i \in Nat /\ j \in Nat /\ i <= j /\ \A k \in i..j : k \in 1..Len(r)
      /\ i \in 1..Len(r) /\ j \in 1..Len(r)
  BY <1>1
<1>. HIDE DEF r
<1>4. \A k, m \in 1..Len(r) : r[k].n = r[m].n => k = m
  <2>1. SUFFICES ASSUME NEW k \in 1..Len(r), NEW m \in 1..Len(r), r[k].n = r[m].n PROVE k = m
    OBVIOUS
  <2>2. r[k] = r[m]
    BY <1>2, <2>1 DEF Spaced
  <2>3. ~(k < m) /\ ~(m < k)
    BY <1>2, <2>2
  <2>. QED BY <1>1, <2>3
<1>5. \A k \in 1..Len(r) : r[k].n \in Nat /\ r[k].at \in Nat /\ r[k].n <= s.sent[c]
  BY <1>1, <1>2 DEF Orders, Timed
<1>6. r[j].at - r[i].at + MaxLead >= Penalty * (j - i)
  <2>1. /\ f \in [i..j -> Nat] /\ \A k \in i..j : f[k] = r[k].n /\ f[k] <= s.sent[c]
        /\ \A k, m \in i..j : k # m => f[k] # f[m]
    BY <1>3, <1>4, <1>5
  <2>. HIDE DEF f
  <2>2. PICK k \in i..j, m \in i..j : f[m] >= f[k] /\ f[m] - f[k] >= j - i
    BY <1>1, <1>3, <2>1, Spread
  <2>3. r[k].n < r[m].n /\ r[m].n - r[k].n \in Nat /\ j - i \in Nat /\ j - i <= r[m].n - r[k].n
    BY <1>3, <1>5, <2>1, <2>2
  <2>4. r[k].at + Spent(r[m].n - r[k].n) <= r[m].at + MaxLead
    BY <1>2, <1>3, <2>3 DEF Spaced
  <2>5. r[i].at <= r[k].at
    <3>1. i = k \/ i < k
      BY <1>3
    <3>. QED BY <1>2, <1>3, <1>5, <3>1
  <2>6. r[m].at <= r[j].at
    <3>1. m = j \/ m < j
      BY <1>3
    <3>. QED BY <1>2, <1>3, <1>5, <3>1
  <2>7. Spent(j - i) <= Spent(r[m].n - r[k].n)
    BY <2>3, SpentMonotone
  <2>8. Spent(j - i) \in Nat /\ Spent(r[m].n - r[k].n) \in Nat
    BY <2>3, SpentGrows
  <2>9. r[i].at \in Nat /\ r[j].at \in Nat /\ r[k].at \in Nat /\ r[m].at \in Nat
    BY <1>3, <1>5
  <2>10. Spent(j - i) <= r[j].at - r[i].at + MaxLead
    <3>. DEFINE x == Spent(j - i)
                y == Spent(r[m].n - r[k].n)
                ai == r[i].at
                aj == r[j].at
                ak == r[k].at
                am == r[m].at
    <3>1. /\ x \in Nat /\ y \in Nat /\ ai \in Nat /\ aj \in Nat /\ ak \in Nat /\ am \in Nat
          /\ ak + y <= am + MaxLead /\ ai <= ak /\ am <= aj /\ x <= y
      BY <2>4, <2>5, <2>6, <2>7, <2>8, <2>9
    <3>. HIDE DEF x, y, ai, aj, ak, am
    <3>2. x <= aj - ai + MaxLead
      BY <1>1, <3>1
    <3>. QED BY <3>2 DEF x, ai, aj
  <2>. QED BY <2>8, <2>9, <2>10, <1>1 DEF Spent
<1>7. r[i].at < r[j].at => r[i].n < r[j].n
  <2>1. r[i].n \in Nat /\ r[j].n \in Nat /\ r[i].at \in Nat /\ r[j].at \in Nat /\ Spaced(r[j], r[i])
    BY <1>2, <1>3, <1>5
  <2>2. r[j].n = r[i].n => r[i].at = r[j].at
    BY <2>1 DEF Spaced
  <2>3. r[j].n < r[i].n => r[j].at <= r[i].at
    BY <2>1 DEF Spaced
  <2>. QED BY <2>1, <2>2, <2>3
<1>. QED BY <1>6, <1>7 DEF r

LEMMA TwiceAtMost ==
  ASSUME FloodInv, NEW i \in 1..Len(s.passed), NEW j \in 1..Len(s.passed), i <= j,
         s.passed[j].at - s.passed[i].at < FloodWindow
  PROVE  \E k \in i..j : j - i + 1 <= 2 * s.passed[k].limit
<1>. DEFINE p == s.passed
<1>1. /\ Len(p) \in Nat /\ FloodWindow \in Nat
      /\ \A k \in 1..Len(p) : p[k] \in Marks
  BY ElementOfSeq, PaceAssumption DEF FloodInv, FloodType
<1>2. /\ \A k, m \in 1..Len(p) : k <= m => p[k].at <= p[m].at
      /\ \A m \in 1..Len(p) : \E b \in 1..m : m - b + 1 <= p[m].limit /\ \E a \in 1..b : Windows(p, a, b)
  BY DEF FloodInv, CountRight
<1>3. \A k \in 1..Len(p) : p[k].at \in Nat /\ p[k].limit \in Nat
  BY <1>1 DEF Marks
<1>. HIDE DEF p
<1>4. PICK b \in 1..j : j - b + 1 <= p[j].limit /\ \E a \in 1..b : Windows(p, a, b)
  BY <1>2 DEF p
<1>5. PICK a \in 1..b : Windows(p, a, b)
  BY <1>4
<1>6. p[j].at - p[i].at < FloodWindow /\ i \in 1..Len(p) /\ j \in 1..Len(p)
  BY DEF p
<1>7. /\ b \in 1..Len(p) /\ a \in 1..Len(p) /\ i \in Nat /\ j \in Nat /\ a \in Nat /\ b \in Nat
      /\ a <= b /\ b <= j
  BY <1>1, <1>4, <1>5, <1>6
<1>8. CASE i >= b
  <2>1. j - i + 1 <= 2 * p[j].limit
    BY <1>3, <1>4, <1>6, <1>7, <1>8
  <2>. QED BY <1>6, <2>1 DEF p
<1>9. CASE a <= i /\ i < b
  <2>1. b - 1 \in i..j /\ b - 1 \in 1..Len(p) /\ b > 1
    BY <1>1, <1>6, <1>7, <1>9
  <2>2. b - a <= p[b - 1].limit
    BY <1>5, <2>1 DEF Windows
  <2>. DEFINE x == p[j].limit
              y == p[b - 1].limit
  <2>3. x \in Nat /\ y \in Nat /\ b - a <= y /\ j - b + 1 <= x
    BY <1>3, <1>4, <1>6, <2>1, <2>2
  <2>. HIDE DEF x, y
  <2>4. j - i + 1 <= x + y
    BY <1>7, <1>9, <2>3
  <2>5. j - i + 1 <= 2 * x \/ j - i + 1 <= 2 * y
    BY <1>7, <2>3, <2>4
  <2>6. j \in i..j
    BY <1>7
  <2>. QED BY <2>1, <2>5, <2>6 DEF p, x, y
<1>10. CASE i < a
  <2>1. a > 1 /\ a - 1 \in 1..Len(p) /\ i <= a - 1
    BY <1>1, <1>6, <1>7, <1>10
  <2>2. p[a - 1].at + FloodWindow <= p[b].at
    BY <1>5, <2>1 DEF Windows
  <2>3. p[i].at <= p[a - 1].at /\ p[b].at <= p[j].at
    BY <1>2, <1>6, <1>7, <2>1
  <2>4. p[i].at \in Nat /\ p[j].at \in Nat /\ p[b].at \in Nat /\ p[a - 1].at \in Nat
    BY <1>3, <1>6, <1>7, <2>1
  <2>. DEFINE ai == p[i].at
              aj == p[j].at
              ab == p[b].at
              aa == p[a - 1].at
  <2>5. /\ ai \in Nat /\ aj \in Nat /\ ab \in Nat /\ aa \in Nat
        /\ aa + FloodWindow <= ab /\ ai <= aa /\ ab <= aj /\ aj - ai < FloodWindow
    BY <1>6, <2>2, <2>3, <2>4
  <2>. HIDE DEF ai, aj, ab, aa
  <2>. QED BY <1>1, <2>5
<1>. QED BY <1>6, <1>7, <1>8, <1>9, <1>10

LEMMA RefusesWhenFull == ASSUME FloodInv PROVE Flood!FullOfRecent
<1>1. SUFFICES ASSUME Flood!Full
               PROVE  \E i \in 1..Len(s.passed) : /\ Len(s.passed) - i + 1 >= s.limit
                                                  /\ s.now - s.passed[i].at < FloodWindow
  BY DEF Flood!FullOfRecent
<1>2. /\ s.counts.open /\ s.now - s.counts.openedAt < FloodWindow
      /\ s.limit \in Nat /\ s.counts.messages >= s.limit /\ Len(s.passed) \in Nat
  BY <1>1, FullIsOpen DEF FloodInv, FloodType
<1>. DEFINE b == Len(s.passed) - s.counts.messages + 1
<1>3. s.counts.messages \in 1..Len(s.passed) /\ s.passed[b].at = s.counts.openedAt
  BY <1>2 DEF FloodInv, CountRight
<1>4. b \in 1..Len(s.passed) /\ Len(s.passed) - b + 1 = s.counts.messages
  BY <1>2, <1>3
<1>. HIDE DEF b
<1>. QED BY <1>2, <1>3, <1>4

---------------------------------------------------------------------------
(* The theorems *)

PaceInv == (part = "flood" => FloodInv) /\ (part = "poke" => PokeInv)

LEMMA PaceInvHolds == PaceSpec => []PaceInv
<1>1. PaceInit => PaceInv
  BY FloodStarts, PokeStarts DEF PaceInit, PaceInv
<1>2. PaceInv /\ [PaceNext]_<<part, s>> => PaceInv'
  BY FloodStays, PokeStays DEF PaceInv, PaceNext
<1>. QED BY <1>1, <1>2, PTL DEF PaceSpec

(* Flood control and pokes keep their pace for any penalty, lead, window, limits and
   cap, any number of clients, channels and commands and for any length of time: a
   client's commands come to the loop in order and at their rate (penaltyTimer.charge),
   with one warning; a +f channel relays at most twice its limit in a window's length,
   and refuses only what is beyond it (channelFlood.countMessage); and a quiet channel
   waits for its poke less than the cap, ever longer (pokeBackoff.due). *)
THEOREM PaceKept == PaceSpec => []KeepsPace
<1>1. FloodInv => Flood!Paced /\ Flood!KeepsOrder
  BY CommandsSpaced DEF Flood!Paced, Flood!KeepsOrder
<1>2. FloodInv => Flood!WarnedOnce
  BY DEF FloodInv, ClientRight, WarnedRight, Flood!WarnedOnce
<1>3. FloodInv => Flood!TwiceTheLimit
  BY TwiceAtMost DEF Flood!TwiceTheLimit
<1>4. FloodInv => Flood!FullOfRecent
  BY RefusesWhenFull
<1>5. PokeInv => Poke!PokedByTheCap /\ Poke!Widens
  BY PokesInTime
<1>6. PaceInv => KeepsPace
  BY <1>1, <1>2, <1>3, <1>4, <1>5 DEF PaceInv, KeepsPace
<1>. QED BY <1>6, PaceInvHolds, PTL
=============================================================================
