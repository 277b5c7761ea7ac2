------------------------------ MODULE Summary ------------------------------
(* The context of a model's turns in one window: the transcript its client
   keeps, and the summary that replaces the oldest lines in the store when a
   request would not fit (src/internal/modelclient/context_compaction.go,
   src/internal/store/context_summary.go). A turn reads the summary under its guard,
   cuts what it covers, and summarises or drops more while the window may be left
   and entered again.

   A line is its time; lines are read in order, a reply of the model's own is filed
   at once. *)
EXTENDS Naturals, Sequences, SequencesExt

CONSTANTS
  Ring,            \* modelHistorySize
  Retention,       \* contextSummarySourceRetention
  PromptLimit,     \* what a request holds, in units of a short line or summary
  SummaryLimit,    \* what a request for a summary holds
  MaxRounds,       \* maxContextSummaryRounds
  Long,            \* lines of three units
  SummarySizes,    \* the lengths a provider's summary may have
  MaxTime, MaxReplies, MaxStays  \* bounds

VARIABLE s  \* the whole state, a record:
  \* now: the time; unread: lines on their way to the loop
  \* stay, member: the membership, counted; left: its end is not read yet
  \* hist, replies: the two rings of the window
  \* batch: the burst that waits for its turn, or NoBatch
  \* sum: the stored summary and its sources; told: history, the lines its text recounts
  \* turn: the turn under way, or NoTurn
  \* said: history, replies so far; committed: history, lines committed in this stay
  \* twice: history, a line was committed again; dropped: history, lines of this stay
  \*   a turn dropped unsummarised

NoSummary == [on |-> FALSE, id |-> 0, src |-> <<>>, size |-> 0, stay |-> 0]
NoBatch == [on |-> FALSE, hist |-> <<>>, replies |-> <<>>, events |-> <<>>, retried |-> FALSE]
NoTurn == [pc |-> "none", batch |-> NoBatch, raw |-> <<>>, sum |-> NoSummary, told |-> {},
           stay |-> 0, rounds |-> 0, trips |-> 0, size |-> 0]

Init ==
  s = [now |-> 0, unread |-> <<>>, stay |-> 1, member |-> TRUE, left |-> FALSE,
       hist |-> <<>>, replies |-> <<>>, batch |-> NoBatch, sum |-> NoSummary, told |-> {},
       turn |-> NoTurn, said |-> 0, committed |-> {}, twice |-> FALSE, dropped |-> {}]
---------------------------------------------------------------------------
Latest(q, n) == SubSeq(q, Len(q) - (IF Len(q) < n THEN Len(q) ELSE n) + 1, Len(q))
Ordered(q) == SetToSortSeq(ToSet(q), <)

(* The sizes of requests. *)
Size(i) == IF i \in Long THEN 3 ELSE 1
SizeOf(q) == Len(q) + 2 * Len(SelectSeq(q, LAMBDA i : i \in Long))
After(q, k) == SubSeq(q, k + 1, Len(q))

Fits(t) == SizeOf(t.raw) + t.sum.size <= PromptLimit

(* contextPrefixNeeded: the least prefix that one summary may replace. *)
FitsWithout(t, k) == SizeOf(After(t.raw, k)) + 1 <= PromptLimit
Wanted(t) == CHOOSE k \in 1..Len(t.raw) :
               /\ FitsWithout(t, k) \/ k = Len(t.raw)
               /\ \A j \in 1..k - 1 : ~FitsWithout(t, j)
Sufficient(t) == t.raw # <<>> /\ FitsWithout(t, Len(t.raw))

(* contextSummaryBatch: what of it one request for a summary holds, at least a line,
   and the round trips that takes: a line too long is sent in fragments. *)
Asks(t, k) == SizeOf(SubSeq(t.raw, 1, k)) + t.sum.size <= SummaryLimit
Prefix(t) ==
  LET fit == {k \in 1..Wanted(t) : Asks(t, k)} IN
  IF fit = {} THEN 1 ELSE CHOOSE k \in fit : \A j \in fit : j <= k

Trips(t) ==
  IF Asks(t, Prefix(t)) THEN 1
  ELSE IF t.sum.size >= SummaryLimit THEN MaxRounds + 1
  ELSE 1 + (Size(Head(t.raw)) - 1) \div (SummaryLimit - 1)

(* summarizedPrefix: the longest tail of the sources the transcript and the burst
   begin with. *)
Overlap(src, raw) ==
  LET n == {k \in 1..Len(src) : k <= Len(raw) /\ Latest(src, k) = SubSeq(raw, 1, k)} IN
  IF n = {} THEN 0 ELSE CHOOSE k \in n : \A j \in n : j <= k

RecentOnly(src, recent, events) == Overlap(src, recent)
Summarized(src, recent, events) == Overlap(src, recent \o events)

(* renderTurnHistory: both rings, by time *)
Recent(b) == Ordered(b.hist \o b.replies)
---------------------------------------------------------------------------
(* The window. *)

Say == /\ s.member /\ s.now < MaxTime
       /\ s' = [s EXCEPT !.now = @ + 1, !.unread = Append(@, s.now + 1)]

Opened == [NoBatch EXCEPT !.on = TRUE, !.hist = s.hist, !.replies = s.replies]

(* The loop reads between turns: the line is filed, and joins the burst; a batch
   that waits for its second attempt gives way to that of the new burst. *)
Read ==
  /\ s.turn.pc = "none" /\ s.unread # <<>> /\ ~s.left
  /\ LET i == Head(s.unread)
         b == IF s.batch.on /\ ~s.batch.retried THEN s.batch
              ELSE [Opened EXCEPT !.retried = s.batch.retried] IN
     s' = [s EXCEPT !.unread = Tail(@), !.hist = Latest(Append(@, i), Ring),
                    !.batch = [b EXCEPT !.events = Append(@, i)]]

(* A reply to the model, in a turn's tools or in its own commands. *)
Reply ==
  /\ s.turn.pc = "send" /\ s.said < MaxReplies /\ s.now < MaxTime
  /\ s' = [s EXCEPT !.now = @ + 1, !.said = @ + 1,
                    !.replies = Latest(Append(@, s.now + 1), Ring)]

(* CommitChannelDeparture and resetChannelJoinContext end the rows of the window. *)
Leave ==
  /\ s.member /\ s.stay <= MaxStays
  /\ s' = [s EXCEPT !.member = FALSE, !.left = TRUE, !.unread = <<>>, !.sum = NoSummary,
                    !.told = {}, !.committed = {}, !.twice = FALSE, !.dropped = {}]
Enter ==
  /\ ~s.member /\ ~s.left
  /\ s' = [s EXCEPT !.member = TRUE, !.stay = @ + 1, !.sum = NoSummary, !.told = {},
                    !.committed = {}, !.twice = FALSE, !.dropped = {}]
ReadLeave ==
  /\ s.turn.pc = "none" /\ s.left
  /\ s' = [s EXCEPT !.left = FALSE, !.hist = <<>>, !.replies = <<>>, !.batch = NoBatch]

HoldsAny(t) == TRUE
Holds(t) == s.member /\ s.stay = t.stay
---------------------------------------------------------------------------
(* The turn. *)

Ended(again) ==
  LET b == s.turn.batch IN
  [s EXCEPT !.turn = NoTurn,
            !.batch = IF again /\ ~b.retried THEN [b EXCEPT !.retried = TRUE] ELSE NoBatch]

(* ContextSummaries: the row of the window, with the sources of its range. *)
ContextSummaries == s.sum

(* captureWindowGuard, the guard's read of the summary, and the plan's first cut. *)
Begin ==
  /\ s.turn.pc = "none" /\ s.batch.on /\ s.member
  /\ LET b == s.batch
         sum == ContextSummaries
         k == IF sum.on THEN Summarized(sum.src, Recent(b), b.events) ELSE 0 IN
     s' = [s EXCEPT
       !.batch = NoBatch,
       !.turn = [NoTurn EXCEPT !.pc = "plan", !.batch = b, !.stay = s.stay,
                   !.raw = After(Recent(b) \o b.events, k), !.sum = sum, !.told = s.told,
                   !.rounds = MaxRounds]]

Planning == s.turn.pc = "plan"
Plan == Planning /\ Fits(s.turn) /\ s' = [s EXCEPT !.turn.pc = "send"]

(* ContextWindowExceededError: nothing that is left to replace would do. *)
Exceeded ==
  /\ Planning /\ ~Fits(s.turn) /\ ~Sufficient(s.turn)
  /\ \E again \in BOOLEAN : s' = Ended(again)

Compacts == Planning /\ ~Fits(s.turn) /\ Sufficient(s.turn)

(* The provider's summary, which tells what it was given. *)
PreviousUnread(t) == {}
Previous(t) == t.told

Summarise ==
  /\ Compacts /\ Trips(s.turn) <= s.turn.rounds
  /\ \E size \in SummarySizes :
       s' = [s EXCEPT !.turn.pc = "commit", !.turn.size = size,
                      !.turn.rounds = @ - Trips(s.turn), !.turn.trips = @ + Trips(s.turn),
                      !.turn.told = Previous(s.turn) \cup ToSet(SubSeq(s.turn.raw, 1, Prefix(s.turn)))]

(* The summary fails, after none, some or all of its round trips: the prefix goes
   without it. *)
SpentBy(t) == 0..(IF Trips(t) > t.rounds THEN t.rounds ELSE Trips(t))
Drop ==
  /\ Compacts
  /\ \E k \in SpentBy(s.turn) :
       s' = [s EXCEPT !.turn.raw = After(@, Prefix(s.turn)), !.turn.rounds = @ - k,
                      !.turn.trips = @ + k,
                      !.dropped = IF Holds(s.turn)
                                  THEN @ \cup ToSet(SubSeq(s.turn.raw, 1, Prefix(s.turn))) ELSE @]

(* CommitContextSummary under the guard. The one transaction adds the sources, puts
   the summary in the place of those the turn knows, and trims the sources. *)
Source(t) == SubSeq(t.raw, 1, Prefix(t))
KeptRing(src) == Latest(src, Ring)
Kept(src) == Latest(src, Retention)
Commit ==
  /\ s.turn.pc = "commit" /\ Holds(s.turn) /\ s.turn.sum.id = s.sum.id
  /\ LET t == s.turn
         new == [on |-> TRUE, id |-> s.sum.id + 1, src |-> Kept(s.sum.src \o Source(t)),
                 size |-> t.size, stay |-> t.stay] IN
     s' = [s EXCEPT !.sum = new, !.told = t.told,
                    !.turn.pc = "plan", !.turn.sum = new, !.turn.raw = After(@, Prefix(t)),
                    !.twice = @ \/ ToSet(Source(t)) \cap s.committed # {},
                    !.committed = @ \cup ToSet(Source(t))]
Refused ==
  /\ s.turn.pc = "commit" /\ ~(Holds(s.turn) /\ s.turn.sum.id = s.sum.id)
  /\ s' = Ended(FALSE)

(* The store fails, the turn is cancelled, or the provider answers or fails. *)
End == s.turn.pc # "none" /\ \E again \in BOOLEAN : s' = Ended(again)

Next ==
  \/ Say \/ Read \/ Reply \/ Leave \/ Enter \/ ReadLeave
  \/ Begin \/ Plan \/ Exceeded \/ Summarise \/ Drop \/ Commit \/ Refused \/ End
---------------------------------------------------------------------------
(* Properties *)

(* A request leaves no line of its transcript out silently: what it does not show
   is recounted by the summary it shows, or was dropped for want of one, whatever
   was cut, summarised, superseded and trimmed before. *)
Recollects ==
  s.turn.pc = "send" /\ Holds(s.turn) =>
    LET b == s.turn.batch IN
    ToSet(b.hist \o b.replies \o b.events)
      \subseteq ToSet(s.turn.raw) \cup (IF s.turn.sum.on THEN s.told ELSE {}) \cup s.dropped

(* While every compaction of the membership succeeded and the model has not replied in
   the window, no line is summarised and committed a second time: retries and later
   turns begin where the summary ends. Once a compaction failed or a reply was filed
   lines are committed twice, so nothing is claimed of that case: see NeverTwice. *)
NothingTwice == s.dropped = {} /\ s.said = 0 => ~s.twice

(* What the code means: a plan begins where the summary ends, since otherwise "the next
   compaction would summarise and commit them a second time" (context_summary.go:60). It
   does not hold: a batch dropped for want of a summary, or a reply filed among the lines,
   parts the sources from the transcript, and the overlap found is none. *)
NeverTwice == ~s.twice

(* A stored summary was committed under the membership that is: what a turn of an
   earlier one has still to commit is refused, and what it had is gone. *)
OfThisStay == s.sum.on => s.member /\ s.sum.stay = s.stay

(* "the worst case for one dispatch stays a fixed number of calls" *)
RoundsBounded == s.turn.trips <= MaxRounds
=============================================================================
