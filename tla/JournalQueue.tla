---------------------------- MODULE JournalQueue ----------------------------
(* The turn journal of one model client
   (src/internal/modelclient/turn_journal_queue.go): the dispatch goroutine hands
   entries over without waiting, a consumer writes them, each under the turn's
   guard, and Wait joins the one and then the other. *)
EXTENDS Naturals, Sequences, FiniteSets, SequencesExt

CONSTANTS
  Depth,       \* journalQueueDepth
  Retained,    \* modelTurnRetentionHeadroom
  MaxTurns, MaxEntries  \* bounds: turns, and entries of each

VARIABLE s  \* the whole state, a record:
  \* turn, seq: the turn that is running, and turnJournalWriter.seq
  \* loop: "up" or "exited"
  \* q: the channel writes, of [turn, seq]; sequence number 0 begins a turn
  \* running, closed, stopped: the fields of journalQueue
  \* turns: journalTurn of each, "new" without a recorder, "open", "failed" or "closed"
  \* rows: model_turn_entries in the order they were written
  \* lost: the authority the turns up to this one ran under has ended
  \* dropped: what the queue had no room for; failed: what the log reports; cut: history,
  \*   rows that went with their window or by retention
  \* made: history, the entries the turns made; crashed: history, an entry was sent on the closed channel

Init ==
  s = [turn |-> 0, seq |-> 0, loop |-> "up", q |-> <<>>, running |-> FALSE, closed |-> FALSE,
       stopped |-> FALSE, turns |-> [t \in 1..MaxTurns |-> "new"], rows |-> <<>>,
       lost |-> 0, dropped |-> {}, failed |-> {}, cut |-> {}, made |-> {},
       crashed |-> FALSE]

Write(t, n) == [turn |-> t, seq |-> n]
---------------------------------------------------------------------------
(* The dispatch goroutine. *)

NextTurn ==
  /\ s.loop = "up" /\ s.turn < MaxTurns
  /\ s' = [s EXCEPT !.turn = @ + 1, !.seq = 0]

(* recordRequest, request, assistant, toolResults, outcome: enqueue starts the
   consumer, and drops what does not fit. *)
HasRoom == Len(s.q) < Depth
Enqueue ==
  /\ s.loop = "up" /\ s.turn > 0 /\ s.seq < MaxEntries
  /\ LET e == Write(s.turn, s.seq) IN
     s' = [s EXCEPT !.running = TRUE, !.seq = @ + 1, !.made = @ \cup {e}, !.crashed = @ \/ s.closed,
                    !.q = IF HasRoom THEN Append(@, e) ELSE @,
                    !.dropped = IF HasRoom THEN @ ELSE @ \cup {e}]

(* Release ends the loop, which finishes the turn it is in. *)
Exit == s.loop = "up" /\ s' = [s EXCEPT !.loop = "exited"]
---------------------------------------------------------------------------
(* The consumer. *)

Rows(t) == {i \in DOMAIN s.rows : s.rows[i].turn = t}
InStore(t) == \E i \in DOMAIN s.rows : s.rows[i] = Write(t, 0)
Taken == [s EXCEPT !.q = Tail(@)]

TurnIds(rows) == {rows[i].turn : i \in DOMAIN rows}
NewestBefore(rows) ==
  {u \in TurnIds(rows) : Cardinality({v \in TurnIds(rows) : v > u}) + 1 < Retained}
Newest(rows) ==
  {u \in TurnIds(rows) : Cardinality({v \in TurnIds(rows) : v > u}) < Retained}

\* admit: the turn's row and first entry, and the retention pass, in one transaction
Admit(e) ==
  \/ /\ e.turn > s.lost
     /\ LET rows == Append(s.rows, e)
            kept == SelectSeq(rows, LAMBDA r : r.turn \in Newest(rows)) IN
        s' = [Taken EXCEPT !.turns[e.turn] = "open", !.rows = kept,
                           !.cut = @ \cup (ToSet(rows) \ ToSet(kept))]
  \/ s' = [Taken EXCEPT !.turns[e.turn] = "failed", !.failed = @ \cup {e}]

\* perform
Skip(e) == s.turns[e.turn] # "open" /\ s' = Taken
AppendEntry(e) ==
  /\ s.turns[e.turn] = "open"
  /\ \/ /\ e.turn > s.lost /\ InStore(e.turn)
        /\ s' = [Taken EXCEPT !.rows = Append(@, e)]
     \/ /\ ~(e.turn > s.lost /\ InStore(e.turn))
        /\ s' = [Taken EXCEPT !.turns[e.turn] = "closed", !.failed = @ \cup {e}]
     \/ s' = [Taken EXCEPT !.failed = @ \cup {e}]

AdmitLate(e) == IF e.seq = 0 \/ s.turns[e.turn] = "new" THEN Admit(e) ELSE Skip(e) \/ AppendEntry(e)
PerformOne(e) == IF e.seq = 0 THEN Admit(e) ELSE Skip(e) \/ AppendEntry(e)
Perform == s.running /\ s.q # <<>> /\ PerformOne(Head(s.q))

RunEnds == s.running /\ s.closed /\ s.q = <<>> /\ ~s.stopped /\ s' = [s EXCEPT !.stopped = TRUE]

(* Wait: the loop is joined, then stop closes the queue, which a second call finds
   closed. *)
JoinedNone == TRUE
Joined == s.loop = "exited"
Stop ==
  /\ Joined /\ ~s.closed
  /\ s' = [s EXCEPT !.closed = TRUE, !.stopped = ~s.running]

(* The model's membership ends, and with it the authority of its turns; entering
   the window again deletes them. *)
Lose == s.lost < s.turn /\ s' = [s EXCEPT !.lost = s.turn]

Reset ==
  LET gone == SelectSeq(s.rows, LAMBDA r : r.turn <= s.lost) IN
  /\ gone # <<>>
  /\ s' = [s EXCEPT !.rows = SelectSeq(@, LAMBDA r : r.turn > s.lost), !.cut = @ \cup ToSet(gone)]

Next == NextTurn \/ Enqueue \/ Exit \/ Perform \/ RunEnds \/ Stop \/ Lose \/ Reset
---------------------------------------------------------------------------
(* Properties *)

(* The rows of the journal are in the order the turns and their entries were made,
   and every turn it has begins with its request. *)
JournalInOrder ==
  /\ \A i, j \in DOMAIN s.rows : i < j =>
       \/ s.rows[i].turn < s.rows[j].turn
       \/ s.rows[i].turn = s.rows[j].turn /\ s.rows[i].seq < s.rows[j].seq
  /\ \A i \in DOMAIN s.rows : InStore(s.rows[i].turn)

(* "what tells an operator that a turn's record has a hole in it": when all is
   written, an entry is missing only of a turn of which the queue dropped one, or the
   log reports one, or that went with its window or by retention; and nobody sends
   on the closed queue. *)
HolesTold ==
  /\ ~s.crashed
  /\ s.stopped =>
       \A e \in s.made :
         \/ e \in ToSet(s.rows) \cup s.cut \cup s.dropped \cup s.failed
         \/ Write(e.turn, 0) \in s.dropped
         \/ \E f \in s.failed : f.turn = e.turn /\ f.seq <= e.seq

(* Retention does not end a turn that is still being written: it is closed only when
   its window is gone. *)
ClosedByLossOnly == \A t \in 1..MaxTurns : s.turns[t] = "closed" => t <= s.lost
=============================================================================
