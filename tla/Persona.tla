------------------------------ MODULE Persona ------------------------------
(* The stored persona of one model instance (src/internal/store): the inbox of
   events it has seen, the lineage pointer with its checkpoint into the inbox,
   the tree of revisions, the experiences and amendments the revisions name,
   and the log of pointer moves. Each action is one SQLite transaction.

   A revision's description is a model value, an experience is the events it
   cites and what its salience is computed from. Row ids are what SQLite gives
   an INTEGER PRIMARY KEY without AUTOINCREMENT: one more than the largest id
   in the table, so the id of a pruned last row is given again. `born` is
   history: it tells such experiences apart. *)
EXTENDS Naturals, Sequences, FiniteSets, SequencesExt, FiniteSetsExt

CONSTANTS
  None,
  Descriptions,        \* the descriptions an operator or a model writes
  Baseline,            \* the description of revision zero
  MaxEvents,           \* bound: events appended
  MaxRevisions,        \* bound: revisions
  MaxBorn,             \* bound: experiences ever inserted
  Page,                \* reflectionInputEventLimit
  InboxHeadroom,       \* reflectionEventRetentionHeadroom
  ExperienceHeadroom,  \* experienceRetentionHeadroom
  TransitionHeadroom,  \* personaTransitionRetentionHeadroom
  HighBoost            \* how much longer a confident experience stays salient

ASSUME PersonaAssumption == {Page, InboxHeadroom, TransitionHeadroom} \subseteq Nat

VARIABLES
  lineage,     \* None, or the current revision and the checkpoint
  inbox,       \* reflection_events: sequence -> time of the event
  revisions,   \* persona_revisions with their links, by id
  experiences, \* persona_experiences with their sources, by id
  amendments,  \* persona_amendments with their evidence, by id
  transitions, \* persona_transitions that retention has kept
  committed,   \* history: the runs that moved the checkpoint
  trimmed,     \* history: the events that trimming removed
  births       \* history: how many experiences were inserted

persona == <<lineage, revisions, experiences, amendments, transitions, committed, births>>
store == <<persona, inbox, trimmed>>

MaxOf(S) == Max(S \cup {0})
Existing == lineage # None
---------------------------------------------------------------------------
(* The inbox. *)

Cited == UNION {experiences[e].sources : e \in DOMAIN experiences}

\* trimReflectionEventsTx: the newest uncited events and every cited one stay.
Trimmed(box, cited) ==
  {n \in DOMAIN box \ cited :
     Cardinality({m \in DOMAIN box \ cited : m > n}) >= InboxHeadroom}

\* AppendReflectionEvents of one candidate, at a time not before the last one.
AppendEvent(gap) ==
  LET n == MaxOf(DOMAIN inbox) + 1
      at == (IF n = 1 THEN 0 ELSE inbox[n - 1]) + gap
      box == [m \in DOMAIN inbox \cup {n} |-> IF m = n THEN at ELSE inbox[m]]
      out == Trimmed(box, Cited)
  IN
  /\ Existing /\ n <= MaxEvents
  /\ inbox' = [m \in DOMAIN box \ out |-> box[m]]
  /\ trimmed' = trimmed \cup out
  /\ UNCHANGED persona

(* PendingReflectionSnapshot: one read-only transaction. *)
Pending == {n \in DOMAIN inbox : n > lineage.checkpoint}
PageOf(S) == {n \in S : Cardinality({m \in S : m < n}) < Page}

Through(page) == MaxOf(page \cup {lineage.checkpoint})

OfferedEver == DOMAIN amendments
Offered == revisions[lineage.current].amendments

Snapshot ==
  [base |-> lineage.current,
   prior |-> lineage.checkpoint,
   high |-> Through(PageOf(Pending)),
   events |-> [n \in PageOf(Pending) |-> inbox[n]],
   active |-> Offered,
   held |-> [e \in revisions[lineage.current].experiences |-> experiences[e].born],
   substantive |-> Cardinality(Pending)]
---------------------------------------------------------------------------
(* CommitPersonaReflection. An acceptance drafts at most one experience, an
   amendment that cites it, and removals of amendments. *)

SamePointer(a) == lineage.current = a.base
SameCheckpoint(a) == lineage.checkpoint = a.prior
Unmoved(a) == SamePointer(a) /\ SameCheckpoint(a)

Removed(a) == a.retract \cup a.consolidate \cup ({a.supersedes} \ {None})
SourceMissing(a) == \E x \in a.drafts : ~ x.sources \subseteq DOMAIN inbox

\* What the transaction refuses for other reasons than a race.
Refused(a) ==
  \/ a.high < a.prior
  \/ \E x \in a.drafts :
       x.sources = {} \/ \E n \in x.sources : n <= a.prior \/ n > a.high
  \/ a.amends /\ a.drafts = {}
  \/ ~ Removed(a) \subseteq revisions[a.base].amendments

Salience(x) == x.cited + (IF x.high THEN HighBoost ELSE 0)
Now == Len(committed) + 1
NewExperience == MaxOf(DOMAIN experiences) + 1
NewAmendment == Len(amendments) + 1

\* insertPersonaExperiencesTx and refreshRecalledSalienceTx
ExperiencesAfter(a) ==
  [e \in DOMAIN experiences \cup (IF a.drafts = {} THEN {} ELSE {NewExperience}) |->
     IF e \notin DOMAIN experiences
     THEN LET x == CHOOSE d \in a.drafts : TRUE
          IN [sources |-> x.sources, high |-> x.high, cited |-> Now, born |-> births + 1]
     ELSE IF experiences[e].sources \cap a.recalled # {}
          THEN [experiences[e] EXCEPT !.cited = Now]
          ELSE experiences[e]]

\* insertPersonaAmendmentsTx and the departures nextRevisionAmendmentsTx writes
AmendmentsAfter(a) ==
  LET kept == [i \in DOMAIN amendments |->
                 IF i \in Removed(a) THEN [amendments[i] EXCEPT !.departed = TRUE]
                 ELSE amendments[i]]
  IN IF a.amends
     THEN Append(kept, [evidence |-> NewExperience, born |-> births + 1, departed |-> FALSE])
     ELSE kept

Rewrites(a) == a.description \notin {None, revisions[a.base].description}
NothingNew(a) == a.drafts = {} /\ Removed(a) = {} /\ ~a.amends /\ ~Rewrites(a)

\* nextPersonaRevisionTx
RevisionAfter(a) ==
  LET parent == revisions[a.base]
      new == IF a.drafts = {} THEN {} ELSE {NewExperience}
  IN [parent |-> a.base,
      description |-> IF Rewrites(a) THEN a.description ELSE parent.description,
      described |-> IF Rewrites(a) THEN new ELSE parent.described,
      experiences |-> parent.experiences \cup new,
      amendments |-> (parent.amendments \ Removed(a))
                     \cup (IF a.amends THEN {NewAmendment} ELSE {})]

Commit(a) ==
  /\ Existing /\ Unmoved(a) /\ ~SourceMissing(a) /\ ~Refused(a)
  /\ IF NothingNew(a)
     THEN /\ lineage' = [lineage EXCEPT !.checkpoint = a.high]
          /\ UNCHANGED <<revisions, amendments, transitions, births>>
     ELSE /\ Len(revisions) < MaxRevisions
          /\ births + Cardinality(a.drafts) <= MaxBorn
          /\ revisions' = Append(revisions, RevisionAfter(a))
          /\ lineage' = [current |-> Len(revisions) + 1, checkpoint |-> a.high]
          /\ transitions' = Append(transitions, [from |-> a.base, to |-> Len(revisions) + 1])
          /\ amendments' = AmendmentsAfter(a)
          /\ births' = births + Cardinality(a.drafts)
  /\ experiences' = ExperiencesAfter(a)
  /\ committed' = Append(committed, [prior |-> a.prior, high |-> a.high, read |-> a.read])
  /\ UNCHANGED <<inbox, trimmed>>

Loses(a) == Existing => ~Unmoved(a) \/ SourceMissing(a)
---------------------------------------------------------------------------
(* The operator's moves. expected is the revision the command read before. *)

Ancestors[r \in 0..MaxRevisions] ==
  IF r = 0 THEN {} ELSE {r} \cup Ancestors[revisions[r].parent]
Zero == Min({r \in DOMAIN revisions : revisions[r].parent = 0})

Moves(expected, target) ==
  /\ Existing /\ lineage.current = expected
  /\ lineage' = [lineage EXCEPT !.current = target]
  /\ transitions' = Append(transitions, [from |-> expected, to |-> target])

ResetPersona(expected) ==
  /\ Moves(expected, Zero)
  /\ UNCHANGED <<inbox, trimmed, revisions, experiences, amendments, committed, births>>

RollbackPersona(expected, target) ==
  /\ target \in Ancestors[expected]
  /\ Moves(expected, target)
  /\ UNCHANGED <<inbox, trimmed, revisions, experiences, amendments, committed, births>>

\* WritePersonaDescription: the parent's experiences and amendments, no evidence.
WritePersonaDescription(expected, description) ==
  /\ Existing /\ lineage.current = expected
  /\ description # revisions[expected].description
  /\ Len(revisions) < MaxRevisions
  /\ revisions' = Append(revisions,
       [revisions[expected] EXCEPT !.parent = expected, !.description = description,
                                   !.described = {}])
  /\ Moves(expected, Len(revisions) + 1)
  /\ UNCHANGED <<inbox, trimmed, experiences, amendments, committed, births>>
---------------------------------------------------------------------------
(* Retention and deletion. *)

EvidenceOfCurrent ==
  {amendments[i].evidence : i \in revisions[lineage.current].amendments}
    \cup revisions[lineage.current].described
Evidence ==
  {amendments[i].evidence : i \in DOMAIN amendments}
    \cup UNION {revisions[r].described : r \in DOMAIN revisions}

\* prunableExperiencesTx: past the headroom by salience, newest id first.
Outranks(d, e) ==
  \/ Salience(experiences[d]) > Salience(experiences[e])
  \/ Salience(experiences[d]) = Salience(experiences[e]) /\ d > e
Prunable ==
  LET ranked == DOMAIN experiences \ Evidence
  IN {e \in ranked : Cardinality({d \in ranked : Outranks(d, e)}) >= ExperienceHeadroom}

PruneExperiences ==
  /\ Existing /\ Prunable # {}
  /\ experiences' = [e \in DOMAIN experiences \ Prunable |-> experiences[e]]
  /\ revisions' = [r \in DOMAIN revisions |->
       [revisions[r] EXCEPT !.experiences = @ \ Prunable]]
  /\ UNCHANGED <<inbox, trimmed, lineage, amendments, transitions, committed, births>>

PruneTransitions ==
  /\ Len(transitions) > TransitionHeadroom
  /\ transitions' = SubSeq(transitions, Len(transitions) - TransitionHeadroom + 1,
                           Len(transitions))
  /\ UNCHANGED <<inbox, trimmed, lineage, revisions, experiences, amendments, committed, births>>

\* commitInstanceDeletionTx: every row of the instance goes with it.
DeleteRows ==
  /\ Existing
  /\ lineage' = None
  /\ revisions' = <<>> /\ amendments' = <<>> /\ transitions' = <<>>
  /\ experiences' = <<>> /\ inbox' = <<>>
  /\ UNCHANGED <<trimmed, committed, births>>

\* ensurePersonaLineageTx, when the instance's row is first saved
PersonaInit ==
  /\ lineage = [current |-> 1, checkpoint |-> 0]
  /\ revisions = << [parent |-> 0, description |-> Baseline, described |-> {},
                     experiences |-> {}, amendments |-> {}] >>
  /\ inbox = <<>> /\ experiences = <<>> /\ amendments = <<>> /\ transitions = <<>>
  /\ committed = <<>> /\ trimmed = {} /\ births = 0
=============================================================================
