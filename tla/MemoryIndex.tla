----------------------------- MODULE MemoryIndex -----------------------------
(* The memories of one instance and the vector index over them (memory/vector.go,
   experience_index.go, default.go): the store's rows are the truth, the index follows
   in steps of its own, any of which may fail or never come, and is reconciled when it
   is searched. A turn writes, deletes and searches; a reflection searches at the same
   time; the configuration may name another embedding model, or none. The index outlives
   the program.

   A vector is the model that made it. Experiences have an index of their own, under
   another name in the same database. *)
EXTENDS Naturals, FiniteSets, TLC

CONSTANTS Keys, Contents, Models, Experiences, MaxActs

VARIABLE s
(* s.rows    the store's memories, key to content; 0 is none
   s.docs    the index, key to [text, by, late]: what was embedded, by which model, and
             whether the index was of another one when it was added; NoDoc is none
   s.kept    the experiences the store holds, s.exps  those indexed
   s.model   the configured embedding model, s.embedder  the one calls go to; 0 is none
   s.marker  the model the index is recorded as built by
   s.able    the last probe succeeded
   s.turn, s.reflection, s.config   what each of the three is doing
   s.opened  the program has just opened the index: what it held of experiences before
   s.recalled  the experiences were just set equal and searched
   s.acts    operations begun, bounded by MaxActs *)

NoDoc == [text |-> 0, by |-> 0, late |-> FALSE]
Idle == [at |-> "idle", key |-> 0, text |-> 0, by |-> 0, seen |-> [k \in Keys |-> 0], alone |-> FALSE,
         asks |-> FALSE, found |-> [k \in Keys |-> NoDoc]]
NotOpened == [yes |-> FALSE, exps |-> {}, wiped |-> FALSE]
NoRows == [k \in Keys |-> 0]
NoDocs == [k \in Keys |-> NoDoc]

Doc(text, by) == [text |-> text, by |-> by, late |-> by # s.embedder \/ s.config.at = "reset"]
Embeds == {0} \cup {s.embedder}   \* a call that fails gives no vector

(* Whatever another does meanwhile is seen by the searches that are under way. *)
Disturbed(t, who) ==
  [t EXCEPT !.turn.alone = @ /\ who = "turn", !.reflection.alone = @ /\ who = "reflection",
            !.opened = NotOpened, !.recalled = FALSE]

(* A document is replaced: the old one goes even when there is no vector for the new. *)
Indexed(docs, k, text, by) ==
  [docs EXCEPT ![k] = IF by = 0 THEN NoDoc ELSE Doc(text, by)]

Writable == s.turn.at = "idle" /\ s.acts < MaxActs

(* The vector is made before anything is written: the caller may yet lose its authority. *)
PrepareWrite(k, text) ==
  /\ Writable
  /\ \E by \in Embeds :
       s' = Disturbed([s EXCEPT !.acts = @ + 1,
                         !.turn = [Idle EXCEPT !.at = "commit", !.key = k, !.text = text, !.by = by]], "turn")
PrepareDelete(k) ==
  /\ Writable
  /\ s' = Disturbed([s EXCEPT !.acts = @ + 1, !.turn = [Idle EXCEPT !.at = "commit", !.key = k]], "turn")

Commit ==
  /\ s.turn.at = "commit"
  /\ \/ s' = Disturbed([s EXCEPT !.rows[s.turn.key] = s.turn.text, !.turn.at = "finish"], "turn")
     \/ s' = [s EXCEPT !.turn = Idle]  \* refused: the authority has gone, or the store failed

(* What the index makes of it, whose failures are only logged. *)
FinishWrite ==
  /\ s.turn.at = "finish" /\ s.turn.text # 0
  /\ \/ s' = Disturbed([s EXCEPT !.docs = Indexed(@, s.turn.key, s.turn.text, s.turn.by),
                          !.turn = IF s.turn.by # 0 /\ s.able THEN [Idle EXCEPT !.at = "read"] ELSE Idle], "turn")
     \/ s' = [s EXCEPT !.turn = Idle]
FinishDelete ==
  /\ s.turn.at = "finish" /\ s.turn.text = 0
  /\ \/ s' = Disturbed([s EXCEPT !.docs[s.turn.key] = NoDoc, !.turn = Idle], "turn")
     \/ s' = [s EXCEPT !.turn = Idle]

(* A search: the rows are read, every entry whose document is missing or differs is
   embedded anew, documents of no entry are removed, and the index is asked. *)
Who == {"turn", "reflection"}
Op(who) == IF who = "turn" THEN s.turn ELSE s.reflection
With(t, who, op) == IF who = "turn" THEN [t EXCEPT !.turn = op] ELSE [t EXCEPT !.reflection = op]

Search(who) ==
  /\ Op(who).at = "idle" /\ s.able /\ s.acts < MaxActs
  /\ s' = With([s EXCEPT !.acts = @ + 1, !.opened = NotOpened], who,
               [Idle EXCEPT !.at = "read", !.asks = TRUE, !.alone = TRUE])

MatchesAny(text, doc) == doc.text # 0  \* a mutant: a document is not compared with its entry
Matches(text, doc) == doc.text = text
StaleByCount ==  \* a mutant: as many documents as entries will do
  IF Cardinality({k \in Keys : s.docs[k] # NoDoc}) = Cardinality({k \in Keys : s.rows[k] # 0}) THEN {}
  ELSE {k \in Keys : s.rows[k] # 0 /\ ~Matches(s.rows[k], s.docs[k])}
Stale == {k \in Keys : s.rows[k] # 0 /\ ~Matches(s.rows[k], s.docs[k])}
Reconcile(who) ==
  LET op == Op(who)
      stale == Stale
  IN  /\ op.at = "read"
      /\ IF s.rows = NoRows
         THEN s' = Disturbed(With([s EXCEPT !.docs = NoDocs], who,
                                  [op EXCEPT !.at = "query", !.seen = s.rows]), who)
         ELSE \/ /\ stale = {} \/ s.embedder # 0
                 /\ s' = Disturbed(With([s EXCEPT !.docs =
                           [k \in Keys |-> IF k \in stale THEN Doc(s.rows[k], s.embedder) ELSE @[k]]], who,
                           [op EXCEPT !.at = "prune", !.seen = s.rows]), who)
              \/ \E some \in SUBSET stale :   \* an embedding failed: the search fails with it
                   /\ some # stale
                   /\ s' = Disturbed(With([s EXCEPT !.docs =
                             [k \in Keys |-> IF k \in some /\ s.embedder # 0 THEN Doc(s.rows[k], s.embedder)
                                             ELSE @[k]]], who, Idle), who)

Orphans(op) == {k \in Keys : op.seen[k] = 0 /\ s.docs[k] # NoDoc}
Prune(who) ==
  LET op == Op(who)
  IN  /\ op.at = "prune"
      /\ \E kept \in {{}} \cup {{k} : k \in Orphans(op)} :   \* one that could not be removed is logged
           s' = Disturbed(With([s EXCEPT !.docs = [k \in Keys |-> IF k \in Orphans(op) \ kept THEN NoDoc ELSE @[k]]],
                     who, [op EXCEPT !.at = "query", !.alone = @ /\ kept = {}]), who)
PruneFails(who) ==   \* another has taken the document it starts from
  Op(who).at = "prune" /\ ~Op(who).alone /\ s' = With(s, who, Idle)

Query(who) ==
  LET op == Op(who)
  IN  /\ op.at = "query"
      /\ s' = With(s, who, IF op.asks /\ s.embedder # 0
                           THEN [op EXCEPT !.at = "answered", !.found = s.docs, !.by = s.embedder] ELSE Idle)
Answer(who) == Op(who).at = "answered" /\ s' = With(s, who, Idle)

(* Another embedding model, or a key that comes or goes: calls go to the new one at
   once, then an index another model built is wiped and its record is written, then the
   new one is probed. *)
StoreEmbedder(model, keyed) ==
  LET embedder == IF keyed THEN model ELSE 0
  IN  /\ s.config.at = "idle" /\ s.acts < MaxActs /\ <<model, embedder>> # <<s.model, s.embedder>>
      /\ s' = Disturbed([s EXCEPT !.acts = @ + 1, !.model = model, !.embedder = embedder,
                 !.config = [Idle EXCEPT !.at = IF model = s.model THEN "probe" ELSE "reset"]], "config")

Wiped(t) == [t EXCEPT !.docs = NoDocs, !.exps = {}]
Recorded(t, model) == [t EXCEPT !.marker = model]
OnlyRecorded(t) == Recorded(t, t.model)  \* a mutant: the old vectors stay
ReconcileEmbeddingModel(t) ==
  IF t.marker # t.model THEN Recorded(Wiped(t), t.model) ELSE Recorded(t, t.model)

Reset ==
  /\ s.config.at = "reset"
  /\ s' = Disturbed([ReconcileEmbeddingModel(s) EXCEPT !.config.at = "probe"], "config")
Probe ==
  /\ s.config.at = "probe"
  /\ \E able \in {FALSE, s.embedder # 0} : s' = [s EXCEPT !.able = able, !.config = Idle]

(* The next start, also after an end between the wipe and its record: collections of memories without a row are dropped, those of
   experiences are not memories', and the model is compared with the record. *)
DropEveryOrphan(t) ==  \* a mutant: experiences are taken for memories
  IF t.rows = NoRows THEN [t EXCEPT !.docs = NoDocs, !.exps = {}] ELSE t
DropOrphaned(t) == IF t.rows = NoRows THEN [t EXCEPT !.docs = NoDocs] ELSE t
Open ==
  \E left \in {s} \cup (IF s.config.at = "reset" /\ s.marker # s.model THEN {Wiped(s)} ELSE {}), model \in Models :
    LET closed == [left EXCEPT !.turn = Idle, !.reflection = Idle, !.config = Idle, !.model = model]
        opened == ReconcileEmbeddingModel(DropOrphaned(closed))
    IN  /\ s.acts < MaxActs
        /\ \E embedder \in {0, model} : \E able \in {FALSE, embedder # 0} :
             s' = [opened EXCEPT !.embedder = embedder, !.able = able, !.acts = @ + 1, !.recalled = FALSE,
                     !.opened = [yes |-> TRUE, exps |-> left.exps, wiped |-> s.marker # model]]

(* The instance goes: its index in two steps, its rows with its own row in the store. *)
DeleteInstance ==
  /\ s.acts < MaxActs /\ s.turn.at = "idle"
  /\ \/ s' = Disturbed([s EXCEPT !.acts = @ + 1, !.docs = NoDocs, !.exps = {}, !.rows = NoRows, !.kept = {}], "all")
     \/ s' = Disturbed([s EXCEPT !.acts = @ + 1, !.docs = NoDocs, !.rows = NoRows, !.kept = {}], "all")
     \/ s' = Disturbed([s EXCEPT !.acts = @ + 1, !.rows = NoRows, !.kept = {}], "all")

(* Experiences: an accepted one is indexed if that works, retired ones leave the store
   only, and a search sets the two equal before it asks. *)
Accept(e) ==
  /\ s.acts < MaxActs /\ e \notin s.kept \cup s.exps
  /\ \E indexed \in {{}, {e} \ (IF s.embedder = 0 THEN {e} ELSE {})} :
       s' = [s EXCEPT !.acts = @ + 1, !.kept = @ \cup {e}, !.exps = @ \cup indexed, !.opened = NotOpened,
                       !.recalled = FALSE]
Retire(e) ==
  /\ s.acts < MaxActs /\ e \in s.kept
  /\ s' = [s EXCEPT !.acts = @ + 1, !.kept = @ \ {e}, !.opened = NotOpened, !.recalled = FALSE]
HoldsAsMany == TRUE  \* a mutant: counting them is enough
HoldsAll == s.kept \subseteq s.exps
ExperiencesReconciled == Cardinality(s.exps) = Cardinality(s.kept) /\ HoldsAll
Recall ==
  /\ s.acts < MaxActs /\ s.able /\ s.embedder # 0
  /\ s' = [s EXCEPT !.acts = @ + 1, !.opened = NotOpened, !.recalled = TRUE, !.exps = IF ExperiencesReconciled THEN @ ELSE s.kept]

(* Whatever earlier runs left: rows and documents that differ in either direction, and
   so the experiences. *)
Init ==
  LET model == CHOOSE m \in Models : TRUE   \* either: they differ in nothing
      Left(texts) == [k \in Keys |-> IF texts[k] = 0 THEN NoDoc
                                    ELSE [text |-> texts[k], by |-> model, late |-> FALSE]]
  IN  \E rows, texts \in [Keys -> {0} \cup Contents], kept, exps \in SUBSET Experiences :
        /\ rows = NoRows \/ kept \cup exps = {}
        /\ s = [rows |-> rows, docs |-> Left(texts), kept |-> kept, exps |-> exps, model |-> model,
                embedder |-> model, marker |-> model, able |-> TRUE, turn |-> Idle,
                reflection |-> Idle, config |-> Idle, opened |-> NotOpened, recalled |-> FALSE, acts |-> 0]

Next ==
  \/ \E k \in Keys : PrepareDelete(k) \/ \E text \in Contents : PrepareWrite(k, text)
  \/ Commit \/ FinishWrite \/ FinishDelete
  \/ \E who \in Who : Search(who) \/ Reconcile(who) \/ Prune(who) \/ PruneFails(who) \/ Query(who) \/ Answer(who)
  \/ \E model \in Models, keyed \in BOOLEAN : StoreEmbedder(model, keyed)
  \/ Reset \/ Probe \/ Open \/ DeleteInstance \/ Recall
  \/ \E e \in Experiences : Accept(e) \/ Retire(e)
---------------------------------------------------------------------------
(* A search that nothing disturbs answers with every memory of the instance as it is
   written, and with nothing else, whatever was lost, left over or half done before it. *)
SearchesHeal ==
  \A who \in Who :
    LET op == Op(who)
    IN  op.at = "answered" /\ op.alone => \A k \in Keys : op.found[k].text = s.rows[k]

(* Vectors of two models are never compared: what is indexed was embedded by the model
   the index is recorded as built by, but for what was being embedded as it changed. *)
OneModel ==
  s.config.at # "reset" => \A k \in Keys : s.docs[k] # NoDoc /\ ~s.docs[k].late => s.docs[k].by = s.marker

(* What is recalled of the experiences is what the store holds of them. *)
RecallsTheKept == s.recalled => s.exps = s.kept

(* Opening drops the memories of instances that are gone and never the experiences of
   one that is there. *)
OpenedClean ==
  s.opened.yes => /\ s.rows = NoRows => s.docs = NoDocs
                  /\ ~s.opened.wiped => s.exps = s.opened.exps
=============================================================================
