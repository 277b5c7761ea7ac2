---------------------------- MODULE MCReflection ----------------------------
(* A small instance of Reflection for TLC, and what must hold of it. *)
EXTENDS Reflection

TwoSchedulers == <<"s1", "s2">>
\* A behaviour has the switches of the mode, the operator's commands, or the
\* deletion of the instance to disturb its workers; next to commands and the
\* deletion it has two events, next to switches one. A third event is of an
\* episode of its own.
Disturbances ==
  {d \in {"switches", "commands"} : left[d] < (IF d = "switches" THEN MaxSwitches ELSE MaxCommands)}
    \cup (IF cleanup = "none" THEN {} ELSE {"deletion"})
OneDisturbance ==
  /\ Cardinality(Disturbances) <= 1
  /\ Disturbances # {} => MaxOf(DOMAIN inbox \cup trimmed) <= 2
  /\ "switches" \in Disturbances => DOMAIN inbox \subseteq {1}
  /\ 3 \in DOMAIN inbox => inbox[3] = inbox[2] + 1

(* The log of pointer moves is a path that ends at the lineage's pointer: every
   move (a commit, a reset, a rollback, a written description) starts where the
   one before it ended, whatever raced with it and wherever retention cut it. *)
PointerPath ==
  /\ \A i \in 2..Len(transitions) : transitions[i].from = transitions[i - 1].to
  /\ Existing /\ transitions # <<>> => transitions[Len(transitions)].to = lineage.current

(* No event is reflected on twice and none is skipped: committed runs cover the
   inbox in adjoining ranges, and the checkpoint has passed only events that a
   committed run read or that trimming had removed, also with two schedulers'
   workers on one instance. *)
ReflectedOnce ==
  /\ \A i \in 2..Len(committed) : committed[i].prior = committed[i - 1].high
  /\ Existing => \A n \in 1..lineage.checkpoint :
       n \in trimmed \/ \E i \in DOMAIN committed : n \in committed[i].read

(* Whatever rests on evidence keeps it: retention of events and of experiences
   leaves every event, experience and link that an amendment or a rewritten
   description of any revision, current or not, was drawn from, and an id given
   a second time is never one that is still cited. *)
EvidenceKept ==
  /\ \A i \in DOMAIN amendments :
       LET a == amendments[i] IN
       /\ a.evidence \in DOMAIN experiences
       /\ experiences[a.evidence].born = a.born
       /\ experiences[a.evidence].sources \subseteq DOMAIN inbox
  /\ \A r \in DOMAIN revisions :
       revisions[r].described \cup revisions[r].experiences \subseteq DOMAIN experiences

(* A proposal the manager validated against its snapshot is one the store takes:
   when the pointer and the inbox have not moved, the transaction's own checks
   of ranges, sources and removals find nothing to refuse. *)
ValidCommits ==
  \A w \in Workers : At(w, "commit") /\ ~Loses(worker[w].plan) => ~Refused(worker[w].plan)

(* After the deletion of an instance its semantic index stays empty: no worker
   writes it once clean-up, having waited for the workers, removed it. *)
CleanUpIsFinal == cleanup = "done" /\ overtaken = "no" => index = <<>>
(* The same, also when a second worker was forgotten before the first one's end:
   Manager.Forget's comment says that "A worker already forgotten is left alone
   and its finish signal is still waited for." *)
ForgottenAwaited == cleanup = "done" /\ overtaken # "late" => index = <<>>

(* A mode that reflects has a scheduler to reflect with, once the commands that
   switch it off are through: SetReflectionMode's comment says that it "changes
   whether reflection work is scheduled". It fails; no run: see the README. *)
ActiveIsScheduled == mode # "disabled" /\ halting = 0 => current # None

(* A collection the reconciliation finds healthy holds the revision's experiences
   and no other (ExperienceIndex.Reconcile). No run: see the README's findings. *)
IndexAgrees ==
  \A w \in Workers : At(w, "ask") /\ Healthy(worker[w].snap.held) => index = worker[w].snap.held
=============================================================================
