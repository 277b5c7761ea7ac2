-------------------------- MODULE ReflectionProofs --------------------------
(***************************************************************************)
(* Theorems about Reflection and Persona for every number of schedulers,   *)
(* workers, events and revisions, every set of modes and descriptions, and *)
(* every page, threshold and headroom.                                     *)
(***************************************************************************)
EXTENDS MCReflection, FiniteSetTheorems, TLAPS

---------------------------------------------------------------------------
(* Largest and smallest numbers *)

Bounded(S) == \E m \in Nat : \A x \in S : x <= m

LEMMA LeastElement ==
  ASSUME NEW S \in SUBSET Nat, S # {}
  PROVE  \E x \in S : \A y \in S : x <= y
<1>1. PICK x \in S : \A y \in S : ~ (<<y, x>> \in OpToRel(<, Nat))
  BY WFMin, NatLessThanWellFounded, Zenon
<1>2. \A y \in S : ~ (y < x)
  BY <1>1 DEF OpToRel
<1>. QED BY <1>2

LEMMA LargestElement ==
  ASSUME NEW S \in SUBSET Nat, S # {}, Bounded(S)
  PROVE  \E x \in S : \A y \in S : y <= x
<1>. DEFINE Bounds == {b \in Nat : \A x \in S : x <= b}
<1>1. Bounds # {}
  BY DEF Bounded
<1>2. PICK b \in Bounds : \A c \in Bounds : b <= c
  BY <1>1, LeastElement
<1>3. b \in S
  <2>1. SUFFICES ASSUME b \notin S PROVE FALSE
    OBVIOUS
  <2>2. PICK x \in S : TRUE
    OBVIOUS
  <2>3. b - 1 \in Bounds
    BY <2>1, <2>2
  <2>. QED BY <1>2, <2>3
<1>. QED BY <1>3

LEMMA MaxLargest ==
  ASSUME NEW S \in SUBSET Nat, Bounded(S)
  PROVE  /\ MaxOf(S) \in Nat
         /\ \A x \in S : x <= MaxOf(S)
         /\ MaxOf(S) # 0 => MaxOf(S) \in S
<1>1. S \cup {0} \in SUBSET Nat /\ S \cup {0} # {}
  OBVIOUS
<1>2. Bounded(S \cup {0})
  BY DEF Bounded
<1>3. \E x \in S \cup {0} : \A y \in S \cup {0} : x >= y
  BY <1>1, <1>2, LargestElement
<1>4. PICK x : x = MaxOf(S)
  OBVIOUS
<1>5. x \in S \cup {0} /\ \A y \in S \cup {0} : x >= y
  BY <1>3, <1>4, Zenon DEF MaxOf, Max
<1>. QED BY <1>4, <1>5

LEMMA BoundedGrows ==
  ASSUME NEW S \in SUBSET Nat, Bounded(S), NEW n \in Nat
  PROVE  Bounded(S \cup {n})
<1>1. PICK m \in Nat : \A x \in S : x <= m
  BY DEF Bounded
<1>2. \A x \in S \cup {n} : x <= m + n
  BY <1>1
<1>. QED BY <1>2 DEF Bounded

LEMMA BoundedShrinks ==
  ASSUME NEW S \in SUBSET Nat, Bounded(S), NEW T \in SUBSET S
  PROVE  Bounded(T)
BY DEF Bounded
---------------------------------------------------------------------------
(* The invariant of the store *)

Revision ==
  [parent : Nat, description : {Baseline} \cup Descriptions, described : SUBSET Nat,
   experiences : SUBSET Nat, amendments : SUBSET Nat]
Experience == [sources : SUBSET Nat, high : BOOLEAN, cited : Nat, born : Nat]
Amendment == [evidence : Nat, born : Nat, departed : BOOLEAN]
Move == [from : Nat, to : Nat]
Run == [prior : Nat, high : Nat, read : SUBSET Nat]

StoreType ==
  /\ Existing => lineage \in [current : Nat, checkpoint : Nat]
  /\ DOMAIN inbox \subseteq Nat /\ Bounded(DOMAIN inbox)
  /\ DOMAIN experiences \subseteq Nat /\ Bounded(DOMAIN experiences)
  /\ experiences \in [DOMAIN experiences -> Experience]
  /\ revisions \in Seq(Revision) /\ amendments \in Seq(Amendment)
  /\ transitions \in Seq(Move) /\ committed \in Seq(Run) /\ births \in Nat

\* The pointer names a revision, and one revision is the root.
PointerHere ==
  Existing => /\ lineage.current \in DOMAIN revisions
              /\ 1 \in DOMAIN revisions /\ revisions[1].parent = 0

\* Trimming spares every cited event, an amendment's or not.
SourcesKept == \A e \in DOMAIN experiences : experiences[e].sources \subseteq DOMAIN inbox

\* Events are numbered without a gap.
InboxWhole == 1..MaxOf(DOMAIN inbox) \subseteq DOMAIN inbox \cup trimmed

CheckpointOfLast ==
  Existing /\ committed # <<>> => lineage.checkpoint = committed[Len(committed)].high

StoreInv ==
  /\ StoreType /\ PointerHere /\ SourcesKept /\ InboxWhole /\ CheckpointOfLast
  /\ PointerPath /\ ReflectedOnce /\ EvidenceKept

\* What a step leaves to those who hold an older reading.
Grows ==
  /\ trimmed \subseteq trimmed'
  /\ Existing' => /\ Existing
                  /\ \A r \in DOMAIN revisions :
                       r \in DOMAIN revisions' /\ revisions'[r].amendments = revisions[r].amendments

\* The events from prior to high were read, or are gone.
Reads(prior, high, read) ==
  /\ prior <= high /\ read \subseteq prior + 1 .. high
  /\ prior + 1 .. high \subseteq read \cup trimmed

SnapRight(s) ==
  /\ s.base \in Nat /\ s.prior \in Nat /\ s.high \in Nat
  /\ Reads(s.prior, s.high, DOMAIN s.events)
  /\ Existing => s.base \in DOMAIN revisions /\ s.active = revisions[s.base].amendments

PlanRight(p) ==
  /\ p.base \in Nat /\ p.prior \in Nat /\ p.high \in Nat
  /\ Reads(p.prior, p.high, p.read)
  /\ p.drafts = {} \/ \E x \in [sources : (SUBSET p.read) \ {{}}, high : BOOLEAN] : p.drafts = {x}
  /\ p.amends \in BOOLEAN /\ p.description \in {None} \cup Descriptions
  /\ p.amends => p.drafts # {}
  /\ Existing => p.base \in DOMAIN revisions /\ Removed(p) \subseteq revisions[p.base].amendments
---------------------------------------------------------------------------
(* The transactions of the store *)

LEMMA Initially == PersonaInit => StoreInv
<1>. SUFFICES ASSUME PersonaInit PROVE StoreInv
  OBVIOUS
<1>. USE DEF PersonaInit
<1>1. Bounded({}) /\ DOMAIN inbox = {} /\ DOMAIN experiences = {}
  BY DEF Bounded
<1>2. MaxOf({}) = 0
  BY <1>1, MaxLargest
<1>3. revisions \in Seq(Revision)
  BY DEF Revision
<1>4. StoreType
  BY <1>1, <1>3 DEF StoreType, Existing
<1>5. PointerHere /\ SourcesKept /\ InboxWhole /\ CheckpointOfLast
  BY <1>1, <1>2 DEF PointerHere, SourcesKept, InboxWhole, CheckpointOfLast
<1>6. PointerPath /\ ReflectedOnce /\ EvidenceKept
  BY <1>1 DEF PointerPath, ReflectedOnce, EvidenceKept
<1>. QED BY <1>4, <1>5, <1>6 DEF StoreInv

LEMMA AppendKeeps ==
  ASSUME StoreInv, NEW gap, AppendEvent(gap)
  PROVE  StoreInv' /\ Grows
<1>1. PICK n : n = MaxOf(DOMAIN inbox) + 1
  OBVIOUS
<1>2. PICK box : box = [m \in DOMAIN inbox \cup {n} |->
                          IF m = n THEN (IF n = 1 THEN 0 ELSE inbox[n - 1]) + gap ELSE inbox[m]]
  OBVIOUS
<1>3. PICK out : out = Trimmed(box, Cited)
  OBVIOUS
<1>4. /\ Existing /\ inbox' = [m \in DOMAIN box \ out |-> box[m]]
      /\ trimmed' = trimmed \cup out /\ UNCHANGED persona
  BY <1>1, <1>2, <1>3, Zenon DEF AppendEvent
<1>5. /\ MaxOf(DOMAIN inbox) \in Nat /\ \A x \in DOMAIN inbox : x <= MaxOf(DOMAIN inbox)
      /\ n \in Nat
  BY <1>1, MaxLargest DEF StoreInv, StoreType
<1>6. out \subseteq DOMAIN box \ Cited
  BY <1>3 DEF Trimmed
<1>7. DOMAIN box = DOMAIN inbox \cup {n} /\ DOMAIN inbox' = DOMAIN box \ out
  BY <1>2, <1>4
<1>8. DOMAIN inbox' \subseteq Nat /\ Bounded(DOMAIN inbox')
  <2>1. DOMAIN inbox \in SUBSET Nat /\ Bounded(DOMAIN inbox)
    BY DEF StoreInv, StoreType
  <2>2. DOMAIN box \in SUBSET Nat /\ Bounded(DOMAIN box)
    BY <1>5, <1>7, <2>1, BoundedGrows
  <2>3. DOMAIN inbox' \in SUBSET DOMAIN box
    BY <1>7
  <2>. QED BY <2>2, <2>3, BoundedShrinks
<1>9. StoreType'
  BY <1>4, <1>8 DEF StoreInv, StoreType, persona, Existing
<1>10. PointerHere' /\ CheckpointOfLast' /\ PointerPath'
  BY <1>4 DEF StoreInv, persona, Existing, PointerHere, CheckpointOfLast, PointerPath
<1>11. \A e \in DOMAIN experiences : experiences[e].sources \subseteq DOMAIN inbox'
  <2>. SUFFICES ASSUME NEW e \in DOMAIN experiences
                PROVE  experiences[e].sources \subseteq DOMAIN inbox'
    OBVIOUS
  <2>1. experiences[e].sources \subseteq Cited
    BY DEF Cited
  <2>2. experiences[e].sources \subseteq DOMAIN inbox
    BY DEF StoreInv, SourcesKept
  <2>. QED BY <1>6, <1>7, <2>1, <2>2
<1>12. SourcesKept'
  BY <1>4, <1>11 DEF SourcesKept, persona
<1>13. EvidenceKept'
  BY <1>4, <1>11 DEF StoreInv, EvidenceKept, persona
<1>14. InboxWhole'
  <2>1. MaxOf(DOMAIN inbox') \in Nat /\ MaxOf(DOMAIN inbox') <= n
    <3>1. MaxOf(DOMAIN inbox') \in Nat
          /\ (MaxOf(DOMAIN inbox') # 0 => MaxOf(DOMAIN inbox') \in DOMAIN inbox')
      BY <1>8, MaxLargest
    <3>2. \A x \in DOMAIN inbox' : x <= n
      BY <1>1, <1>5, <1>7 DEF StoreInv, StoreType
    <3>. QED BY <1>5, <3>1, <3>2
  <2>2. 1..n \subseteq DOMAIN inbox \cup {n} \cup trimmed
    BY <1>1, <1>5 DEF StoreInv, InboxWhole
  <2>3. 1..MaxOf(DOMAIN inbox') \subseteq DOMAIN inbox' \cup trimmed'
    BY <1>4, <1>5, <1>7, <2>1, <2>2
  <2>4. MaxOf(DOMAIN inbox)' = MaxOf(DOMAIN inbox')
    BY DEF MaxOf
  <2>. QED BY <2>3, <2>4 DEF InboxWhole
<1>15. ReflectedOnce'
  BY <1>4 DEF StoreInv, ReflectedOnce, persona, Existing
<1>. QED
  BY <1>4, <1>9, <1>10, <1>12, <1>13, <1>14, <1>15 DEF StoreInv, Grows, persona, Existing

LEMMA ZeroStored ==
  ASSUME StoreInv, Existing
  PROVE  Zero \in DOMAIN revisions
<1>. DEFINE Roots == {r \in DOMAIN revisions : revisions[r].parent = 0}
<1>1. Roots \in SUBSET Nat /\ Roots # {}
  BY DEF StoreInv, StoreType, PointerHere
<1>2. \E x \in Roots : \A y \in Roots : x =< y
  BY <1>1, LeastElement
<1>3. PICK z : z = Zero
  OBVIOUS
<1>4. z \in Roots
  BY <1>2, <1>3, Zenon DEF Zero, Min
<1>. QED BY <1>3, <1>4

\* The log after the pointer moves.
LEMMA PathGrows ==
  ASSUME StoreInv, Existing, NEW target \in Nat, lineage'.current = target,
         transitions' = Append(transitions, [from |-> lineage.current, to |-> target])
  PROVE  transitions' \in Seq(Move) /\ PointerPath'
<1>1. /\ transitions \in Seq(Move) /\ lineage.current \in Nat
      /\ \A i \in 2..Len(transitions) : transitions[i].from = transitions[i - 1].to
      /\ transitions # <<>> => transitions[Len(transitions)].to = lineage.current
  BY DEF StoreInv, StoreType, PointerPath
<1>2. PICK m : m = [from |-> lineage.current, to |-> target]
  OBVIOUS
<1>3. m \in Move /\ m.from = lineage.current /\ m.to = target
  BY <1>1, <1>2 DEF Move
<1>4. transitions' = Append(transitions, m)
  BY <1>2
<1>5. /\ transitions' \in Seq(Move) /\ Len(transitions') = Len(transitions) + 1
      /\ transitions'[Len(transitions')] = m
      /\ \A i \in 1..Len(transitions) : transitions'[i] = transitions[i]
  BY <1>1, <1>3, <1>4
<1>6. ASSUME NEW i \in 2..Len(transitions')
      PROVE  transitions'[i].from = transitions'[i - 1].to
  <2>1. CASE i = Len(transitions')
    <3>1. i - 1 = Len(transitions) /\ transitions # <<>> /\ i - 1 \in 1..Len(transitions)
      BY <1>1, <1>5, <2>1
    <3>. QED BY <1>1, <1>3, <1>5, <2>1, <3>1
  <2>2. CASE i # Len(transitions')
    <3>1. i \in 2..Len(transitions) /\ i \in 1..Len(transitions) /\ i - 1 \in 1..Len(transitions)
      BY <1>1, <1>5, <2>2
    <3>. QED BY <1>1, <1>5, <3>1
  <2>. QED BY <2>1, <2>2
<1>. QED BY <1>3, <1>5, <1>6 DEF PointerPath, Existing

LEMMA MoveKeeps ==
  ASSUME StoreInv, NEW expected, NEW target \in DOMAIN revisions, Moves(expected, target),
         UNCHANGED <<inbox, trimmed, revisions, experiences, amendments, committed, births>>
  PROVE  StoreInv' /\ Grows
<1>1. /\ Existing /\ lineage.current = expected /\ lineage' = [lineage EXCEPT !.current = target]
      /\ transitions' = Append(transitions, [from |-> expected, to |-> target])
  BY DEF Moves
<1>2. lineage \in [current : Nat, checkpoint : Nat] /\ target \in Nat
  BY <1>1 DEF StoreInv, StoreType
<1>3. /\ lineage' \in [current : Nat, checkpoint : Nat]
      /\ lineage'.current = target /\ lineage'.checkpoint = lineage.checkpoint
  BY <1>1, <1>2
<1>4. transitions' \in Seq(Move) /\ PointerPath'
  BY <1>1, <1>2, <1>3, PathGrows
<1>5. StoreType'
  BY <1>3, <1>4 DEF StoreInv, StoreType
<1>6. PointerHere' /\ CheckpointOfLast' /\ SourcesKept' /\ InboxWhole'
  BY <1>1, <1>3
     DEF StoreInv, PointerHere, CheckpointOfLast, SourcesKept, InboxWhole, Existing, MaxOf
<1>7. ReflectedOnce' /\ EvidenceKept'
  BY <1>1, <1>3 DEF StoreInv, ReflectedOnce, EvidenceKept, Existing
<1>. QED BY <1>1, <1>4, <1>5, <1>6, <1>7 DEF StoreInv, Grows, Existing

LEMMA ResetKeeps ==
  ASSUME StoreInv, NEW expected, ResetPersona(expected)
  PROVE  StoreInv' /\ Grows
<1>1. Existing /\ Moves(expected, Zero)
  BY DEF ResetPersona, Moves
<1>2. Zero \in DOMAIN revisions
  BY <1>1, ZeroStored
<1>. QED BY <1>1, <1>2, MoveKeeps DEF ResetPersona

LEMMA RollbackKeeps ==
  ASSUME StoreInv, NEW expected, NEW target \in DOMAIN revisions,
         RollbackPersona(expected, target)
  PROVE  StoreInv' /\ Grows
BY MoveKeeps DEF RollbackPersona

\* The revisions after one more.
LEMMA RevisionsGrow ==
  ASSUME StoreInv, NEW new \in Revision, revisions' = Append(revisions, new)
  PROVE  /\ revisions' \in Seq(Revision) /\ DOMAIN revisions \subseteq Nat
         /\ Len(revisions) \in Nat /\ Len(revisions) + 1 \in DOMAIN revisions'
         /\ DOMAIN revisions' = DOMAIN revisions \cup {Len(revisions) + 1}
         /\ \A r \in DOMAIN revisions : revisions'[r] = revisions[r]
         /\ revisions'[Len(revisions) + 1] = new
BY DEF StoreInv, StoreType

LEMMA WriteKeeps ==
  ASSUME StoreInv, NEW expected, NEW description \in Descriptions,
         WritePersonaDescription(expected, description)
  PROVE  StoreInv' /\ Grows
<1>1. PICK new : new = [revisions[expected] EXCEPT !.parent = expected,
                                                   !.description = description,
                                                   !.described = {}]
  OBVIOUS
<1>2. PICK target : target = Len(revisions) + 1
  OBVIOUS
<1>3. /\ Existing /\ lineage.current = expected /\ lineage' = [lineage EXCEPT !.current = target]
      /\ transitions' = Append(transitions, [from |-> expected, to |-> target])
      /\ revisions' = Append(revisions, new)
      /\ UNCHANGED <<inbox, trimmed, experiences, amendments, committed, births>>
  BY <1>1, <1>2 DEF WritePersonaDescription, Moves
<1>4. expected \in DOMAIN revisions /\ revisions[expected] \in Revision /\ expected \in Nat
  BY <1>3 DEF StoreInv, StoreType, PointerHere
<1>5. new \in Revision /\ new.described = {} /\ new.experiences = revisions[expected].experiences
  BY <1>1, <1>4 DEF Revision
<1>6. /\ revisions' \in Seq(Revision) /\ DOMAIN revisions \subseteq Nat
      /\ target \in Nat /\ target \in DOMAIN revisions'
      /\ DOMAIN revisions' = DOMAIN revisions \cup {target}
      /\ \A r \in DOMAIN revisions : revisions'[r] = revisions[r]
      /\ revisions'[target] = new
  BY <1>2, <1>3, <1>5, RevisionsGrow
<1>7. lineage \in [current : Nat, checkpoint : Nat]
  BY <1>3 DEF StoreInv, StoreType
<1>8. /\ lineage' \in [current : Nat, checkpoint : Nat]
      /\ lineage'.current = target /\ lineage'.checkpoint = lineage.checkpoint
  BY <1>3, <1>6, <1>7
<1>9. transitions' \in Seq(Move) /\ PointerPath'
  BY <1>3, <1>6, <1>8, PathGrows
<1>10. StoreType'
  BY <1>3, <1>6, <1>8, <1>9 DEF StoreInv, StoreType
<1>11. PointerHere' /\ CheckpointOfLast' /\ SourcesKept' /\ InboxWhole' /\ ReflectedOnce'
  <2>1. PointerHere'
    BY <1>3, <1>6, <1>8 DEF StoreInv, PointerHere
  <2>. QED
    BY <2>1, <1>3, <1>8
       DEF StoreInv, CheckpointOfLast, SourcesKept, InboxWhole, ReflectedOnce, Existing, MaxOf
<1>12. EvidenceKept'
  <2>1. \A r \in DOMAIN revisions' :
          revisions'[r].described \cup revisions'[r].experiences \subseteq DOMAIN experiences
    BY <1>4, <1>5, <1>6 DEF StoreInv, EvidenceKept
  <2>. QED BY <1>3, <2>1 DEF StoreInv, EvidenceKept
<1>. QED BY <1>3, <1>6, <1>9, <1>10, <1>11, <1>12 DEF StoreInv, Grows, Existing

LEMMA PruneKeeps ==
  ASSUME StoreInv, PruneExperiences
  PROVE  StoreInv' /\ Grows
<1>1. /\ Existing /\ experiences' = [e \in DOMAIN experiences \ Prunable |-> experiences[e]]
      /\ revisions' = [r \in DOMAIN revisions |->
                         [revisions[r] EXCEPT !.experiences = @ \ Prunable]]
      /\ UNCHANGED <<inbox, trimmed, lineage, amendments, transitions, committed, births>>
  BY DEF PruneExperiences
<1>2. Prunable \subseteq DOMAIN experiences \ Evidence
  BY DEF Prunable
<1>3. /\ DOMAIN experiences' = DOMAIN experiences \ Prunable
      /\ \A e \in DOMAIN experiences' : experiences'[e] = experiences[e]
  BY <1>1
<1>4. /\ DOMAIN experiences \in SUBSET Nat /\ Bounded(DOMAIN experiences)
      /\ experiences \in [DOMAIN experiences -> Experience]
  BY DEF StoreInv, StoreType
<1>5. DOMAIN experiences' \subseteq Nat /\ Bounded(DOMAIN experiences')
  <2>1. DOMAIN experiences' \in SUBSET DOMAIN experiences
    BY <1>3
  <2>. QED BY <1>4, <2>1, BoundedShrinks
<1>6. experiences' \in [DOMAIN experiences' -> Experience]
  BY <1>1, <1>4
<1>7. /\ revisions \in Seq(Revision) /\ DOMAIN revisions' = DOMAIN revisions
      /\ DOMAIN revisions = 1..Len(revisions)
  BY <1>1 DEF StoreInv, StoreType
<1>8. ASSUME NEW r \in DOMAIN revisions
      PROVE  /\ revisions'[r] \in Revision
             /\ revisions'[r].parent = revisions[r].parent
             /\ revisions'[r].amendments = revisions[r].amendments
             /\ revisions'[r].described = revisions[r].described
             /\ revisions'[r].experiences = revisions[r].experiences \ Prunable
  <2>1. revisions[r] \in Revision
    BY <1>7
  <2>2. revisions'[r] = [revisions[r] EXCEPT !.experiences = @ \ Prunable]
    BY <1>1
  <2>. QED BY <2>1, <2>2 DEF Revision
<1>9. revisions' \in Seq(Revision)
  <2>1. PICK n : n = Len(revisions)
    OBVIOUS
  <2>2. revisions' \in [1..n -> Revision]
    BY <1>1, <1>7, <1>8, <2>1
  <2>3. n \in Nat
    BY <1>7, <2>1
  <2>. QED BY <2>2, <2>3
<1>10. StoreType'
  BY <1>1, <1>5, <1>6, <1>9 DEF StoreInv, StoreType, Existing
<1>11. PointerHere' /\ SourcesKept'
  BY <1>1, <1>3, <1>7, <1>8 DEF StoreInv, PointerHere, SourcesKept, Existing
<1>12. CheckpointOfLast' /\ InboxWhole' /\ PointerPath' /\ ReflectedOnce'
  BY <1>1 DEF StoreInv, CheckpointOfLast, InboxWhole, PointerPath, ReflectedOnce, Existing, MaxOf
<1>13. \A i \in DOMAIN amendments : amendments[i].evidence \in DOMAIN experiences'
  <2>. SUFFICES ASSUME NEW i \in DOMAIN amendments
                PROVE  amendments[i].evidence \in DOMAIN experiences'
    OBVIOUS
  <2>1. amendments[i].evidence \in Evidence
    BY DEF Evidence
  <2>2. amendments[i].evidence \in DOMAIN experiences
    BY DEF StoreInv, EvidenceKept
  <2>. QED BY <1>2, <1>3, <2>1, <2>2
<1>14. \A r \in DOMAIN revisions :
         revisions'[r].described \cup revisions'[r].experiences \subseteq DOMAIN experiences'
  <2>. SUFFICES ASSUME NEW r \in DOMAIN revisions
                PROVE  revisions'[r].described \cup revisions'[r].experiences
                         \subseteq DOMAIN experiences'
    OBVIOUS
  <2>1. revisions[r].described \subseteq Evidence
    BY DEF Evidence
  <2>2. revisions[r].described \cup revisions[r].experiences \subseteq DOMAIN experiences
    BY DEF StoreInv, EvidenceKept
  <2>. QED BY <1>2, <1>3, <1>8, <2>1, <2>2
<1>15. EvidenceKept'
  BY <1>1, <1>3, <1>7, <1>13, <1>14 DEF StoreInv, EvidenceKept
<1>. QED BY <1>1, <1>7, <1>8, <1>10, <1>11, <1>12, <1>15 DEF StoreInv, Grows, Existing

LEMMA PruneTransitionsKeeps ==
  ASSUME StoreInv, PruneTransitions
  PROVE  StoreInv' /\ Grows
<1>1. PICK from : from = Len(transitions) - TransitionHeadroom + 1
  OBVIOUS
<1>2. /\ Len(transitions) > TransitionHeadroom
      /\ transitions' = SubSeq(transitions, from, Len(transitions))
      /\ UNCHANGED <<inbox, trimmed, lineage, revisions, experiences, amendments, committed,
                     births>>
  BY <1>1 DEF PruneTransitions
<1>3. transitions \in Seq(Move) /\ from \in 1..Len(transitions) + 1 /\ TransitionHeadroom \in Nat
  BY <1>1, <1>2, PersonaAssumption DEF StoreInv, StoreType
<1>4. /\ transitions' \in Seq(Move) /\ Len(transitions') = Len(transitions) - from + 1
      /\ \A i \in 1..Len(transitions') : transitions'[i] = transitions[from + i - 1]
  BY <1>2, <1>3
<1>5. StoreType' /\ PointerHere' /\ SourcesKept' /\ InboxWhole' /\ CheckpointOfLast'
  BY <1>2, <1>4 DEF StoreInv, StoreType, PointerHere, SourcesKept, InboxWhole, CheckpointOfLast,
                    Existing, MaxOf
<1>6. ReflectedOnce' /\ EvidenceKept'
  BY <1>2 DEF StoreInv, ReflectedOnce, EvidenceKept, Existing
<1>7. PointerPath'
  <2>1. ASSUME NEW i \in 2..Len(transitions')
        PROVE  transitions'[i].from = transitions'[i - 1].to
    <3>1. /\ from + i - 1 \in 2..Len(transitions)
          /\ i \in 1..Len(transitions') /\ i - 1 \in 1..Len(transitions')
          /\ from + (i - 1) - 1 = (from + i - 1) - 1
      BY <1>3, <1>4
    <3>. QED BY <1>4, <3>1 DEF StoreInv, PointerPath
  <2>2. transitions' # <<>> => transitions'[Len(transitions')] = transitions[Len(transitions)]
    BY <1>3, <1>4
  <2>3. transitions' # <<>> => transitions # <<>>
    BY <1>3, <1>4
  <2>. QED BY <1>2, <2>1, <2>2, <2>3 DEF StoreInv, PointerPath, Existing
<1>. QED BY <1>2, <1>5, <1>6, <1>7 DEF StoreInv, Grows, Existing

LEMMA DeleteKeeps ==
  ASSUME StoreInv, DeleteRows
  PROVE  StoreInv' /\ Grows
<1>1. /\ ~Existing' /\ revisions' = <<>> /\ amendments' = <<>> /\ transitions' = <<>>
      /\ experiences' = <<>> /\ inbox' = <<>> /\ UNCHANGED <<trimmed, committed, births>>
  BY DEF DeleteRows, Existing
<1>2. Bounded({}) /\ DOMAIN inbox' = {} /\ DOMAIN experiences' = {}
  BY <1>1 DEF Bounded
<1>3. MaxOf({}) = 0
  BY <1>2, MaxLargest
<1>4. StoreType'
  BY <1>1, <1>2 DEF StoreInv, StoreType
<1>5. PointerHere' /\ SourcesKept' /\ CheckpointOfLast'
  BY <1>1, <1>2 DEF PointerHere, SourcesKept, CheckpointOfLast
<1>6. InboxWhole'
  <2>1. MaxOf(DOMAIN inbox)' = 0
    BY <1>2, <1>3 DEF MaxOf
  <2>. QED BY <2>1 DEF InboxWhole
<1>7. PointerPath' /\ EvidenceKept'
  BY <1>1, <1>2 DEF PointerPath, EvidenceKept
<1>8. ReflectedOnce'
  BY <1>1 DEF StoreInv, ReflectedOnce
<1>. QED BY <1>1, <1>4, <1>5, <1>6, <1>7, <1>8 DEF StoreInv, Grows
---------------------------------------------------------------------------
(* A commit *)

LEMMA NewExperienceIsNew ==
  ASSUME StoreInv
  PROVE  NewExperience \in Nat /\ NewExperience \notin DOMAIN experiences
<1>1. /\ MaxOf(DOMAIN experiences) \in Nat
      /\ \A e \in DOMAIN experiences : e <= MaxOf(DOMAIN experiences)
  BY MaxLargest DEF StoreInv, StoreType
<1>. QED BY <1>1 DEF NewExperience, StoreInv, StoreType

LEMMA CommittedRun ==
  ASSUME StoreInv
  PROVE  Now \in Nat
BY DEF Now, StoreInv, StoreType

LEMMA ExperiencesKept ==
  ASSUME StoreInv, NEW a, PlanRight(a), NEW X, X = ExperiencesAfter(a)
  PROVE  /\ DOMAIN X = DOMAIN experiences \cup (IF a.drafts = {} THEN {} ELSE {NewExperience})
         /\ X \in [DOMAIN X -> Experience]
         /\ \A e \in DOMAIN experiences : /\ X[e].sources = experiences[e].sources
                                          /\ X[e].born = experiences[e].born
         /\ a.drafts # {} => /\ X[NewExperience].born = births + 1
                             /\ \E x \in a.drafts : X[NewExperience].sources = x.sources
<1>1. DOMAIN X = DOMAIN experiences \cup (IF a.drafts = {} THEN {} ELSE {NewExperience})
  BY DEF ExperiencesAfter
<1>2. ASSUME NEW e \in DOMAIN experiences
      PROVE  /\ X[e] \in Experience /\ X[e].sources = experiences[e].sources
             /\ X[e].born = experiences[e].born
  <2>1. experiences[e] \in Experience
    BY DEF StoreInv, StoreType
  <2>2. X[e] = IF experiences[e].sources \cap a.recalled # {}
               THEN [experiences[e] EXCEPT !.cited = Now] ELSE experiences[e]
    BY DEF ExperiencesAfter
  <2>3. CASE experiences[e].sources \cap a.recalled # {}
    <3>1. X[e] = [experiences[e] EXCEPT !.cited = Now]
      BY <2>2, <2>3
    <3>. QED BY <2>1, <3>1, CommittedRun DEF Experience
  <2>4. CASE experiences[e].sources \cap a.recalled = {}
    BY <2>1, <2>2, <2>4
  <2>. QED BY <2>3, <2>4
<1>3. ASSUME a.drafts # {}
      PROVE  /\ X[NewExperience] \in Experience /\ X[NewExperience].born = births + 1
             /\ \E x \in a.drafts : X[NewExperience].sources = x.sources
  <2>1. PICK x : x = CHOOSE d \in a.drafts : TRUE
    OBVIOUS
  <2>2. x \in a.drafts
    BY <1>3, <2>1
  <2>3. x \in [sources : SUBSET Nat, high : BOOLEAN]
    <3>1. a.read \subseteq Nat
      BY DEF PlanRight, Reads
    <3>. QED BY <2>2, <3>1 DEF PlanRight
  <2>4. X[NewExperience] = [sources |-> x.sources, high |-> x.high, cited |-> Now,
                            born |-> births + 1]
    BY <1>3, <2>1, NewExperienceIsNew DEF ExperiencesAfter
  <2>. QED BY <2>2, <2>3, <2>4, CommittedRun DEF Experience, StoreInv, StoreType
<1>4. X \in [DOMAIN X -> Experience]
  <2>1. \A e \in DOMAIN X : X[e] \in Experience
    BY <1>1, <1>2, <1>3
  <2>2. X = [e \in DOMAIN X |-> X[e]]
    BY <1>1 DEF ExperiencesAfter
  <2>. QED BY <2>1, <2>2
<1>. QED BY <1>1, <1>2, <1>3, <1>4

LEMMA AmendmentsKept ==
  ASSUME StoreInv, NEW a, PlanRight(a), NEW A, A = AmendmentsAfter(a)
  PROVE  /\ A \in Seq(Amendment)
         /\ DOMAIN A = DOMAIN amendments \cup (IF a.amends THEN {NewAmendment} ELSE {})
         /\ NewAmendment \in Nat /\ NewAmendment \notin DOMAIN amendments
         /\ \A i \in DOMAIN amendments : /\ A[i].evidence = amendments[i].evidence
                                         /\ A[i].born = amendments[i].born
         /\ a.amends => /\ A[NewAmendment].evidence = NewExperience
                        /\ A[NewAmendment].born = births + 1
<1>1. PICK kept : kept = [i \in DOMAIN amendments |->
                            IF i \in Removed(a) THEN [amendments[i] EXCEPT !.departed = TRUE]
                            ELSE amendments[i]]
  OBVIOUS
<1>2. PICK new : new = [evidence |-> NewExperience, born |-> births + 1, departed |-> FALSE]
  OBVIOUS
<1>3. A = IF a.amends THEN Append(kept, new) ELSE kept
  BY <1>1, <1>2 DEF AmendmentsAfter
<1>4. PICK n \in Nat : n = Len(amendments) /\ DOMAIN amendments = 1..n
  BY DEF StoreInv, StoreType
<1>5. ASSUME NEW i \in DOMAIN amendments
      PROVE  /\ kept[i] \in Amendment /\ kept[i].evidence = amendments[i].evidence
             /\ kept[i].born = amendments[i].born
  <2>1. amendments[i] \in Amendment
    BY DEF StoreInv, StoreType
  <2>2. CASE i \in Removed(a)
    <3>1. kept[i] = [amendments[i] EXCEPT !.departed = TRUE]
      BY <1>1, <2>2
    <3>. QED BY <2>1, <3>1 DEF Amendment
  <2>3. CASE i \notin Removed(a)
    <3>1. kept[i] = amendments[i]
      BY <1>1, <2>3
    <3>. QED BY <2>1, <3>1
  <2>. QED BY <2>2, <2>3
<1>6. DOMAIN kept = 1..n /\ kept \in [1..n -> Amendment]
  BY <1>1, <1>4, <1>5
<1>7. kept \in Seq(Amendment) /\ Len(kept) = n
  BY <1>6
<1>8. new \in Amendment /\ new.evidence = NewExperience /\ new.born = births + 1
  BY <1>2, NewExperienceIsNew DEF Amendment, StoreInv, StoreType
<1>9. NewAmendment = n + 1
  BY <1>4 DEF NewAmendment
<1>10. CASE a.amends
  <2>1. A = Append(kept, new)
    BY <1>3, <1>10
  <2>2. /\ A \in Seq(Amendment) /\ DOMAIN A = 1..n + 1 /\ A[n + 1] = new
        /\ \A i \in 1..n : A[i] = kept[i]
    BY <1>7, <1>8, <2>1
  <2>3. DOMAIN A = DOMAIN amendments \cup {NewAmendment}
    BY <1>4, <1>9, <2>2
  <2>. QED BY <1>4, <1>5, <1>8, <1>9, <1>10, <2>2, <2>3
<1>11. CASE ~a.amends
  <2>1. A = kept
    BY <1>3, <1>11
  <2>. QED BY <1>4, <1>5, <1>6, <1>7, <1>9, <1>11, <2>1
<1>. QED BY <1>10, <1>11

LEMMA RevisionMade ==
  ASSUME StoreInv, NEW a, PlanRight(a), a.base \in DOMAIN revisions, NEW R, R = RevisionAfter(a)
  PROVE  /\ R \in Revision
         /\ R.described \cup R.experiences
              \subseteq revisions[a.base].described \cup revisions[a.base].experiences
                        \cup (IF a.drafts = {} THEN {} ELSE {NewExperience})
<1>1. revisions[a.base] \in Revision /\ a.base \in Nat
  BY DEF StoreInv, StoreType
<1>2. PICK new : new = IF a.drafts = {} THEN {} ELSE {NewExperience}
  OBVIOUS
<1>3. PICK d : d = IF Rewrites(a) THEN a.description ELSE revisions[a.base].description
  OBVIOUS
<1>4. PICK s : s = IF Rewrites(a) THEN new ELSE revisions[a.base].described
  OBVIOUS
<1>5. PICK m : m = (revisions[a.base].amendments \ Removed(a))
                   \cup (IF a.amends THEN {NewAmendment} ELSE {})
  OBVIOUS
<1>6. PICK x : x = revisions[a.base].experiences \cup new
  OBVIOUS
<1>7. R = [parent |-> a.base, description |-> d, described |-> s, experiences |-> x,
           amendments |-> m]
  BY <1>2, <1>3, <1>4, <1>5, <1>6 DEF RevisionAfter
<1>8. new \subseteq Nat /\ x \subseteq Nat
  BY <1>1, <1>2, <1>6, NewExperienceIsNew DEF Revision
<1>9. d \in {Baseline} \cup Descriptions
  BY <1>1, <1>3 DEF Rewrites, PlanRight, Revision
<1>10. s \subseteq Nat /\ s \subseteq revisions[a.base].described \cup new
  BY <1>1, <1>4, <1>8 DEF Revision
<1>11. m \subseteq Nat
  <2>1. NewAmendment \in Nat
    BY DEF NewAmendment, StoreInv, StoreType
  <2>. QED BY <1>1, <1>5, <2>1 DEF Revision
<1>12. R \in Revision
  BY <1>1, <1>7, <1>8, <1>9, <1>10, <1>11 DEF Revision
<1>13. R.described = s /\ R.experiences = x
  BY <1>7
<1>. QED BY <1>2, <1>6, <1>10, <1>12, <1>13

\* The committed runs after one more.
LEMMA RunsGrow ==
  ASSUME StoreInv, Existing, NEW a, PlanRight(a), Unmoved(a), trimmed' = trimmed,
         lineage'.checkpoint = a.high,
         committed' = Append(committed, [prior |-> a.prior, high |-> a.high, read |-> a.read])
  PROVE  committed' \in Seq(Run) /\ ReflectedOnce' /\ CheckpointOfLast'
<1>1. PICK run : run = [prior |-> a.prior, high |-> a.high, read |-> a.read]
  OBVIOUS
<1>2. /\ run \in Run /\ run.prior = a.prior /\ run.high = a.high /\ run.read = a.read
      /\ lineage.checkpoint = a.prior
  BY <1>1 DEF Run, PlanRight, Reads, Unmoved, SameCheckpoint
<1>3. PICK n : n = Len(committed)
  OBVIOUS
<1>4. committed \in Seq(Run) /\ committed' = Append(committed, run) /\ n \in Nat
  BY <1>1, <1>3 DEF StoreInv, StoreType
<1>5. /\ committed' \in Seq(Run) /\ Len(committed') = n + 1 /\ DOMAIN committed' = 1..n + 1
      /\ committed'[n + 1] = run /\ \A i \in 1..n : committed'[i] = committed[i]
  BY <1>2, <1>3, <1>4
<1>6. CheckpointOfLast'
  BY <1>2, <1>5 DEF CheckpointOfLast
<1>7. ASSUME NEW i \in 2..Len(committed')
      PROVE  committed'[i].prior = committed'[i - 1].high
  <2>1. CASE i = n + 1
    <3>1. n # 0 /\ committed # <<>> /\ n \in 1..n
      BY <1>3, <1>4, <2>1
    <3>2. committed[n].high = a.prior
      BY <1>2, <1>3, <3>1 DEF StoreInv, CheckpointOfLast
    <3>. QED BY <1>2, <1>4, <1>5, <2>1, <3>1, <3>2
  <2>2. CASE i # n + 1
    <3>1. i \in 2..n /\ i \in 1..n /\ i - 1 \in 1..n
      BY <1>4, <1>5, <2>2
    <3>2. committed[i].prior = committed[i - 1].high
      BY <1>3, <3>1 DEF StoreInv, ReflectedOnce
    <3>. QED BY <1>5, <3>1, <3>2
  <2>. QED BY <2>1, <2>2
<1>8. ASSUME NEW k \in 1..a.high
      PROVE  k \in trimmed \/ \E i \in DOMAIN committed' : k \in committed'[i].read
  <2>1. CASE k <= a.prior
    <3>1. k \in 1..lineage.checkpoint
      BY <1>2, <2>1 DEF PlanRight
    <3>2. k \in trimmed \/ \E i \in DOMAIN committed : k \in committed[i].read
      BY <3>1 DEF StoreInv, ReflectedOnce
    <3>3. DOMAIN committed = 1..n
      BY <1>3, <1>4
    <3>. QED BY <1>4, <1>5, <3>2, <3>3
  <2>2. CASE k > a.prior
    <3>1. k \in a.prior + 1 .. a.high
      BY <2>2 DEF PlanRight
    <3>2. k \in a.read \cup trimmed
      BY <3>1 DEF PlanRight, Reads
    <3>. QED BY <1>2, <1>4, <1>5, <3>2
  <2>. QED BY <2>1, <2>2 DEF PlanRight
<1>9. ReflectedOnce'
  BY <1>7, <1>8 DEF ReflectedOnce
<1>. QED BY <1>5, <1>6, <1>9

LEMMA CommitKeeps ==
  ASSUME StoreInv, NEW a, PlanRight(a), Commit(a)
  PROVE  StoreInv' /\ Grows
<1>1. /\ Existing /\ Unmoved(a) /\ a.amends \in BOOLEAN /\ (a.amends => a.drafts # {})
      /\ \A x \in a.drafts : x.sources \subseteq DOMAIN inbox
      /\ experiences' = ExperiencesAfter(a)
      /\ committed' = Append(committed, [prior |-> a.prior, high |-> a.high, read |-> a.read])
      /\ UNCHANGED <<inbox, trimmed>>
  BY DEF Commit, SourceMissing, PlanRight
<1>2. /\ lineage \in [current : Nat, checkpoint : Nat] /\ a.high \in Nat
      /\ a.base = lineage.current /\ a.base \in DOMAIN revisions
  BY <1>1 DEF StoreInv, StoreType, PointerHere, PlanRight, Unmoved, SamePointer
<1>3. PICK X : X = ExperiencesAfter(a)
  OBVIOUS
<1>4. PICK fresh : fresh = IF a.drafts = {} THEN {} ELSE {NewExperience}
  OBVIOUS
<1>5. /\ experiences' = X /\ DOMAIN X = DOMAIN experiences \cup fresh
      /\ X \in [DOMAIN X -> Experience]
      /\ \A e \in DOMAIN experiences : /\ X[e].sources = experiences[e].sources
                                       /\ X[e].born = experiences[e].born
      /\ a.drafts # {} => /\ X[NewExperience].born = births + 1
                          /\ \E x \in a.drafts : X[NewExperience].sources = x.sources
  <2>1. /\ DOMAIN X = DOMAIN experiences \cup (IF a.drafts = {} THEN {} ELSE {NewExperience})
        /\ X \in [DOMAIN X -> Experience]
        /\ \A e \in DOMAIN experiences : /\ X[e].sources = experiences[e].sources
                                         /\ X[e].born = experiences[e].born
        /\ a.drafts # {} => /\ X[NewExperience].born = births + 1
                            /\ \E x \in a.drafts : X[NewExperience].sources = x.sources
    BY <1>3, ExperiencesKept
  <2>. QED BY <1>1, <1>3, <1>4, <2>1
<1>6. DOMAIN X \subseteq Nat /\ Bounded(DOMAIN X)
  <2>1. DOMAIN experiences \in SUBSET Nat /\ Bounded(DOMAIN experiences)
    BY DEF StoreInv, StoreType
  <2>2. CASE fresh = {}
    BY <1>5, <2>1, <2>2
  <2>3. CASE fresh = {NewExperience}
    BY <1>5, <2>1, <2>3, BoundedGrows, NewExperienceIsNew
  <2>. QED BY <1>4, <2>2, <2>3
<1>7. \A e \in DOMAIN X : X[e].sources \subseteq DOMAIN inbox
  <2>. SUFFICES ASSUME NEW e \in DOMAIN X PROVE X[e].sources \subseteq DOMAIN inbox
    OBVIOUS
  <2>1. CASE e \in DOMAIN experiences
    BY <1>5, <2>1 DEF StoreInv, SourcesKept
  <2>2. CASE e \notin DOMAIN experiences
    BY <1>1, <1>4, <1>5, <2>2
  <2>. QED BY <2>1, <2>2
<1>8. /\ lineage' \in [current : Nat, checkpoint : Nat] /\ lineage'.checkpoint = a.high
      /\ lineage'.current \in DOMAIN revisions'
      /\ revisions' \in Seq(Revision)
      /\ \A r \in DOMAIN revisions : r \in DOMAIN revisions' /\ revisions'[r] = revisions[r]
      /\ \A r \in DOMAIN revisions' :
           revisions'[r].described \cup revisions'[r].experiences \subseteq DOMAIN X
  <2>1. \A r \in DOMAIN revisions :
          revisions[r].described \cup revisions[r].experiences \subseteq DOMAIN X
    BY <1>5 DEF StoreInv, EvidenceKept
  <2>2. CASE NothingNew(a)
    <3>1. lineage' = [lineage EXCEPT !.checkpoint = a.high] /\ revisions' = revisions
      BY <2>2 DEF Commit
    <3>2. /\ lineage' \in [current : Nat, checkpoint : Nat] /\ lineage'.checkpoint = a.high
          /\ lineage'.current = lineage.current
      BY <1>2, <3>1
    <3>. QED BY <1>2, <2>1, <3>1, <3>2 DEF StoreInv, StoreType
  <2>3. CASE ~NothingNew(a)
    <3>1. PICK R : R = RevisionAfter(a)
      OBVIOUS
    <3>2. /\ revisions' = Append(revisions, R)
          /\ lineage' = [current |-> Len(revisions) + 1, checkpoint |-> a.high]
      BY <2>3, <3>1 DEF Commit
    <3>3. /\ R \in Revision
          /\ R.described \cup R.experiences
               \subseteq revisions[a.base].described \cup revisions[a.base].experiences \cup fresh
      BY <1>2, <1>4, <3>1, RevisionMade
    <3>4. R.described \cup R.experiences \subseteq DOMAIN X
      BY <1>2, <1>5, <2>1, <3>3
    <3>5. /\ revisions' \in Seq(Revision) /\ Len(revisions) \in Nat
          /\ DOMAIN revisions' = DOMAIN revisions \cup {Len(revisions) + 1}
          /\ \A r \in DOMAIN revisions : revisions'[r] = revisions[r]
          /\ revisions'[Len(revisions) + 1] = R
      BY <3>2, <3>3, RevisionsGrow
    <3>6. lineage'.current = Len(revisions) + 1 /\ lineage'.checkpoint = a.high
      BY <3>2
    <3>7. lineage' \in [current : Nat, checkpoint : Nat]
      BY <1>2, <3>2, <3>5
    <3>. QED BY <2>1, <3>4, <3>5, <3>6, <3>7
  <2>. QED BY <2>2, <2>3
<1>9. /\ amendments' \in Seq(Amendment)
      /\ \A i \in DOMAIN amendments' :
           /\ amendments'[i].evidence \in DOMAIN X
           /\ X[amendments'[i].evidence].born = amendments'[i].born
  <2>1. ASSUME NEW i \in DOMAIN amendments
        PROVE  /\ amendments[i].evidence \in DOMAIN X
               /\ X[amendments[i].evidence].born = amendments[i].born
    <3>1. /\ amendments[i].evidence \in DOMAIN experiences
          /\ experiences[amendments[i].evidence].born = amendments[i].born
      BY DEF StoreInv, EvidenceKept
    <3>. QED BY <1>5, <3>1
  <2>2. CASE NothingNew(a)
    <3>1. amendments' = amendments
      BY <2>2 DEF Commit
    <3>. QED BY <2>1, <3>1 DEF StoreInv, StoreType
  <2>3. CASE ~NothingNew(a)
    <3>1. PICK A : A = AmendmentsAfter(a)
      OBVIOUS
    <3>2. amendments' = A
      BY <2>3, <3>1 DEF Commit
    <3>3. /\ A \in Seq(Amendment)
          /\ DOMAIN A = DOMAIN amendments \cup (IF a.amends THEN {NewAmendment} ELSE {})
          /\ \A i \in DOMAIN amendments : /\ A[i].evidence = amendments[i].evidence
                                          /\ A[i].born = amendments[i].born
          /\ a.amends => /\ A[NewAmendment].evidence = NewExperience
                         /\ A[NewAmendment].born = births + 1
      BY <3>1, AmendmentsKept
    <3>4. a.amends => NewExperience \in DOMAIN X /\ X[NewExperience].born = births + 1
      BY <1>1, <1>4, <1>5
    <3>5. ASSUME NEW i \in DOMAIN A
          PROVE  A[i].evidence \in DOMAIN X /\ X[A[i].evidence].born = A[i].born
      <4>1. CASE i \in DOMAIN amendments
        BY <2>1, <3>3, <4>1
      <4>2. CASE i \notin DOMAIN amendments
        <5>1. a.amends /\ i = NewAmendment
          BY <3>3, <4>2
        <5>. QED BY <3>3, <3>4, <5>1
      <4>. QED BY <4>1, <4>2
    <3>. QED BY <3>2, <3>3, <3>5
  <2>. QED BY <2>2, <2>3
<1>10. transitions' \in Seq(Move) /\ PointerPath'
  <2>1. CASE NothingNew(a)
    <3>1. lineage' = [lineage EXCEPT !.checkpoint = a.high] /\ transitions' = transitions
      BY <2>1 DEF Commit
    <3>2. lineage'.current = lineage.current
      BY <1>2, <3>1
    <3>. QED BY <1>1, <3>1, <3>2 DEF StoreInv, StoreType, PointerPath
  <2>2. CASE ~NothingNew(a)
    <3>1. PICK target : target = Len(revisions) + 1
      OBVIOUS
    <3>2. /\ lineage' = [current |-> target, checkpoint |-> a.high]
          /\ transitions' = Append(transitions, [from |-> a.base, to |-> target])
      BY <2>2, <3>1 DEF Commit
    <3>3. target \in Nat
      BY <3>1 DEF StoreInv, StoreType
    <3>4. lineage'.current = target
      BY <3>2
    <3>. QED BY <1>1, <1>2, <3>2, <3>3, <3>4, PathGrows
  <2>. QED BY <2>1, <2>2
<1>11. births' \in Nat
  <2>1. Cardinality(a.drafts) \in Nat
    <3>1. a.drafts = {} \/ \E x : a.drafts = {x}
      BY DEF PlanRight
    <3>2. CASE a.drafts = {}
      BY <3>2, FS_EmptySet
    <3>3. ASSUME NEW x, a.drafts = {x} PROVE Cardinality(a.drafts) = 1
      BY <3>3, FS_Singleton, Zenon
    <3>. QED BY <3>1, <3>2, <3>3
  <2>2. births' = births \/ births' = births + Cardinality(a.drafts)
    BY DEF Commit
  <2>. QED BY <2>1, <2>2 DEF StoreInv, StoreType
<1>12. committed' \in Seq(Run) /\ ReflectedOnce' /\ CheckpointOfLast'
  BY <1>1, <1>8, RunsGrow
<1>13. StoreType'
  BY <1>1, <1>5, <1>6, <1>8, <1>9, <1>10, <1>11, <1>12 DEF StoreInv, StoreType
<1>14. PointerHere'
  BY <1>1, <1>8 DEF StoreInv, PointerHere
<1>15. SourcesKept' /\ InboxWhole'
  BY <1>1, <1>5, <1>7 DEF StoreInv, SourcesKept, InboxWhole, MaxOf
<1>16. EvidenceKept'
  BY <1>1, <1>5, <1>7, <1>8, <1>9 DEF EvidenceKept
<1>. QED BY <1>1, <1>8, <1>10, <1>12, <1>13, <1>14, <1>15, <1>16 DEF StoreInv, Grows
---------------------------------------------------------------------------
(* What a worker holds *)

LEMMA PageReads ==
  ASSUME StoreInv, Existing, NEW page, page = PageOf(Pending)
  PROVE  /\ Through(page) \in Nat
         /\ Reads(lineage.checkpoint, Through(page), page)
<1>1. PICK prior \in Nat : prior = lineage.checkpoint
  BY DEF StoreInv, StoreType
<1>2. PICK P : P = {n \in DOMAIN inbox : n > prior}
  OBVIOUS
<1>3. Pending = P
  BY <1>1, <1>2 DEF Pending
<1>4. P \in SUBSET Nat /\ Bounded(P)
  <2>1. DOMAIN inbox \in SUBSET Nat /\ Bounded(DOMAIN inbox)
    BY DEF StoreInv, StoreType
  <2>. QED BY <1>2, <2>1, BoundedShrinks
<1>5. page = {n \in P : Cardinality({m \in P : m < n}) < Page}
  BY <1>3 DEF PageOf
<1>6. page \cup {prior} \in SUBSET Nat /\ Bounded(page \cup {prior})
  <2>1. page \in SUBSET P
    BY <1>5
  <2>2. page \in SUBSET Nat /\ Bounded(page)
    BY <1>4, <2>1, BoundedShrinks
  <2>. QED BY <2>2, BoundedGrows
<1>7. PICK high : high = Through(page)
  OBVIOUS
<1>8. high = MaxOf(page \cup {prior})
  BY <1>1, <1>7 DEF Through
<1>9. /\ high \in Nat /\ \A x \in page \cup {prior} : x <= high
      /\ high # 0 => high \in page \cup {prior}
  BY <1>6, <1>8, MaxLargest
<1>10. prior <= high /\ page \subseteq prior + 1 .. high
  <2>1. \A n \in page : n \in Nat /\ n > prior /\ n <= high
    BY <1>2, <1>4, <1>5, <1>9
  <2>. QED BY <1>9, <2>1
<1>11. ASSUME NEW k \in prior + 1 .. high
       PROVE  k \in page \cup trimmed
  <2>1. high \in page /\ high \in P /\ high \in DOMAIN inbox
    BY <1>2, <1>5, <1>9
  <2>2. k \in DOMAIN inbox \cup trimmed
    <3>1. MaxOf(DOMAIN inbox) \in Nat /\ high <= MaxOf(DOMAIN inbox)
      BY <2>1, MaxLargest DEF StoreInv, StoreType
    <3>2. k \in 1..MaxOf(DOMAIN inbox)
      BY <1>9, <3>1
    <3>. QED BY <3>2 DEF StoreInv, InboxWhole
  <2>3. ASSUME k \in DOMAIN inbox
        PROVE  k \in page
    <3>1. k \in P /\ k <= high
      BY <1>2, <1>9, <2>3
    <3>2. PICK below : below = {m \in P : m < high}
      OBVIOUS
    <3>3. PICK nearer : nearer = {m \in P : m < k}
      OBVIOUS
    <3>4. IsFiniteSet(below)
      <4>1. \A m \in below : m <= high
        BY <1>4, <1>9, <3>2
      <4>2. below \in SUBSET Nat
        BY <1>4, <3>2
      <4>. QED BY <1>9, <4>1, <4>2, FS_BoundedSetOfNaturals
    <3>5. nearer \in SUBSET below
      <4>1. \A m \in P : m < k => m < high
        BY <1>4, <1>9, <3>1
      <4>. QED BY <3>2, <3>3, <4>1
    <3>6. /\ Cardinality(nearer) \in Nat /\ Cardinality(below) \in Nat
          /\ Cardinality(nearer) <= Cardinality(below)
      BY <3>4, <3>5, FS_Subset, FS_CardinalityType
    <3>7. Cardinality(below) < Page
      BY <1>5, <2>1, <3>2
    <3>8. Cardinality(nearer) < Page
      BY <3>6, <3>7, PersonaAssumption
    <3>. QED BY <1>5, <3>1, <3>3, <3>8
  <2>. QED BY <2>2, <2>3
<1>. QED BY <1>1, <1>7, <1>9, <1>10, <1>11 DEF Reads

LEMMA SnapshotRight ==
  ASSUME StoreInv, Existing, NEW s, s = Snapshot
  PROVE  SnapRight(s)
<1>1. PICK page : page = PageOf(Pending)
  OBVIOUS
<1>2. /\ s.base = lineage.current /\ s.prior = lineage.checkpoint /\ s.high = Through(page)
      /\ DOMAIN s.events = page /\ s.active = revisions[lineage.current].amendments
  BY <1>1 DEF Snapshot, Offered
<1>3. lineage.current \in Nat /\ lineage.checkpoint \in Nat /\ lineage.current \in DOMAIN revisions
  BY DEF StoreInv, StoreType, PointerHere
<1>4. Through(page) \in Nat /\ Reads(lineage.checkpoint, Through(page), page)
  BY <1>1, PageReads
<1>. QED BY <1>2, <1>3, <1>4 DEF SnapRight

LEMMA PlanMade ==
  ASSUME NEW s, SnapRight(s), NEW p \in Proposals(s), NEW recalled,
         NEW a, a = Acceptance(p, s, recalled)
  PROVE  PlanRight(a)
<1>1. PICK f : f = [base |-> s.base, prior |-> s.prior, high |-> s.high, recalled |-> recalled,
                    read |-> DOMAIN s.events]
  OBVIOUS
<1>2. PICK Ds : Ds = {{}} \cup {{x} : x \in Drafts(s)}
  OBVIOUS
<1>3. /\ p \in [drafts : Ds, amends : BOOLEAN, global : BOOLEAN,
                supersedes : {None} \cup s.active, retract : SUBSET s.active,
                consolidate : SUBSET s.active, description : {None} \cup Descriptions]
      /\ Valid(p, s)
  BY <1>2 DEF Proposals
<1>4. a = Over(f, p)
  BY <1>1 DEF Acceptance
<1>5. /\ a.base = s.base /\ a.prior = s.prior /\ a.high = s.high /\ a.read = DOMAIN s.events
      /\ a.drafts = p.drafts /\ a.amends = p.amends /\ a.description = p.description
      /\ a.retract = p.retract /\ a.consolidate = p.consolidate /\ a.supersedes = p.supersedes
  BY <1>1, <1>3, <1>4 DEF Over
<1>6. /\ \A x \in p.drafts : x.sources # {} /\ x.sources \subseteq DOMAIN s.events
      /\ p.amends => p.drafts # {}
      /\ Removed(p) \subseteq s.active
  BY <1>3 DEF Valid
<1>7. Removed(a) = Removed(p)
  BY <1>5 DEF Removed
<1>8. a.drafts = {} \/ \E x \in [sources : (SUBSET a.read) \ {{}}, high : BOOLEAN] : a.drafts = {x}
  <2>1. SUFFICES ASSUME p.drafts # {}
                 PROVE  \E x \in [sources : (SUBSET a.read) \ {{}}, high : BOOLEAN] : p.drafts = {x}
    BY <1>5
  <2>2. p.drafts \in Ds
    BY <1>3
  <2>3. PICK x \in Drafts(s) : p.drafts = {x}
    BY <1>2, <2>1, <2>2
  <2>4. x.sources # {} /\ x.sources \subseteq a.read
    BY <1>5, <1>6, <2>3
  <2>5. \E S \in SUBSET DOMAIN s.events, h \in BOOLEAN : x = [sources |-> S, high |-> h]
    BY <2>3 DEF Drafts
  <2>6. x \in [sources : (SUBSET a.read) \ {{}}, high : BOOLEAN]
    BY <2>4, <2>5
  <2>. QED BY <2>3, <2>6
<1>9. a.amends \in BOOLEAN /\ (a.amends => a.drafts # {})
  BY <1>3, <1>5, <1>6
<1>10. a.description \in {None} \cup Descriptions
  BY <1>3, <1>5
<1>11. /\ a.base \in Nat /\ a.prior \in Nat /\ a.high \in Nat /\ Reads(a.prior, a.high, a.read)
       /\ Existing => /\ a.base \in DOMAIN revisions
                      /\ Removed(a) \subseteq revisions[a.base].amendments
  BY <1>5, <1>6, <1>7 DEF SnapRight
<1>. QED BY <1>8, <1>9, <1>10, <1>11 DEF PlanRight

\* A worker that holds a reading or a plan that was right.
HeldRight(r) ==
  /\ r.pc \in {"explore", "ask"} => SnapRight(r.snap)
  /\ r.pc \in {"answered", "commit"} => PlanRight(r.plan)

LEMMA HeldStaysRight ==
  ASSUME Grows, NEW r, HeldRight(r)
  PROVE  HeldRight(r)'
<1>1. ASSUME NEW s, SnapRight(s) PROVE SnapRight(s)'
  BY <1>1 DEF SnapRight, Reads, Grows
<1>2. ASSUME NEW p, PlanRight(p) PROVE PlanRight(p)'
  <2>1. Existing' => /\ p.base \in DOMAIN revisions'
                     /\ Removed(p) \subseteq revisions'[p.base].amendments
    BY <1>2 DEF PlanRight, Grows
  <2>2. Reads(p.prior, p.high, p.read)'
    BY <1>2 DEF PlanRight, Reads, Grows
  <2>. QED BY <1>2, <2>1, <2>2 DEF PlanRight, Reads, Removed
<1>. QED BY <1>1, <1>2 DEF HeldRight
---------------------------------------------------------------------------
(* Goroutines *)

\* Past the reading of its snapshot: what such a worker does reaches the index.
Deep(r) == r.pc \in {"explore", "ask", "answered", "commit", "index"}

\* A running worker's record.
Made(r) ==
  /\ {"pc", "sched", "cancelled", "woken", "rested"} \subseteq DOMAIN r
  /\ r.pc \in {"read", "parked", "cooling", "explore", "ask", "answered", "commit", "index"}
  /\ r.pc \in {"explore", "ask"} => "snap" \in DOMAIN r
  /\ r.pc \in {"answered", "commit"} => "plan" \in DOMAIN r
  /\ r.sched \in Range(Schedulers)

GoroutineType ==
  /\ DOMAIN worker = Workers
  /\ \A w \in Workers : worker[w] = Idle \/ Made(worker[w])
  /\ tracked \in [Range(Schedulers) -> Workers \cup {None}]
  /\ forgotten \in [Range(Schedulers) -> Workers \cup {None}]
  /\ current \in {None} \cup Range(Schedulers) /\ made \in Seq(Range(Schedulers))
  \* A wake-up in hand is for the current scheduler, or comes to nothing.
  /\ waking \in [Range(Schedulers) -> Nat] /\ halting \in Nat
  /\ \A s \in Range(Schedulers) : waking[s] > 0 => s = current \/ s \in stopping

\* The schedulers somebody is about to notify.
Due(s) == s = current \/ (s \in Range(Schedulers) /\ waking[s] > 0)

HeldAllRight == \A w \in Workers : HeldRight(worker[w])

\* From one record to the next: a step of a worker that goes on.
Proceeds(q, r) ==
  /\ Made(r) /\ r.sched = q.sched /\ HeldRight(r)
  /\ Deep(r) => Deep(q) \/ Existing

LEMMA IdleRecord == Idle.pc = "none" /\ ~Deep(Idle) /\ HeldRight(Idle)
BY DEF Idle, Deep, HeldRight

\* The steps that only move the counter.
LEMMA CounterMoves ==
  ASSUME NEW q, Made(q), NEW pc \in {"read", "parked", "cooling", "index"},
         NEW r, DOMAIN r = DOMAIN q, r.pc = pc, r.sched = q.sched, Deep(r) => Deep(q)
  PROVE  Proceeds(q, r)
BY DEF Proceeds, Made, HeldRight

LEMMA AgainProceeds ==
  ASSUME NEW w \in Workers, Made(worker[w]), NEW r, r = Again(w)
  PROVE  Proceeds(worker[w], r) /\ ~Deep(r)
BY DEF Again, Proceeds, Made, HeldRight, Deep

WorkerShared == <<schedulers, told, commands, cleanup, awaited, marker, overtaken>>

LEMMA WorkResult ==
  ASSUME StoreInv, GoroutineType, HeldAllRight, NEW w \in Workers, Work(w)
  PROVE  /\ Made(worker[w])
         /\ \/ Ends(w)
            \/ /\ \E r : Goes(w, r) /\ Proceeds(worker[w], r)
               /\ UNCHANGED WorkerShared
         /\ index' = index \/ Deep(worker[w])
         /\ UNCHANGED store \/ (At(w, "commit") /\ Commit(worker[w].plan))
<1>1. PICK q : q = worker[w]
  OBVIOUS
<1>2. q = Idle \/ Made(q)
  BY <1>1 DEF GoroutineType
<1>3. Made(q)
  <2>1. q.pc # "none"
    BY <1>1 DEF Work, GiveUp, Ready, Park, Cool, Woken, Timer, Dismissed, Explore, Answer, Fail,
                Decide, Accept, Stale, Index, At
  <2>. QED BY <1>2, <2>1, IdleRecord
<1>4. HeldRight(q)
  BY <1>1 DEF HeldAllRight
<1>5. CASE GiveUp(w) \/ Dismissed(w)
  <2>1. Ends(w)
    BY <1>5 DEF GiveUp, Dismissed
  <2>2. index' = index /\ UNCHANGED store
    BY <2>1 DEF Ends
  <2>. QED BY <1>1, <1>3, <2>1, <2>2
<1>6. ASSUME Kept, NEW r, Goes(w, r), Proceeds(q, r)
      PROVE  /\ Made(worker[w])
             /\ \E x : Goes(w, x) /\ Proceeds(worker[w], x)
             /\ UNCHANGED WorkerShared /\ index' = index /\ UNCHANGED store
  BY <1>1, <1>3, <1>6 DEF Kept, WorkerShared, deletion
<1>7. CASE Ready(w)
  <2>1. PICK s : s = Snapshot
    OBVIOUS
  <2>2. PICK r : r = Over([pc |-> "explore", snap |-> s], q)
    OBVIOUS
  <2>3. Kept /\ Goes(w, r) /\ Existing
    BY <1>1, <1>7, <2>1, <2>2 DEF Ready
  <2>4. /\ r.pc = "explore" /\ r.snap = s /\ "snap" \in DOMAIN r
        /\ {"pc", "sched", "cancelled", "woken", "rested"} \subseteq DOMAIN r
        /\ r.sched = q.sched
    BY <1>3, <2>2 DEF Over, Made
  <2>5. SnapRight(s)
    BY <2>1, <2>3, SnapshotRight
  <2>6. Proceeds(q, r)
    BY <1>3, <2>3, <2>4, <2>5 DEF Proceeds, Made, HeldRight
  <2>. QED BY <1>6, <2>3, <2>6
<1>8. CASE Park(w)
  <2>1. PICK r : r = [q EXCEPT !.pc = "parked"]
    OBVIOUS
  <2>2. Kept /\ Goes(w, r)
    BY <1>1, <1>8, <2>1 DEF Park
  <2>3. DOMAIN r = DOMAIN q /\ r.pc = "parked" /\ r.sched = q.sched
    BY <1>3, <2>1 DEF Made
  <2>4. Proceeds(q, r)
    BY <1>3, <2>3, CounterMoves DEF Deep
  <2>. QED BY <1>6, <2>2, <2>4
<1>9. CASE Cool(w)
  <2>1. PICK r : r = [q EXCEPT !.pc = "cooling"]
    OBVIOUS
  <2>2. Kept /\ Goes(w, r)
    BY <1>1, <1>9, <2>1 DEF Cool
  <2>3. DOMAIN r = DOMAIN q /\ r.pc = "cooling" /\ r.sched = q.sched
    BY <1>3, <2>1 DEF Made
  <2>4. Proceeds(q, r)
    BY <1>3, <2>3, CounterMoves DEF Deep
  <2>. QED BY <1>6, <2>2, <2>4
<1>10. CASE Woken(w)
  <2>1. PICK r : r = [q EXCEPT !.pc = "read", !.woken = FALSE]
    OBVIOUS
  <2>2. Kept /\ Goes(w, r)
    BY <1>1, <1>10, <2>1 DEF Woken
  <2>3. DOMAIN r = DOMAIN q /\ r.pc = "read" /\ r.sched = q.sched
    BY <1>3, <2>1 DEF Made
  <2>4. Proceeds(q, r)
    BY <1>3, <2>3, CounterMoves DEF Deep
  <2>. QED BY <1>6, <2>2, <2>4
<1>11. CASE Timer(w)
  <2>1. PICK r : r = [q EXCEPT !.pc = "read", !.rested = TRUE]
    OBVIOUS
  <2>2. Kept /\ Goes(w, r)
    BY <1>1, <1>11, <2>1 DEF Timer
  <2>3. DOMAIN r = DOMAIN q /\ r.pc = "read" /\ r.sched = q.sched
    BY <1>3, <2>1 DEF Made
  <2>4. Proceeds(q, r)
    BY <1>3, <2>3, CounterMoves DEF Deep
  <2>. QED BY <1>6, <2>2, <2>4
<1>12. CASE Explore(w)
  <2>1. PICK r : r = Over([pc |-> "ask", start |-> mode], q)
    OBVIOUS
  <2>2. /\ q.pc = "explore" /\ Goes(w, r)
        /\ UNCHANGED <<store, schedulers, told, commands, deletion>>
    BY <1>1, <1>12, <2>1 DEF Explore, At
  <2>3. /\ r.pc = "ask" /\ r.snap = q.snap /\ "snap" \in DOMAIN r
        /\ {"pc", "sched", "cancelled", "woken", "rested"} \subseteq DOMAIN r
        /\ r.sched = q.sched
    BY <1>3, <2>1, <2>2 DEF Over, Made
  <2>4. Proceeds(q, r) /\ Deep(q)
    BY <1>3, <1>4, <2>2, <2>3 DEF Proceeds, Made, HeldRight, Deep
  <2>. QED BY <1>1, <1>3, <2>2, <2>4 DEF WorkerShared, deletion
<1>13. CASE Answer(w)
  <2>1. PICK p \in Proposals(worker[w].snap), recalled \in {{}, Cited} :
          Goes(w, Over([pc |-> "answered", start |-> worker[w].start,
                        plan |-> Acceptance(p, worker[w].snap, recalled)], Again(w)))
    BY <1>13 DEF Answer
  <2>2. PICK a : a = Acceptance(p, q.snap, recalled)
    OBVIOUS
  <2>3. PICK g : g = Again(w)
    OBVIOUS
  <2>4. PICK r : r = Over([pc |-> "answered", start |-> q.start, plan |-> a], g)
    OBVIOUS
  <2>5. q.pc = "ask" /\ Kept /\ Goes(w, r)
    BY <1>1, <1>13, <2>1, <2>2, <2>3, <2>4 DEF Answer, At
  <2>6. Made(g) /\ g.sched = q.sched
    BY <1>1, <1>3, <2>3, AgainProceeds DEF Proceeds
  <2>7. /\ r.pc = "answered" /\ r.plan = a /\ "plan" \in DOMAIN r
        /\ {"pc", "sched", "cancelled", "woken", "rested"} \subseteq DOMAIN r
        /\ r.sched = q.sched
    BY <2>4, <2>6 DEF Over, Made
  <2>8. PICK s : s = q.snap
    OBVIOUS
  <2>9. SnapRight(s) /\ p \in Proposals(s) /\ a = Acceptance(p, s, recalled)
    BY <1>1, <1>4, <2>2, <2>5, <2>8 DEF HeldRight
  <2>10. PlanRight(a)
    BY <2>9, PlanMade
  <2>11. Proceeds(q, r)
    BY <1>3, <2>5, <2>7, <2>10 DEF Proceeds, Made, HeldRight, Deep
  <2>. QED BY <1>6, <2>5, <2>11
<1>14. ASSUME Goes(w, Again(w)), Kept
       PROVE  /\ Made(worker[w])
              /\ \E x : Goes(w, x) /\ Proceeds(worker[w], x)
              /\ UNCHANGED WorkerShared /\ index' = index /\ UNCHANGED store
  <2>1. PICK r : r = Again(w)
    OBVIOUS
  <2>2. Proceeds(q, r)
    BY <1>1, <1>3, <2>1, AgainProceeds
  <2>. QED BY <1>6, <1>14, <2>1, <2>2
<1>15. CASE Fail(w) \/ Stale(w)
  BY <1>14, <1>15 DEF Fail, Stale
<1>16. CASE Decide(w)
  <2>1. CASE Goes(w, Again(w))
    BY <1>14, <1>16, <2>1 DEF Decide
  <2>2. CASE Goes(w, [worker[w] EXCEPT !.pc = "commit"])
    <3>1. PICK r : r = [q EXCEPT !.pc = "commit"]
      OBVIOUS
    <3>2. q.pc = "answered" /\ Kept /\ Goes(w, r)
      BY <1>1, <1>16, <2>2, <3>1 DEF Decide, At
    <3>3. DOMAIN r = DOMAIN q /\ r.pc = "commit" /\ r.sched = q.sched /\ r.plan = q.plan
      BY <1>3, <3>1, <3>2 DEF Made
    <3>4. Proceeds(q, r)
      BY <1>3, <1>4, <3>2, <3>3 DEF Proceeds, Made, HeldRight, Deep
    <3>. QED BY <1>6, <3>2, <3>4
  <2>. QED BY <1>16, <2>1, <2>2 DEF Decide
<1>17. CASE Accept(w)
  <2>1. PICK held : held = [e \in revisions'[lineage'.current].experiences |->
                              experiences'[e].born]
    OBVIOUS
  <2>2. PICK g : g = Again(w)
    OBVIOUS
  <2>3. PICK r : r = Over([pc |-> "index", held |-> held], g)
    OBVIOUS
  <2>4. /\ At(w, "commit") /\ Commit(worker[w].plan) /\ Goes(w, r)
        /\ UNCHANGED <<schedulers, told, commands, index, deletion, left>>
    BY <1>17, <2>1, <2>2, <2>3 DEF Accept
  <2>5. Made(g) /\ g.sched = q.sched
    BY <1>1, <1>3, <2>2, AgainProceeds DEF Proceeds
  <2>6. /\ r.pc = "index"
        /\ {"pc", "sched", "cancelled", "woken", "rested"} \subseteq DOMAIN r
        /\ r.sched = q.sched
    BY <2>3, <2>5 DEF Over, Made
  <2>7. Proceeds(q, r)
    BY <1>1, <1>3, <2>4, <2>6 DEF Proceeds, Made, HeldRight, Deep, At
  <2>. QED BY <1>1, <1>3, <2>4, <2>7 DEF WorkerShared, deletion
<1>18. CASE Index(w)
  <2>1. PICK r : r = Again(w)
    OBVIOUS
  <2>2. /\ q.pc = "index" /\ Goes(w, r)
        /\ UNCHANGED <<store, schedulers, told, commands, deletion>>
    BY <1>1, <1>18, <2>1 DEF Index, At
  <2>3. Proceeds(q, r) /\ Deep(q)
    BY <1>1, <1>3, <2>1, <2>2, AgainProceeds DEF Deep
  <2>. QED BY <1>1, <1>3, <2>2, <2>3 DEF WorkerShared, deletion
<1>. QED
  BY <1>5, <1>7, <1>8, <1>9, <1>10, <1>11, <1>12, <1>13, <1>15, <1>16, <1>17, <1>18 DEF Work
---------------------------------------------------------------------------
(* Steps and goroutines *)

\* The same worker, woken or cancelled at most.
Alike(q, r) ==
  \/ q = Idle /\ r = Idle
  \/ /\ Made(q) /\ Made(r) /\ r.pc = q.pc /\ r.sched = q.sched
     /\ q.pc \in {"explore", "ask"} => r.snap = q.snap
     /\ q.pc \in {"answered", "commit"} => r.plan = q.plan

LEMMA AlikeKeeps ==
  ASSUME NEW q, NEW r, Alike(q, r)
  PROVE  /\ r = Idle \/ Made(r)
         /\ HeldRight(q) => HeldRight(r)
         /\ Deep(r) => Deep(q)
         /\ r.pc # "none" => q.pc # "none" /\ r.sched = q.sched
BY IdleRecord DEF Alike, HeldRight, Deep, Made

LEMMA Unaltered ==
  ASSUME NEW q, q = Idle \/ Made(q)
  PROVE  Alike(q, q)
BY DEF Alike

LEMMA WokenAlike ==
  ASSUME NEW q, q = Idle \/ Made(q), NEW r, r = [q EXCEPT !.woken = TRUE]
  PROVE  Alike(q, r)
<1>1. CASE q = Idle
  <2>1. DOMAIN q = {"pc"} /\ q = [pc |-> "none"]
    BY <1>1 DEF Idle
  <2>2. r = q
    BY <2>1
  <2>. QED BY <1>1, <2>2 DEF Alike
<1>2. CASE Made(q)
  <2>1. DOMAIN r = DOMAIN q /\ \A f \in DOMAIN q : f # "woken" => r[f] = q[f]
    OBVIOUS
  <2>. QED BY <1>2, <2>1 DEF Alike, Made
<1>. QED BY <1>1, <1>2

LEMMA CancelledAlike ==
  ASSUME GoroutineType, NEW ws, worker' = Cancelled(ws)
  PROVE  /\ DOMAIN worker' = Workers
         /\ \A v \in Workers : Alike(worker[v], worker'[v])
<1>1. DOMAIN worker' = Workers
  BY DEF Cancelled
<1>2. ASSUME NEW v \in Workers
      PROVE  Alike(worker[v], worker'[v])
  <2>1. PICK q : q = worker[v]
    OBVIOUS
  <2>2. PICK r : r = worker'[v]
    OBVIOUS
  <2>3. q = Idle \/ Made(q)
    BY <2>1 DEF GoroutineType
  <2>4. r = q \/ (q.pc # "none" /\ r = [q EXCEPT !.cancelled = TRUE])
    BY <2>1, <2>2 DEF Cancelled, Running
  <2>5. CASE r = q
    BY <2>1, <2>2, <2>3, <2>5, Unaltered
  <2>6. CASE q.pc # "none" /\ r = [q EXCEPT !.cancelled = TRUE]
    <3>1. Made(q)
      BY <2>3, <2>6, IdleRecord
    <3>2. DOMAIN r = DOMAIN q /\ \A f \in DOMAIN q : f # "cancelled" => r[f] = q[f]
      BY <2>6
    <3>3. Alike(q, r)
      BY <3>1, <3>2 DEF Alike, Made
    <3>. QED BY <2>1, <2>2, <3>3
  <2>. QED BY <2>4, <2>5, <2>6
<1>. QED BY <1>1, <1>2

\* A new worker of the current scheduler, which tracks it.
Starts(s, v) ==
  /\ s = current /\ s # None /\ s \in Range(Schedulers) /\ s \notin stopping
  /\ v \in Workers /\ worker[v].pc = "none" /\ tracked[s] = None
  /\ tracked' = [tracked EXCEPT ![s] = v] /\ worker' = [worker EXCEPT ![v] = Fresh(s)]

LEMMA NotifiedResult ==
  ASSUME GoroutineType, NEW s, Due(s), Notified(s)
  PROVE  /\ forgotten' = forgotten /\ DOMAIN worker' = Workers
         /\ \/ /\ tracked' = tracked
               /\ \A v \in Workers : Alike(worker[v], worker'[v])
            \/ \E v \in Workers : Starts(s, v)
<1>1. CASE s = None \/ s \in stopping
  BY <1>1, Unaltered DEF Notified, goroutines, GoroutineType
<1>2. CASE s # None /\ s \notin stopping
  <2>1. s = current /\ s \in Range(Schedulers)
    BY <1>2 DEF GoroutineType, Due
  <2>2. CASE tracked[s] # None
    <3>1. PICK t : t = tracked[s]
      OBVIOUS
    <3>2. /\ worker' = [worker EXCEPT ![t].woken = TRUE] /\ UNCHANGED <<tracked, forgotten>>
      BY <1>2, <2>2, <3>1 DEF Notified
    <3>3. DOMAIN worker' = Workers
      BY <3>2 DEF GoroutineType
    <3>4. ASSUME NEW v \in Workers
          PROVE  Alike(worker[v], worker'[v])
      <4>1. worker[v] = Idle \/ Made(worker[v])
        BY DEF GoroutineType
      <4>2. worker'[v] = worker[v] \/ worker'[v] = [worker[v] EXCEPT !.woken = TRUE]
        BY <3>2 DEF GoroutineType
      <4>. QED BY <4>1, <4>2, Unaltered, WokenAlike
    <3>. QED BY <3>2, <3>3, <3>4
  <2>3. CASE tracked[s] = None
    <3>1. PICK v \in Workers :
            /\ ~Running(v)
            /\ tracked' = [tracked EXCEPT ![s] = v]
            /\ worker' = [worker EXCEPT ![v] = Fresh(s)]
            /\ UNCHANGED forgotten
      BY <1>2, <2>3 DEF Notified
    <3>2. Starts(s, v)
      BY <1>2, <2>1, <2>3, <3>1 DEF Starts, Running
    <3>. QED BY <3>1, <3>2 DEF GoroutineType
  <2>. QED BY <2>2, <2>3
<1>. QED BY <1>1, <1>2

LEMMA FreshMade ==
  ASSUME NEW s \in Range(Schedulers), NEW r, r = Fresh(s)
  PROVE  Made(r) /\ HeldRight(r) /\ ~Deep(r) /\ r.pc # "none" /\ r.sched = s
BY DEF Fresh, Made, HeldRight, Deep

\* The kinds of step, by what they do to the goroutines.
Apart ==
  /\ UNCHANGED <<goroutines, schedulers, waking, halting>>
  /\ \/ \E gap \in {0, 1} : Observe(gap)
     \/ Retain \/ Execute \/ Delete
     \/ \E kind \in {"reset", "rollback", "describe"} : Command(kind)
     \/ \E late \in BOOLEAN : FinishMemoryDeletion(late)
Modal ==
  \/ Disable \/ StopReflections
  \/ \E m \in Modes : Enable(m)
  \/ \E s \in Range(Schedulers) : Drained(s)
Wakes == \E s \in Range(Schedulers) : Wake(s)

LEMMA Kinds ==
  ASSUME Next
  PROVE  Apart \/ Notify \/ Wakes \/ Modal \/ InstanceDeleted \/ ManagerForget \/ AwaitForgotten
           \/ \E w \in Workers : Work(w)
<1>1. \A gap \in {0, 1} : Observe(gap) => UNCHANGED <<goroutines, schedulers, waking, halting>>
  BY DEF Observe, commands
<1>2. Retain \/ Execute \/ Delete => UNCHANGED <<goroutines, schedulers, waking, halting>>
  BY DEF Retain, Execute, Delete, commands
<1>3. \A kind : Command(kind) => UNCHANGED <<goroutines, schedulers, waking, halting>>
  BY DEF Command
<1>4. \A late \in BOOLEAN : FinishMemoryDeletion(late) => UNCHANGED <<goroutines, schedulers, waking, halting>>
  BY DEF FinishMemoryDeletion, commands
<1>. QED BY <1>1, <1>2, <1>3, <1>4, Zenon DEF Next, Apart, Modal, Wakes

\* What becomes of a worker in one step.
Becomes(v) == \E r : worker'[v] = r /\ HeldRight(r) /\ (r = Idle \/ Made(r))

LEMMA AlikeBecomes ==
  ASSUME GoroutineType, HeldAllRight, NEW v \in Workers, Alike(worker[v], worker'[v])
  PROVE  Becomes(v)
<1>1. PICK q : q = worker[v]
  OBVIOUS
<1>2. PICK r : r = worker'[v]
  OBVIOUS
<1>3. Alike(q, r) /\ HeldRight(q)
  BY <1>1, <1>2 DEF HeldAllRight
<1>. QED BY <1>2, <1>3, AlikeKeeps DEF Becomes

LEMMA WorkersBecome ==
  ASSUME StoreInv, GoroutineType, HeldAllRight, Next
  PROVE  DOMAIN worker' = Workers /\ \A v \in Workers : Becomes(v)
<1>1. ASSUME UNCHANGED worker
      PROVE  DOMAIN worker' = Workers /\ \A v \in Workers : Becomes(v)
  BY <1>1, Unaltered, AlikeBecomes DEF GoroutineType
<1>2. CASE Apart
  BY <1>1, <1>2 DEF Apart, goroutines
<1>3. ASSUME NEW s, Due(s), Notified(s)
      PROVE  DOMAIN worker' = Workers /\ \A v \in Workers : Becomes(v)
  <2>1. DOMAIN worker' = Workers
    BY <1>3, NotifiedResult
  <2>2. CASE \A v \in Workers : Alike(worker[v], worker'[v])
    BY <2>1, <2>2, AlikeBecomes
  <2>3. ASSUME NEW v \in Workers, Starts(s, v), NEW u \in Workers
        PROVE  Becomes(u)
    <3>1. CASE u = v
      <4>1. worker'[u] = Fresh(s) /\ s \in Range(Schedulers)
        BY <2>3, <3>1 DEF Starts, GoroutineType
      <4>. QED BY <4>1, FreshMade DEF Becomes
    <3>2. CASE u # v
      <4>1. worker'[u] = worker[u]
        BY <2>3, <3>2 DEF Starts, GoroutineType
      <4>2. Alike(worker[u], worker'[u])
        BY <4>1, Unaltered DEF GoroutineType
      <4>. QED BY <4>2, AlikeBecomes
    <3>. QED BY <3>1, <3>2
  <2>. QED BY <1>3, <2>1, <2>2, <2>3, NotifiedResult
<1>4. CASE Notify
  BY <1>3, <1>4 DEF Notify, Due
<1>5. CASE Wakes
  BY <1>3, <1>5 DEF Wakes, Wake, Due
<1>6. CASE Modal
  <2>1. UNCHANGED worker \/ \E ws : worker' = Cancelled(ws)
    BY <1>6 DEF Modal, Disable, StopReflections, Enable, Drained, goroutines
  <2>. QED BY <1>1, <2>1, CancelledAlike, AlikeBecomes
<1>7. CASE InstanceDeleted \/ ManagerForget
  <2>1. \E ws : worker' = Cancelled(ws)
    BY <1>7 DEF InstanceDeleted, ManagerForget, Forget
  <2>. QED BY <2>1, CancelledAlike, AlikeBecomes
<1>8. CASE AwaitForgotten
  BY <1>1, <1>8 DEF AwaitForgotten
<1>9. ASSUME NEW w \in Workers, Work(w)
      PROVE  DOMAIN worker' = Workers /\ \A v \in Workers : Becomes(v)
  <2>1. \E r : worker' = [worker EXCEPT ![w] = r] /\ HeldRight(r) /\ (r = Idle \/ Made(r))
    BY <1>9, WorkResult, IdleRecord DEF Ends, Goes, Proceeds
  <2>2. PICK r : worker' = [worker EXCEPT ![w] = r] /\ HeldRight(r) /\ (r = Idle \/ Made(r))
    BY <2>1
  <2>3. DOMAIN worker' = Workers /\ worker'[w] = r
        /\ \A v \in Workers \ {w} : worker'[v] = worker[v]
    BY <2>2 DEF GoroutineType
  <2>4. Becomes(w)
    BY <2>2, <2>3 DEF Becomes
  <2>5. ASSUME NEW v \in Workers \ {w} PROVE Becomes(v)
    <3>1. Alike(worker[v], worker'[v])
      BY <2>3, Unaltered DEF GoroutineType
    <3>. QED BY <3>1, AlikeBecomes
  <2>. QED BY <2>3, <2>4, <2>5
<1>. QED BY <1>2, <1>4, <1>5, <1>6, <1>7, <1>8, <1>9, Kinds
---------------------------------------------------------------------------
(* Every step keeps the store, the goroutines' types and what they hold *)

LEMMA StoreStays ==
  ASSUME StoreInv, UNCHANGED store
  PROVE  StoreInv' /\ Grows
<1>1. /\ UNCHANGED <<lineage, revisions, experiences, amendments, transitions, committed, births>>
      /\ UNCHANGED <<inbox, trimmed>>
  BY DEF store, persona
<1>2. StoreType' /\ PointerHere' /\ SourcesKept' /\ InboxWhole' /\ CheckpointOfLast'
  BY <1>1 DEF StoreInv, StoreType, PointerHere, SourcesKept, InboxWhole, CheckpointOfLast,
              Existing, MaxOf
<1>3. PointerPath' /\ ReflectedOnce' /\ EvidenceKept'
  BY <1>1 DEF StoreInv, PointerPath, ReflectedOnce, EvidenceKept, Existing
<1>. QED BY <1>1, <1>2, <1>3 DEF StoreInv, Grows, Existing

LEMMA StoreStep ==
  ASSUME StoreInv, GoroutineType, HeldAllRight, Next
  PROVE  StoreInv' /\ Grows
<1>1. CASE Apart
  <2>1. ASSUME NEW gap \in {0, 1}, Observe(gap) PROVE StoreInv' /\ Grows
    BY <2>1, AppendKeeps DEF Observe
  <2>2. CASE Retain
    BY <2>2, PruneKeeps, PruneTransitionsKeeps DEF Retain
  <2>3. CASE Execute
    <3>1. PICK expected : expected = command.expected
      OBVIOUS
    <3>2. CASE ResetPersona(expected)
      BY <3>2, ResetKeeps
    <3>3. ASSUME NEW r \in DOMAIN revisions, RollbackPersona(expected, r)
          PROVE  StoreInv' /\ Grows
      BY <3>3, RollbackKeeps
    <3>4. ASSUME NEW d \in Descriptions, WritePersonaDescription(expected, d)
          PROVE  StoreInv' /\ Grows
      BY <3>4, WriteKeeps
    <3>. QED BY <2>3, <3>1, <3>2, <3>3, <3>4, StoreStays DEF Execute
  <2>4. CASE Delete
    BY <2>4, DeleteKeeps DEF Delete
  <2>5. ASSUME NEW kind, Command(kind) PROVE StoreInv' /\ Grows
    BY <2>5, StoreStays DEF Command
  <2>6. ASSUME NEW late \in BOOLEAN, FinishMemoryDeletion(late) PROVE StoreInv' /\ Grows
    BY <2>6, StoreStays DEF FinishMemoryDeletion
  <2>. QED BY <1>1, <2>1, <2>2, <2>3, <2>4, <2>5, <2>6 DEF Apart
<1>2. CASE Notify \/ Wakes \/ InstanceDeleted \/ ManagerForget \/ AwaitForgotten
  BY <1>2, StoreStays DEF Notify, Wakes, Wake, InstanceDeleted, ManagerForget, AwaitForgotten
<1>3. CASE Modal
  BY <1>3, StoreStays DEF Modal, Disable, StopReflections, Enable, Drained
<1>4. ASSUME NEW w \in Workers, Work(w) PROVE StoreInv' /\ Grows
  <2>1. UNCHANGED store \/ (At(w, "commit") /\ Commit(worker[w].plan))
    BY <1>4, WorkResult
  <2>2. CASE At(w, "commit") /\ Commit(worker[w].plan)
    <3>1. PICK a : a = worker[w].plan
      OBVIOUS
    <3>2. PlanRight(a) /\ Commit(a)
      BY <2>2, <3>1 DEF HeldAllRight, HeldRight, At
    <3>. QED BY <3>2, CommitKeeps
  <2>. QED BY <2>1, <2>2, StoreStays
<1>. QED BY <1>1, <1>2, <1>3, <1>4, Kinds

LEMMA HeldStep ==
  ASSUME StoreInv, GoroutineType, HeldAllRight, Next
  PROVE  HeldAllRight'
<1>1. Grows
  BY StoreStep
<1>2. ASSUME NEW v \in Workers
      PROVE  HeldRight(worker[v])'
  <2>1. PICK r : worker'[v] = r /\ HeldRight(r)
    BY WorkersBecome DEF Becomes
  <2>2. HeldRight(r)'
    BY <1>1, <2>1, HeldStaysRight
  <2>. QED BY <2>1, <2>2 DEF HeldRight, SnapRight, PlanRight, Reads, Removed, Existing
<1>. QED BY <1>2 DEF HeldAllRight

LEMMA TypeStep ==
  ASSUME StoreInv, GoroutineType, HeldAllRight, Next
  PROVE  GoroutineType'
<1>. DEFINE Slots == [Range(Schedulers) -> Workers \cup {None}]
            Records == DOMAIN worker' = Workers
                         /\ \A w \in Workers : worker'[w] = Idle \/ Made(worker'[w])
<1>1. Records
  BY WorkersBecome DEF Becomes
<1>2. tracked \in Slots /\ forgotten \in Slots
  BY DEF GoroutineType
<1>3. ASSUME tracked' \in Slots, forgotten' \in Slots, UNCHANGED <<schedulers, waking, halting>>
      PROVE  GoroutineType'
  BY <1>1, <1>3 DEF GoroutineType, schedulers
<1>4. CASE Apart
  BY <1>2, <1>3, <1>4 DEF Apart, goroutines
<1>5. ASSUME NEW s, Due(s), Notified(s)
      PROVE  tracked' \in Slots /\ forgotten' \in Slots
  <2>1. tracked' = tracked \/ \E v \in Workers : tracked' = [tracked EXCEPT ![s] = v]
    BY <1>5, NotifiedResult DEF Starts
  <2>2. forgotten' = forgotten
    BY <1>5, NotifiedResult
  <2>. QED BY <1>2, <2>1, <2>2
<1>6. CASE Notify
  BY <1>3, <1>5, <1>6 DEF Notify, Due, commands
<1>7. CASE Wakes
  <2>. PICK s \in Range(Schedulers) : Wake(s)
    BY <1>7 DEF Wakes
  <2>1. /\ waking[s] > 0 /\ waking' = [waking EXCEPT ![s] = @ - 1]
        /\ Notified(s) /\ UNCHANGED <<schedulers, halting>>
    BY DEF Wake
  <2>2. tracked' \in Slots /\ forgotten' \in Slots
    BY <1>5, <2>1 DEF Due
  <2>3. /\ waking' \in [Range(Schedulers) -> Nat]
        /\ \A u \in Range(Schedulers) : waking'[u] > 0 => waking[u] > 0
    BY <2>1 DEF GoroutineType
  <2>. QED BY <1>1, <2>1, <2>2, <2>3 DEF GoroutineType, schedulers
<1>8. CASE Disable
  BY <1>1, <1>2, <1>8 DEF Disable, GoroutineType, goroutines
<1>14. ASSUME NEW m, Enable(m)
       PROVE  GoroutineType'
  <2>1. /\ waking' = ToWake(current') /\ halting' = halting
        /\ \/ UNCHANGED <<current, made>> /\ current # None
           \/ /\ Len(made) < Len(Schedulers) /\ current = None
              /\ current' = Schedulers[Len(made) + 1] /\ made' = Append(made, current')
    BY <1>14 DEF Enable
  <2>2. UNCHANGED goroutines /\ UNCHANGED stopping
    BY <1>14 DEF Enable
  <2>3. current' \in Range(Schedulers) /\ made' \in Seq(Range(Schedulers))
    <3>1. CASE UNCHANGED <<current, made>> /\ current # None
      BY <3>1 DEF GoroutineType
    <3>2. CASE /\ Len(made) < Len(Schedulers) /\ current = None
               /\ current' = Schedulers[Len(made) + 1] /\ made' = Append(made, current')
      <4>1. made \in Seq(Range(Schedulers)) /\ Schedulers \in Seq(Range(Schedulers))
        BY ReflectionAssumption DEF GoroutineType
      <4>2. Schedulers[Len(made) + 1] \in Range(Schedulers)
        BY <3>2, <4>1
      <4>. QED BY <3>2, <4>1, <4>2
    <3>. QED BY <2>1, <3>1, <3>2
  <2>4. /\ waking' \in [Range(Schedulers) -> Nat]
        /\ \A u \in Range(Schedulers) : waking'[u] > 0 => u = current' \/ waking[u] > 0
    <3>. PICK s : s = current'
      OBVIOUS
    <3>1. waking' = waking \/ waking' = [waking EXCEPT ![s] = @ + 1]
      BY <2>1 DEF ToWake
    <3>. QED BY <2>3, <3>1 DEF GoroutineType
  <2>5. \A u \in Range(Schedulers) : waking[u] > 0 => u = current' \/ u \in stopping'
    <3>1. \A u \in Range(Schedulers) : waking[u] > 0 => u = current \/ u \in stopping
      BY DEF GoroutineType
    <3>2. \A u \in Range(Schedulers) : u # None
      BY ReflectionAssumption
    <3>. QED BY <2>1, <2>2, <3>1, <3>2
  <2>6. halting' \in Nat
    BY <2>1 DEF GoroutineType
  <2>. QED BY <1>1, <1>2, <2>2, <2>3, <2>4, <2>5, <2>6 DEF GoroutineType, goroutines
<1>9. CASE StopReflections
  <2>1. /\ current' = None /\ halting' \in Nat
        /\ stopping' = stopping \cup ({current} \ {None})
        /\ UNCHANGED <<tracked, forgotten, made, waking>>
    BY <1>9 DEF StopReflections, GoroutineType
  <2>2. \A s \in Range(Schedulers) : s # None
    BY ReflectionAssumption
  <2>. QED BY <1>1, <1>2, <2>1, <2>2 DEF GoroutineType
<1>10. ASSUME NEW s, Drained(s)
       PROVE  GoroutineType'
  BY <1>1, <1>2, <1>10 DEF Drained, GoroutineType, goroutines, commands
<1>11. CASE InstanceDeleted \/ ManagerForget
  <2>1. /\ tracked' = [s \in DOMAIN tracked |-> IF s \in Known THEN None ELSE tracked[s]]
        /\ forgotten' = [s \in DOMAIN forgotten |->
                           IF s \in Watched THEN tracked[s] ELSE forgotten[s]]
        /\ UNCHANGED <<schedulers, waking, halting>>
    BY <1>11 DEF InstanceDeleted, ManagerForget, Forget, commands
  <2>2. tracked' \in Slots /\ forgotten' \in Slots
    BY <1>2, <2>1
  <2>. QED BY <1>3, <2>1, <2>2
<1>12. CASE AwaitForgotten
  <2>1. /\ tracked' = tracked /\ UNCHANGED <<schedulers, waking, halting>>
        /\ forgotten' = [s \in DOMAIN forgotten |-> IF s \in Known THEN None ELSE forgotten[s]]
    BY <1>12 DEF AwaitForgotten, commands
  <2>2. tracked' \in Slots /\ forgotten' \in Slots
    BY <1>2, <2>1
  <2>. QED BY <1>3, <2>1, <2>2
<1>13. ASSUME NEW w \in Workers, Work(w)
       PROVE  GoroutineType'
  <2>1. CASE Ends(w)
    <3>1. /\ tracked' = [s \in DOMAIN tracked |-> IF tracked[s] = w THEN None ELSE tracked[s]]
          /\ forgotten' = [s \in DOMAIN forgotten |->
                             IF forgotten[s] = w THEN None ELSE forgotten[s]]
          /\ UNCHANGED <<schedulers, waking, halting>>
      BY <2>1 DEF Ends, commands
    <3>2. tracked' \in Slots /\ forgotten' \in Slots
      BY <1>2, <3>1
    <3>. QED BY <1>3, <3>1, <3>2
  <2>2. CASE (\E r : Goes(w, r)) /\ UNCHANGED WorkerShared
    <3>1. tracked' = tracked /\ forgotten' = forgotten /\ UNCHANGED <<schedulers, waking, halting>>
      BY <2>2 DEF Goes, WorkerShared, commands
    <3>. QED BY <1>2, <1>3, <3>1
  <2>. QED BY <1>13, <2>1, <2>2, WorkResult
<1>. QED
  BY <1>4, <1>6, <1>7, <1>8, <1>9, <1>10, <1>11, <1>12, <1>13, <1>14, Kinds DEF Modal
---------------------------------------------------------------------------
(* The clean-up *)

\* While nothing of the deletion has been forgotten, the manager tracks every
\* worker; then it holds a finish signal of every worker that got past its
\* snapshot, and then waits for it. A worker of a deleted instance gets no further
\* than its next snapshot.
Tracking == \A w \in Workers :
  Running(w) => worker[w].sched \in Known /\ tracked[worker[w].sched] = w
Signalling == \A w \in Workers :
  Deep(worker[w]) => worker[w].sched \in Known /\ forgotten[worker[w].sched] = w
Awaiting == \A w \in Workers : Deep(worker[w]) => w \in awaited
AllOut == \A w \in Workers : ~Deep(worker[w])

CleanUpRight ==
  /\ cleanup # "none" => ~Existing
  /\ cleanup \in {"none", "deleted"} => Tracking
  /\ overtaken = "no" =>
       /\ cleanup \in {"draining", "forgetting"} => Signalling
       /\ cleanup = "awaiting" => Awaiting
       /\ cleanup = "done" => AllOut /\ index = <<>>

Inv == StoreInv /\ GoroutineType /\ HeldAllRight /\ CleanUpRight

\* A step of some worker that leaves the clean-up where it is.
LEMMA OthersStay ==
  ASSUME Inv, StoreInv', Grows, UNCHANGED <<cleanup, overtaken>>,
         DOMAIN worker' = Workers,
         \A v \in Workers : Alike(worker[v], worker'[v]),
         tracked' = tracked, forgotten' = forgotten, Known \subseteq Known',
         awaited' = awaited, index' = index
  PROVE  CleanUpRight'
<1>1. cleanup' # "none" => ~Existing'
  BY DEF Inv, CleanUpRight, Grows
<1>2. ASSUME NEW v \in Workers
      PROVE  /\ Deep(worker'[v]) => Deep(worker[v])
             /\ worker'[v].pc # "none" => worker[v].pc # "none"
             /\ worker'[v].pc # "none" => worker'[v].sched = worker[v].sched
  BY AlikeKeeps
<1>3. \A v \in Workers : Deep(worker'[v]) => worker'[v].pc # "none"
  BY DEF Deep
<1>4. Tracking => Tracking'
  BY <1>2 DEF Tracking, Running
<1>5. Signalling => Signalling'
  BY <1>2, <1>3 DEF Signalling, Deep
<1>6. (Awaiting => Awaiting') /\ (AllOut => AllOut')
  BY <1>2 DEF Awaiting, AllOut, Deep
<1>. QED BY <1>1, <1>4, <1>5, <1>6 DEF Inv, CleanUpRight

LEMMA CleanUpWork ==
  ASSUME Inv, Grows, NEW w \in Workers, Work(w)
  PROVE  CleanUpRight'
<1>1. /\ Made(worker[w]) /\ worker[w].pc # "none"
      /\ \/ Ends(w)
         \/ /\ \E r : Goes(w, r) /\ Proceeds(worker[w], r)
            /\ UNCHANGED WorkerShared
      /\ index' = index \/ Deep(worker[w])
  BY WorkResult DEF Inv, Made
<1>2. cleanup' # "none" => ~Existing'
  BY <1>1 DEF Inv, CleanUpRight, Grows, Ends, WorkerShared
<1>3. DOMAIN worker = Workers
  BY DEF Inv, GoroutineType
<1>4. CASE Ends(w)
  <2>1. /\ worker' = [worker EXCEPT ![w] = Idle]
        /\ tracked' = [s \in DOMAIN tracked |-> IF tracked[s] = w THEN None ELSE tracked[s]]
        /\ forgotten' = [s \in DOMAIN forgotten |->
                           IF forgotten[s] = w THEN None ELSE forgotten[s]]
        /\ awaited' = awaited \ {w}
        /\ UNCHANGED <<schedulers, index, cleanup, overtaken>>
    BY <1>4 DEF Ends
  <2>2. /\ worker'[w].pc = "none" /\ ~Deep(worker'[w])
        /\ \A v \in Workers \ {w} : worker'[v] = worker[v]
    BY <1>3, <2>1, IdleRecord
  <2>3. \A s \in Range(Schedulers), v \in Workers \ {w} :
          /\ tracked[s] = v => tracked'[s] = v
          /\ forgotten[s] = v => forgotten'[s] = v
    BY <2>1 DEF Inv, GoroutineType
  <2>4. Known' = Known
    BY <2>1 DEF Known, schedulers
  <2>5. \A v \in Workers : worker[v].pc # "none" => worker[v].sched \in Range(Schedulers)
    BY IdleRecord DEF Inv, GoroutineType, Made
  <2>6. Tracking => Tracking'
    BY <2>2, <2>3, <2>4, <2>5 DEF Tracking, Running
  <2>7. \A v \in Workers : Deep(worker[v]) => worker[v].pc # "none"
    BY DEF Deep
  <2>8. Signalling => Signalling'
    <3>1. SUFFICES ASSUME Signalling, NEW v \in Workers, Deep(worker'[v])
                   PROVE  worker'[v].sched \in Known' /\ forgotten'[worker'[v].sched] = v
      BY DEF Signalling, Deep
    <3>2. v # w /\ worker'[v] = worker[v]
      BY <2>2, <3>1
    <3>3. Deep(worker[v]) /\ worker[v].sched \in Range(Schedulers)
      BY <2>5, <2>7, <3>1, <3>2
    <3>. QED BY <2>3, <2>4, <3>1, <3>2, <3>3 DEF Signalling
  <2>9. (Awaiting => Awaiting') /\ (AllOut => AllOut')
    BY <2>1, <2>2 DEF Awaiting, AllOut, Deep
  <2>. QED BY <1>2, <2>1, <2>6, <2>8, <2>9 DEF Inv, CleanUpRight
<1>5. ASSUME NEW r, Goes(w, r), Proceeds(worker[w], r), UNCHANGED WorkerShared
      PROVE  CleanUpRight'
  <2>1. /\ worker' = [worker EXCEPT ![w] = r] /\ tracked' = tracked /\ forgotten' = forgotten
        /\ UNCHANGED <<schedulers, cleanup, awaited, overtaken>>
    BY <1>5 DEF Goes, WorkerShared
  <2>2. worker'[w] = r /\ \A v \in Workers \ {w} : worker'[v] = worker[v]
    BY <1>3, <2>1
  <2>3. /\ r.sched = worker[w].sched
        /\ cleanup # "none" => (Deep(r) => Deep(worker[w]))
    BY <1>5 DEF Proceeds, Inv, CleanUpRight
  <2>4. Known' = Known
    BY <2>1 DEF Known, schedulers
  <2>5. Tracking => Tracking'
    BY <1>1, <2>1, <2>2, <2>3, <2>4 DEF Tracking, Running
  <2>6. \A v \in Workers : /\ worker'[v].sched = worker[v].sched
                           /\ cleanup # "none" => (Deep(worker'[v]) => Deep(worker[v]))
    BY <2>2, <2>3
  <2>7. cleanup # "none" /\ Signalling => Signalling'
    BY <2>1, <2>4, <2>6 DEF Signalling, Deep
  <2>8. cleanup # "none" => (Awaiting => Awaiting') /\ (AllOut => AllOut')
    BY <2>1, <2>6 DEF Awaiting, AllOut, Deep
  <2>9. AllOut => index' = index
    BY <1>1 DEF AllOut
  <2>. QED BY <1>2, <2>1, <2>5, <2>7, <2>8, <2>9 DEF Inv, CleanUpRight
<1>. QED BY <1>1, <1>4, <1>5

LEMMA CleanUpNotified ==
  ASSUME Inv, StoreInv', Grows, NEW s, Due(s), Notified(s),
         UNCHANGED <<schedulers, cleanup, awaited, overtaken, index>>
  PROVE  CleanUpRight'
<1>1. GoroutineType
  BY DEF Inv
<1>2. Known' = Known
  BY DEF Known, schedulers
<1>3. CASE tracked' = tracked /\ \A v \in Workers : Alike(worker[v], worker'[v])
  BY <1>1, <1>2, <1>3, NotifiedResult, OthersStay
<1>4. ASSUME NEW v \in Workers, Starts(s, v)
      PROVE  CleanUpRight'
  <2>1. /\ s = current /\ s # None /\ s \in Range(Schedulers)
        /\ worker[v].pc = "none" /\ tracked[s] = None
        /\ tracked' = [tracked EXCEPT ![s] = v] /\ worker' = [worker EXCEPT ![v] = Fresh(s)]
    BY <1>4 DEF Starts
  <2>2. forgotten' = forgotten
    BY <1>1, NotifiedResult
  <2>3. /\ worker'[v] = Fresh(s) /\ \A u \in Workers \ {v} : worker'[u] = worker[u]
        /\ tracked'[s] = v /\ \A t \in Range(Schedulers) \ {s} : tracked'[t] = tracked[t]
    BY <1>1, <2>1 DEF GoroutineType
  <2>4. ~Deep(worker'[v]) /\ worker'[v].sched = s
    BY <2>1, <2>3, FreshMade
  <2>5. s \in Known
    BY <2>1 DEF Known
  <2>6. \A u \in Workers : u # None
    BY ReflectionAssumption
  <2>7. \A u \in Workers : worker[u].pc # "none" => worker[u].sched \in Range(Schedulers)
    BY <1>1, IdleRecord DEF GoroutineType, Made
  <2>8. Tracking => Tracking'
    <3>1. SUFFICES ASSUME Tracking, NEW u \in Workers, worker'[u].pc # "none"
                   PROVE  worker'[u].sched \in Known' /\ tracked'[worker'[u].sched] = u
      BY DEF Tracking, Running
    <3>2. CASE u = v
      BY <1>2, <2>3, <2>4, <2>5, <3>2
    <3>3. CASE u # v
      <4>1. worker'[u] = worker[u] /\ worker[u].pc # "none"
        BY <2>3, <3>1, <3>3
      <4>2. worker[u].sched \in Known /\ tracked[worker[u].sched] = u
        BY <3>1, <4>1 DEF Tracking, Running
      <4>3. worker[u].sched # s
        BY <2>1, <2>6, <4>2
      <4>. QED BY <1>2, <2>3, <2>7, <4>1, <4>2, <4>3
    <3>. QED BY <3>2, <3>3
  <2>9. \A u \in Workers : Deep(worker'[u]) => u # v /\ worker'[u] = worker[u]
    BY <2>3, <2>4
  <2>10. Signalling => Signalling'
    BY <1>2, <2>2, <2>9 DEF Signalling, Deep
  <2>11. (Awaiting => Awaiting') /\ (AllOut => AllOut')
    BY <2>9 DEF Awaiting, AllOut, Deep
  <2>12. cleanup' # "none" => ~Existing'
    BY DEF Inv, CleanUpRight, Grows
  <2>. QED BY <2>8, <2>10, <2>11, <2>12 DEF Inv, CleanUpRight
<1>. QED BY <1>1, <1>3, <1>4, NotifiedResult

LEMMA CleanUpModal ==
  ASSUME Inv, StoreInv', Grows, Modal
  PROVE  CleanUpRight'
<1>1. GoroutineType
  BY DEF Inv
<1>2. CASE StopReflections
  <2>1. /\ worker' = Cancelled(WorkersOf(current)) /\ current' = None
        /\ retiring' = retiring \cup ({current} \ {None})
        /\ UNCHANGED <<cleanup, overtaken, tracked, forgotten, awaited, index>>
    BY <1>2 DEF StopReflections, deletion
  <2>2. Known \subseteq Known'
    BY <2>1 DEF Known
  <2>3. DOMAIN worker' = Workers /\ \A v \in Workers : Alike(worker[v], worker'[v])
    BY <1>1, <2>1, CancelledAlike
  <2>. QED BY <2>1, <2>2, <2>3, OthersStay
<1>3. ASSUME NEW m, Enable(m)
      PROVE  CleanUpRight'
  <2>1. /\ current' = current \/ current = None
        /\ UNCHANGED <<retiring, goroutines, index, deletion>>
    BY <1>3 DEF Enable
  <2>2. Known \subseteq Known'
    BY <2>1 DEF Known
  <2>3. DOMAIN worker' = Workers /\ \A v \in Workers : Alike(worker[v], worker'[v])
    BY <1>1, <2>1, Unaltered DEF GoroutineType, goroutines
  <2>. QED BY <2>1, <2>2, <2>3, OthersStay DEF goroutines, deletion
<1>5. CASE Disable
  <2>1. UNCHANGED <<current, retiring, goroutines, index, deletion>>
    BY <1>5 DEF Disable
  <2>2. Known \subseteq Known'
    BY <2>1 DEF Known
  <2>3. DOMAIN worker' = Workers /\ \A v \in Workers : Alike(worker[v], worker'[v])
    BY <1>1, <2>1, Unaltered DEF GoroutineType, goroutines
  <2>. QED BY <2>1, <2>2, <2>3, OthersStay DEF goroutines, deletion
<1>4. ASSUME NEW s, Drained(s)
      PROVE  CleanUpRight'
  <2>1. /\ retiring' = retiring \ {s} /\ WorkersOf(s) = {}
        /\ UNCHANGED <<current, goroutines, index, deletion>>
    BY <1>4 DEF Drained
  <2>2. UNCHANGED <<tracked, forgotten, worker, index, cleanup, awaited, overtaken>>
    BY <2>1 DEF goroutines, deletion
  <2>3. \A v \in Workers : worker[v].pc # "none" /\ worker[v].sched \in Known =>
                             worker[v].sched \in Known'
    BY <2>1 DEF Known, WorkersOf, Running
  <2>4. \A v \in Workers : Deep(worker[v]) => worker[v].pc # "none"
    BY DEF Deep
  <2>5. (Tracking => Tracking') /\ (Signalling => Signalling')
    BY <2>2, <2>3, <2>4 DEF Tracking, Signalling, Deep, Running
  <2>6. (Awaiting => Awaiting') /\ (AllOut => AllOut')
    BY <2>2 DEF Awaiting, AllOut, Deep
  <2>7. cleanup' # "none" => ~Existing'
    BY <2>2 DEF Inv, CleanUpRight, Grows
  <2>. QED BY <2>2, <2>5, <2>6, <2>7 DEF Inv, CleanUpRight
<1>. QED BY <1>2, <1>3, <1>4, <1>5 DEF Modal

LEMMA CleanUpForgets ==
  ASSUME Inv, Grows, InstanceDeleted \/ ManagerForget
  PROVE  CleanUpRight'
<1>1. /\ worker' = Cancelled({tracked[s] : s \in Watched})
      /\ forgotten' = [s \in DOMAIN forgotten |->
                         IF s \in Watched THEN tracked[s] ELSE forgotten[s]]
      /\ UNCHANGED <<schedulers, awaited, index>>
  BY DEF InstanceDeleted, ManagerForget, Forget
<1>2. /\ DOMAIN worker' = Workers /\ \A v \in Workers : Alike(worker[v], worker'[v])
  BY <1>1, CancelledAlike DEF Inv
<1>3. \A v \in Workers : Deep(worker'[v]) =>
        /\ Deep(worker[v]) /\ worker[v].pc # "none" /\ worker'[v].sched = worker[v].sched
  BY <1>2, AlikeKeeps DEF Deep
<1>4. Known' = Known
  BY <1>1 DEF Known, schedulers
<1>5. /\ DOMAIN forgotten = Range(Schedulers)
      /\ \A v \in Workers : v # None
      /\ \A v \in Workers : worker[v].pc # "none" => worker[v].sched \in Range(Schedulers)
  BY ReflectionAssumption, IdleRecord DEF Inv, GoroutineType, Made
<1>6. cleanup' # "none" => ~Existing'
  BY DEF Inv, CleanUpRight, Grows, InstanceDeleted, ManagerForget
<1>7. CASE InstanceDeleted
  <2>1. cleanup = "deleted" /\ cleanup' = "draining" /\ overtaken' = overtaken
    BY <1>7 DEF InstanceDeleted
  <2>2. Tracking
    BY <2>1 DEF Inv, CleanUpRight
  <2>3. Signalling'
    <3>1. SUFFICES ASSUME NEW v \in Workers, Deep(worker'[v])
                   PROVE  worker'[v].sched \in Known' /\ forgotten'[worker'[v].sched] = v
      BY DEF Signalling, Deep
    <3>2. worker[v].sched \in Known /\ tracked[worker[v].sched] = v
      BY <1>3, <2>2, <3>1 DEF Tracking, Running
    <3>3. worker[v].sched \in Watched
      BY <1>5, <3>2 DEF Watched
    <3>. QED BY <1>1, <1>3, <1>4, <1>5, <3>1, <3>2, <3>3
  <2>. QED BY <1>6, <2>1, <2>3 DEF CleanUpRight
<1>8. CASE ManagerForget
  <2>1. /\ cleanup = "draining" /\ cleanup' = "forgetting"
        /\ overtaken' = IF \E s \in Watched : forgotten[s] # None THEN "lost" ELSE overtaken
    BY <1>8 DEF ManagerForget
  <2>2. ASSUME overtaken' = "no"
        PROVE  Signalling'
    <3>1. overtaken = "no" /\ \A s \in Watched : forgotten[s] = None
      BY <2>1, <2>2
    <3>2. Signalling
      BY <2>1, <3>1 DEF Inv, CleanUpRight
    <3>3. SUFFICES ASSUME NEW v \in Workers, Deep(worker'[v])
                   PROVE  worker'[v].sched \in Known' /\ forgotten'[worker'[v].sched] = v
      BY DEF Signalling, Deep
    <3>4. worker[v].sched \in Known /\ forgotten[worker[v].sched] = v
      BY <1>3, <3>2, <3>3 DEF Signalling
    <3>5. worker[v].sched \notin Watched
      BY <1>5, <3>1, <3>4
    <3>. QED BY <1>1, <1>3, <1>4, <1>5, <3>3, <3>4, <3>5
  <2>. QED BY <1>6, <2>1, <2>2 DEF CleanUpRight
<1>. QED BY <1>7, <1>8

LEMMA CleanUpAwaits ==
  ASSUME Inv, Grows, AwaitForgotten
  PROVE  CleanUpRight'
<1>1. /\ cleanup = "forgetting" /\ cleanup' = "awaiting" /\ awaited' = Awaited
      /\ UNCHANGED <<worker, overtaken>>
  BY DEF AwaitForgotten
<1>2. cleanup' # "none" => ~Existing'
  BY <1>1 DEF Inv, CleanUpRight, Grows
<1>3. ASSUME overtaken = "no"
      PROVE  Awaiting'
  <2>1. Signalling
    BY <1>1, <1>3 DEF Inv, CleanUpRight
  <2>2. \A v \in Workers : v # None
    BY ReflectionAssumption
  <2>3. \A v \in Workers : Deep(worker[v]) => v \in Awaited
    BY <2>1, <2>2 DEF Signalling, Awaited
  <2>. QED BY <1>1, <2>3 DEF Awaiting, Deep
<1>. QED BY <1>1, <1>2, <1>3 DEF CleanUpRight

LEMMA CleanUpApart ==
  ASSUME Inv, StoreInv', Grows, Apart
  PROVE  CleanUpRight'
<1>1. /\ UNCHANGED <<tracked, forgotten, worker, current, retiring>>
  BY DEF Apart, goroutines, schedulers
<1>2. Known' = Known
  BY <1>1 DEF Known
<1>3. ASSUME UNCHANGED <<index, deletion>>
      PROVE  CleanUpRight'
  <2>1. DOMAIN worker' = Workers /\ \A v \in Workers : Alike(worker[v], worker'[v])
    BY <1>1, Unaltered DEF Inv, GoroutineType
  <2>. QED BY <1>1, <1>2, <1>3, <2>1, OthersStay DEF deletion
<1>4. CASE Delete
  <2>1. cleanup = "none" /\ cleanup' = "deleted" /\ ~Existing'
    BY <1>4 DEF Delete, DeleteRows, Existing
  <2>2. Tracking'
    BY <1>1, <1>2, <2>1 DEF Inv, CleanUpRight, Tracking, Running
  <2>. QED BY <2>1, <2>2 DEF CleanUpRight
<1>5. ASSUME NEW late \in BOOLEAN, FinishMemoryDeletion(late)
      PROVE  CleanUpRight'
  <2>1. /\ cleanup = "awaiting" /\ cleanup' = "done" /\ index' = <<>>
        /\ overtaken' = IF late THEN "late" ELSE overtaken
        /\ late <=> awaited # {}
    BY <1>5 DEF FinishMemoryDeletion
  <2>2. cleanup' # "none" => ~Existing'
    BY <2>1 DEF Inv, CleanUpRight, Grows
  <2>3. ASSUME overtaken' = "no"
        PROVE  AllOut'
    <3>1. overtaken = "no" /\ awaited = {}
      BY <2>1, <2>3
    <3>2. Awaiting
      BY <2>1, <3>1 DEF Inv, CleanUpRight
    <3>. QED BY <1>1, <3>1, <3>2 DEF Awaiting, AllOut, Deep
  <2>. QED BY <2>1, <2>2, <2>3 DEF CleanUpRight
<1>6. ASSUME \/ \E gap \in {0, 1} : Observe(gap)
             \/ Retain \/ Execute \/ \E kind \in {"reset", "rollback", "describe"} : Command(kind)
      PROVE  UNCHANGED <<index, deletion>>
  BY <1>6 DEF Observe, Retain, Execute, Command
<1>. QED BY <1>3, <1>4, <1>5, <1>6 DEF Apart

LEMMA CleanUpStep ==
  ASSUME Inv, Next
  PROVE  CleanUpRight'
<1>1. StoreInv' /\ Grows
  BY StoreStep DEF Inv
<1>2. CASE Notify
  BY <1>1, <1>2, CleanUpNotified DEF Notify, Due, deletion
<1>3. CASE Wakes
  BY <1>1, <1>3, CleanUpNotified DEF Wakes, Wake, Due, deletion
<1>. QED
  BY <1>1, <1>2, <1>3, CleanUpApart, CleanUpModal, CleanUpForgets, CleanUpAwaits, CleanUpWork,
     Kinds
---------------------------------------------------------------------------
(* The invariant and what it says *)

LEMMA InvInitially == Init => Inv
<1>. SUFFICES ASSUME Init PROVE Inv
  OBVIOUS
<1>1. StoreInv
  BY Initially DEF Init
<1>2. /\ worker = [w \in Workers |-> Idle] /\ cleanup = "none"
      /\ tracked = [s \in Range(Schedulers) |-> None] /\ forgotten = tracked
      /\ waking = [s \in Range(Schedulers) |-> 0] /\ halting = 0 /\ made = SubSeq(Schedulers, 1, 1) /\ current = Schedulers[1]
  BY DEF Init
<1>3. /\ Schedulers \in Seq(Range(Schedulers)) /\ 1 \in DOMAIN Schedulers
      /\ Schedulers[1] \in Range(Schedulers)
  BY ReflectionAssumption
<1>4. made \in Seq(Range(Schedulers))
  BY <1>2, <1>3
<1>5. GoroutineType
  BY <1>2, <1>3, <1>4 DEF GoroutineType
<1>6. HeldAllRight /\ Tracking
  BY <1>2, IdleRecord DEF HeldAllRight, Tracking, Running
<1>7. CleanUpRight
  BY <1>2, <1>6 DEF CleanUpRight
<1>. QED BY <1>1, <1>5, <1>6, <1>7 DEF Inv

LEMMA InvStep == Inv /\ [Next]_vars => Inv'
<1>1. ASSUME Inv, Next PROVE Inv'
  BY <1>1, StoreStep, TypeStep, HeldStep, CleanUpStep DEF Inv
<1>2. ASSUME Inv, UNCHANGED vars PROVE Inv'
  <2>1. UNCHANGED store /\ UNCHANGED <<goroutines, schedulers, waking, halting, index, deletion>>
    BY <1>2 DEF vars, commands
  <2>2. StoreInv' /\ Grows
    BY <1>2, <2>1, StoreStays DEF Inv
  <2>3. UNCHANGED <<worker, tracked, forgotten, current, retiring, made, stopping>>
    BY <2>1 DEF goroutines, schedulers
  <2>4. GoroutineType'
    BY <1>2, <2>1, <2>3 DEF Inv, GoroutineType
  <2>5. HeldAllRight'
    <3>1. ASSUME NEW w \in Workers PROVE HeldRight(worker[w])'
      <4>1. PICK r : r = worker[w]
        OBVIOUS
      <4>2. HeldRight(r)'
        BY <1>2, <2>2, <4>1, HeldStaysRight DEF Inv, HeldAllRight
      <4>. QED BY <2>3, <4>1, <4>2 DEF HeldRight, SnapRight, PlanRight, Reads, Removed, Existing
    <3>. QED BY <3>1 DEF HeldAllRight
  <2>6. CleanUpRight'
    <3>1. DOMAIN worker' = Workers /\ \A v \in Workers : Alike(worker[v], worker'[v])
      BY <1>2, <2>3, Unaltered DEF Inv, GoroutineType
    <3>2. Known \subseteq Known'
      BY <2>3 DEF Known
    <3>. QED BY <1>2, <2>1, <2>2, <2>3, <3>1, <3>2, OthersStay DEF deletion
  <2>. QED BY <2>2, <2>4, <2>5, <2>6 DEF Inv
<1>. QED BY <1>1, <1>2

THEOREM InvHolds == Spec => []Inv
BY InvInitially, InvStep, PTL DEF Spec

\* The log of pointer moves is a path to the pointer, whatever the operator, the
\* workers of several schedulers and retention do in whatever order.
THEOREM MovesMakeAPath == Spec => []PointerPath
<1>1. Inv => PointerPath
  BY DEF Inv, StoreInv
<1>. QED BY <1>1, InvHolds, PTL

\* Committed runs adjoin, and the checkpoint passes only events that one of them
\* read or that trimming removed: a page is all of the unread inbox up to its end.
THEOREM EventsOnce == Spec => []ReflectedOnce
<1>1. Inv => ReflectedOnce
  BY DEF Inv, StoreInv
<1>. QED BY <1>1, InvHolds, PTL

\* Events, experiences and links that an amendment or a description rests on
\* survive trimming and pruning, for every headroom, and their ids are not reused.
THEOREM EvidenceStays == Spec => []EvidenceKept
<1>1. Inv => EvidenceKept
  BY DEF Inv, StoreInv
<1>. QED BY <1>1, InvHolds, PTL

\* What the manager's validation lets through, the store's transaction accepts
\* unless the pointer or the checkpoint has moved or a source has been removed.
THEOREM ValidatedCommits == Spec => []ValidCommits
<1>1. ASSUME Inv, NEW w \in Workers, At(w, "commit"), ~Loses(worker[w].plan)
      PROVE  ~Refused(worker[w].plan)
  <2>1. PICK a : a = worker[w].plan
    OBVIOUS
  <2>2. PlanRight(a) /\ Existing
    BY <1>1, <2>1 DEF Inv, HeldAllRight, HeldRight, At, Loses
  <2>3. a.prior \in Nat /\ a.high \in Nat /\ a.prior <= a.high
    BY <2>2 DEF PlanRight, Reads
  <2>4. \A x \in a.drafts : x.sources # {} /\ \A n \in x.sources : n > a.prior /\ n <= a.high
    <3>1. \A x \in a.drafts : x.sources # {} /\ x.sources \subseteq a.read
      BY <2>2 DEF PlanRight
    <3>2. \A n \in a.read : n > a.prior /\ n <= a.high
      BY <2>2, <2>3 DEF PlanRight, Reads
    <3>. QED BY <3>1, <3>2
  <2>5. ~(a.high < a.prior)
    BY <2>3
  <2>6. \A x \in a.drafts : \A n \in x.sources : ~(n <= a.prior) /\ ~(n > a.high)
    <3>1. \A x \in a.drafts : x.sources \subseteq a.read /\ a.read \subseteq a.prior + 1 .. a.high
      BY <2>2 DEF PlanRight, Reads
    <3>. QED BY <2>3, <3>1
  <2>7. ~(a.amends /\ a.drafts = {}) /\ Removed(a) \subseteq revisions[a.base].amendments
    BY <2>2 DEF PlanRight
  <2>. QED BY <2>1, <2>4, <2>5, <2>6, <2>7 DEF Refused
<1>2. Inv => ValidCommits
  BY <1>1 DEF ValidCommits
<1>. QED BY <1>2, InvHolds, PTL

\* No worker writes the index of a deleted instance once clean-up removed it,
\* when the wait reached its end and no finish signal took another one's place.
THEOREM IndexStaysEmpty == Spec => []CleanUpIsFinal
<1>1. Inv => CleanUpIsFinal
  BY DEF Inv, CleanUpRight, CleanUpIsFinal
<1>. QED BY <1>1, InvHolds, PTL
=============================================================================
