------------------------- MODULE WindowGuardProofs -------------------------
(***************************************************************************)
(* Theorems about WindowGuard for every set of models, kinds of turn and   *)
(* number of memberships and invitations.                                  *)
(***************************************************************************)
EXTENDS WindowGuard, TLAPS

---------------------------------------------------------------------------
(* Steps *)

\* What a turn and its journal do; the rest moves the authority they rely on.
Quiet(m) == CaptureGuard(m) \/ BeginModelTurn(m) \/ FinishJournal(m)

Moves ==
  \/ JobStep \/ Reactivate
  \/ \E a \in Actors : Command(a)
  \/ \E m \in Models :
       AddModel(m) \/ Admit(m) \/ AdmitMember(m) \/ AdmitFails(m) \/ Discard(m) \/ DiscardOnLoop(m)

LEMMA NextCases == ASSUME GuardNext PROVE Moves \/ (\E m \in Models : Quiet(m))
BY DEF GuardNext, Moves, Quiet, Model

LEMMA QuietKeeps ==
  ASSUME NEW m, Quiet(m)
  PROVE  /\ UNCHANGED <<members, invitations, chanGen, inviteGen>>
         /\ UNCHANGED <<inChan, epoch, turnGen, connGen, phase, job>>
         /\ UNCHANGED <<stints, calls, entered>>
<1>1. CASE CaptureGuard(m)
  BY <1>1 DEF CaptureGuard, StartChannel, Load, ReadEpoch, ReadTurnGeneration, Reload, Recheck,
       StartDirect, ReadPeerConnection, ReadOwnTurn, ReadPeerTurn, CheckPeer, StartInvitation,
       CaptureInvitation, EndTurn, CaptureOnly, live, authority, past
<1>2. CASE BeginModelTurn(m)
  BY <1>2 DEF BeginModelTurn, live, authority, past
<1>3. CASE FinishJournal(m)
  BY <1>3 DEF FinishJournal, live, authority, past
<1>. QED BY <1>1, <1>2, <1>3 DEF Quiet

LEMMA MovesKeep ==
  ASSUME Moves
  PROVE  UNCHANGED <<turns, journal>>
<1>1. CASE JobStep
  BY <1>1 DEF JobStep, JoinAs, Refused, Enter, JoinChannel, BumpJoined, CommitDeparture, Depart,
       BumpDeparted, InstallDeparted, SealQuit, LeaveChannels, DiscardLeave, DiscardInstall,
       DiscardDelete
<1>2. CASE Reactivate
  BY <1>2 DEF Reactivate
<1>3. ASSUME NEW a \in Actors, Command(a)
      PROVE  UNCHANGED <<turns, journal>>
  BY <1>3 DEF Command, Join, Part, KickActor, QuitActor, InviteActor, Accept
<1>4. ASSUME NEW m \in Models,
             AddModel(m) \/ Admit(m) \/ AdmitMember(m) \/ AdmitFails(m) \/ Discard(m)
               \/ DiscardOnLoop(m)
      PROVE  UNCHANGED <<turns, journal>>
  BY <1>4 DEF AddModel, Admit, AdmitMember, AdmitFails, Discard, DiscardOnLoop, Enter
<1>. QED BY <1>1, <1>2, <1>3, <1>4 DEF Moves
---------------------------------------------------------------------------
(* Types *)

\* A turn that asks for a peer's generations has a peer.
PeerNamed ==
  \A a \in Actors :
    turns[a].at \in {"peerConn", "ownTurn", "peerTurn", "peerCheck"} => turns[a].guard.peer \in Actors

Typed == GuardTypeOK /\ PeerNamed

LEMMA InitTypes == GuardInit => Typed
<1>1. NoGuard \in Guards
  BY DEF NoGuard, Guards
<1>. QED
  BY <1>1, GuardAssumption DEF GuardInit, Typed, GuardTypeOK, PeerNamed, Counters, Jobs, GuardedTurns, Idle, Ended,
       NoJournal, Actors

LEMMA CaptureTypes ==
  ASSUME Typed, NEW m \in Models, CaptureGuard(m)
  PROVE  /\ turns' \in [Actors -> GuardedTurns]
         /\ journal' \in [Actors -> [guard : Guards, begun : BOOLEAN]]
         /\ PeerNamed'
<1> DEFINE T == [Actors -> GuardedTurns]
           J == [Actors -> [guard : Guards, begun : BOOLEAN]]
           g == turns[m].guard
<1>1. m \in Actors /\ turns \in T /\ journal \in J /\ turns[m].guard \in Guards
  BY DEF Typed, GuardTypeOK, GuardedTurns, Actors
<1>2. NoGuard \in Guards /\ Ended \in GuardedTurns
  BY DEF NoGuard, Guards, Ended, GuardedTurns
<1>3. \A a \in Actors : epoch[a] \in Nat /\ turnGen[a] \in Nat /\ connGen[a] \in Nat
        /\ inviteGen[a] \in Nat /\ stints[a] \in Nat /\ calls[a] \in Nat
  BY DEF Typed, GuardTypeOK, Counters
<1>4. chanGen \in Nat
  BY DEF Typed, GuardTypeOK
<1>5. ASSUME NEW h \in Guards, NEW at, [at |-> at, guard |-> h] \in GuardedTurns, Capturing(m, at, h),
             at \in {"peerConn", "ownTurn", "peerTurn", "peerCheck"} => h.peer \in Actors
      PROVE  turns' \in T /\ PeerNamed'
  BY <1>1, <1>5 DEF Capturing, Typed, PeerNamed
<1>6. ASSUME Refuse(m)
      PROVE  turns' \in T /\ journal' \in J /\ PeerNamed'
  <2>1. turns' = [turns EXCEPT ![m] = Ended] /\ journal' = journal /\ Ended.at = "idle"
    BY <1>6 DEF Refuse, Ended
  <2>. QED BY <2>1, <1>1, <1>2 DEF Typed, PeerNamed
<1>7. ASSUME NEW h \in Guards, Grant(m, h)
      PROVE  turns' \in T /\ journal' \in J /\ PeerNamed'
  <2>1. journal' \in J
    BY <1>1, <1>7 DEF Grant
  <2>2. [at |-> "held", guard |-> h] \in GuardedTurns
    BY DEF GuardedTurns
  <2>. QED BY <2>1, <2>2, <1>5, <1>7 DEF Grant
<1>8. CASE StartChannel(m)
  <2>1. [NoGuard EXCEPT !.kind = "channel", !.conn = connGen[m]] \in Guards
    BY <1>1, <1>2, <1>3 DEF Guards
  <2>. QED BY <2>1, <1>1, <1>5, <1>8 DEF StartChannel, CaptureOnly, GuardedTurns
<1>9. ASSUME NEW p \in Actors, StartDirect(m, p)
      PROVE  turns' \in T /\ journal' \in J /\ PeerNamed'
  <2> DEFINE h == [NoGuard EXCEPT !.kind = "dm", !.conn = connGen[m], !.peer = p]
  <2>1. h \in Guards /\ h.peer = p
    BY <1>1, <1>2, <1>3 DEF Guards
  <2>2. [at |-> "peerConn", guard |-> h] \in GuardedTurns
    BY <2>1 DEF GuardedTurns
  <2>. QED BY <2>1, <2>2, <1>1, <1>5, <1>9 DEF StartDirect, CaptureOnly
<1>10. CASE Load(m)
  BY <1>1, <1>5, <1>6, <1>10 DEF Load, CaptureOnly, GuardedTurns, Held
<1>11. CASE ReadEpoch(m)
  <2>1. [g EXCEPT !.epoch = epoch[m]] \in Guards
    BY <1>1, <1>3 DEF Guards
  <2>. QED BY <2>1, <1>1, <1>5, <1>11 DEF ReadEpoch, CaptureOnly, GuardedTurns, Held
<1>12. CASE ReadTurnGeneration(m)
  <2>1. [g EXCEPT !.turn = turnGen[m]] \in Guards
    BY <1>1, <1>3 DEF Guards
  <2>. QED BY <2>1, <1>1, <1>5, <1>12 DEF ReadTurnGeneration, CaptureOnly, GuardedTurns, Held
<1>13. CASE Reload(m)
  BY <1>1, <1>5, <1>6, <1>13 DEF Reload, CaptureOnly, GuardedTurns, Held
<1>14. CASE Recheck(m)
  <2>1. [g EXCEPT !.stint = stints[m]] \in Guards
    BY <1>1, <1>3 DEF Guards
  <2>. QED BY <2>1, <1>6, <1>7, <1>14 DEF Recheck, Held
<1>15. CASE ReadPeerConnection(m)
  <2> DEFINE h == [g EXCEPT !.peerConn = connGen[g.peer]]
  <2>1. g.peer \in Actors
    BY <1>1, <1>15 DEF ReadPeerConnection, At, Typed, PeerNamed
  <2>2. h \in Guards /\ h.peer = g.peer
    BY <1>1, <1>3, <2>1 DEF Guards
  <2>3. [at |-> "ownTurn", guard |-> h] \in GuardedTurns
    BY <2>2 DEF GuardedTurns
  <2>. QED BY <2>1, <2>2, <2>3, <1>1, <1>5, <1>15 DEF ReadPeerConnection, CaptureOnly, Held
<1>16. CASE ReadOwnTurn(m)
  <2> DEFINE h == [g EXCEPT !.turn = turnGen[m]]
  <2>1. g.peer \in Actors
    BY <1>1, <1>16 DEF ReadOwnTurn, At, Typed, PeerNamed
  <2>2. h \in Guards /\ h.peer = g.peer
    BY <1>1, <1>3 DEF Guards
  <2>3. [at |-> "peerTurn", guard |-> h] \in GuardedTurns
    BY <2>2 DEF GuardedTurns
  <2>. QED BY <2>1, <2>2, <2>3, <1>1, <1>5, <1>16 DEF ReadOwnTurn, CaptureOnly, Held
<1>17. CASE ReadPeerTurn(m)
  <2> DEFINE h == [g EXCEPT !.peerTurn = turnGen[g.peer]]
  <2>1. g.peer \in Actors
    BY <1>1, <1>17 DEF ReadPeerTurn, At, Typed, PeerNamed
  <2>2. h \in Guards /\ h.peer = g.peer
    BY <1>1, <1>3, <2>1 DEF Guards
  <2>3. [at |-> "peerCheck", guard |-> h] \in GuardedTurns
    BY <2>2 DEF GuardedTurns
  <2>. QED BY <2>1, <2>2, <2>3, <1>1, <1>5, <1>17 DEF ReadPeerTurn, CaptureOnly, Held
<1>18. CASE CheckPeer(m)
  BY <1>1, <1>6, <1>7, <1>18 DEF CheckPeer, Held
<1>19. CASE StartInvitation(m)
  <2>1. [NoGuard EXCEPT !.kind = "invitation", !.conn = connGen[m]] \in Guards
    BY <1>1, <1>2, <1>3 DEF Guards
  <2>. QED BY <2>1, <1>1, <1>5, <1>19 DEF StartInvitation, CaptureOnly, GuardedTurns
<1>20. CASE CaptureInvitation(m)
  <2> DEFINE h == [g EXCEPT !.chan = chanGen, !.inv = inviteGen[m], !.turn = turnGen[m],
                            !.epoch = epoch[m], !.call = calls[m]]
  <2>1. h \in Guards
    BY <1>1, <1>3, <1>4 DEF Guards
  <2>. QED BY <2>1, <1>6, <1>7, <1>20 DEF CaptureInvitation, Held
<1>21. CASE EndTurn(m)
  BY <1>6, <1>21 DEF EndTurn
<1>. QED
  BY <1>8, <1>9, <1>10, <1>11, <1>12, <1>13, <1>14, <1>15, <1>16, <1>17, <1>18, <1>19, <1>20,
     <1>21 DEF CaptureGuard

LEMMA QuietTypes ==
  ASSUME Typed, NEW m \in Models, Quiet(m), UNCHANGED kinds
  PROVE  Typed'
<1> USE DEF Typed
<1>1. UNCHANGED <<members, invitations, chanGen, inviteGen>>
      /\ UNCHANGED <<inChan, epoch, turnGen, connGen, phase, job>>
      /\ UNCHANGED <<stints, calls, entered>>
  BY QuietKeeps
<1>2. m \in Actors /\ journal[m] \in [guard : Guards, begun : BOOLEAN]
  BY DEF GuardTypeOK, Actors
<1>3. NoJournal \in [guard : Guards, begun : BOOLEAN]
  BY DEF NoJournal, NoGuard, Guards
<1>4. CASE CaptureGuard(m)
  <2>1. rows' = rows
    BY <1>4 DEF CaptureGuard, StartChannel, Load, ReadEpoch, ReadTurnGeneration, Reload, Recheck,
         StartDirect, ReadPeerConnection, ReadOwnTurn, ReadPeerTurn, CheckPeer,
         StartInvitation, CaptureInvitation, EndTurn, CaptureOnly
  <2>. QED BY <1>1, <1>4, <2>1, CaptureTypes DEF GuardTypeOK
<1>5. CASE BeginModelTurn(m)
  <2>1. RowOf(m, journal[m].guard) \in Rows
    BY <1>2 DEF RowOf, Rows, Guards
  <2>2. rows' \subseteq Rows
    BY <1>5, <2>1 DEF BeginModelTurn, GuardTypeOK
  <2>3. turns' = turns
    BY <1>5 DEF BeginModelTurn
  <2>4. PICK j \in {[journal[m] EXCEPT !.begun = TRUE], NoJournal} :
               journal' = [journal EXCEPT ![m] = j]
    BY <1>2, <1>5 DEF BeginModelTurn, GuardTypeOK
  <2>5. j \in [guard : Guards, begun : BOOLEAN]
    BY <1>2, <1>3
  <2>6. journal' \in [Actors -> [guard : Guards, begun : BOOLEAN]]
    BY <2>4, <2>5 DEF GuardTypeOK
  <2>. QED BY <1>1, <2>2, <2>3, <2>6 DEF GuardTypeOK, PeerNamed
<1>6. CASE FinishJournal(m)
  <2>1. rows' = rows /\ turns' = turns /\ journal' \in [Actors -> [guard : Guards, begun : BOOLEAN]]
    BY <1>2, <1>3, <1>6 DEF FinishJournal, GuardTypeOK
  <2>. QED BY <1>1, <2>1 DEF GuardTypeOK, PeerNamed
<1>. QED BY <1>4, <1>5, <1>6 DEF Quiet
LEMMA EnterTypes ==
  ASSUME GuardTypeOK, NEW a \in Actors, Enter(a)
  PROVE  /\ members' \subseteq Actors /\ invitations' \subseteq Models
         /\ inviteGen' \in Counters /\ stints' \in Counters /\ entered' \in Counters
         /\ job' \in Jobs /\ rows' \subseteq Rows
         /\ UNCHANGED <<chanGen, inChan, epoch, turnGen, connGen, calls>>
BY DEF Enter, Becomes, Reset, GuardTypeOK, Counters, Jobs

LEMMA WithoutTypes ==
  ASSUME GuardTypeOK, NEW a \in Actors, Without(a)
  PROVE  members' \subseteq Actors /\ invitations' \subseteq Models /\ chanGen' \in Nat
BY DEF Without, GuardTypeOK

LEMMA MovesTypes ==
  ASSUME Typed, Moves, UNCHANGED kinds
  PROVE  Typed'
<1> USE DEF Typed
<1>1. UNCHANGED <<turns, journal, kinds>>
  BY MovesKeep
<1>2. job.who \in Actors /\ job.locked \in SUBSET Actors /\ User \in Actors /\ Models \subseteq Actors
  BY DEF GuardTypeOK, Jobs, Actors
<1>3. PeerNamed'
  BY <1>1 DEF PeerNamed
<1>4. Idle \in Jobs /\ \A a \in Actors : Locks(a) \in SUBSET Actors
  BY <1>2 DEF Idle, Jobs, Locks, GuardTypeOK
<1>5. CASE JobStep
  <2>1. CASE job.at = "join" /\ Refused
    BY <1>1, <1>3, <1>4, <2>1 DEF Refused, GuardTypeOK, live, authority, past
  <2>2. CASE Enter(job.who) /\ UNCHANGED phase
    BY <1>1, <1>2, <1>3, <2>2, EnterTypes DEF GuardTypeOK
  <2>3. CASE JoinChannel
    BY <1>1, <1>2, <1>3, <2>3 DEF JoinChannel, Becomes, GuardTypeOK, Jobs, live, past
  <2>4. CASE BumpJoined
    BY <1>1, <1>2, <1>3, <1>4, <2>4 DEF BumpJoined, Bumped, GuardTypeOK, Counters, live, past
  <2>5. CASE CommitDeparture
    BY <1>1, <1>2, <1>3, <1>4, <2>5 DEF CommitDeparture, Depart, Becomes, GuardTypeOK, Jobs, live, past
  <2>6. CASE BumpDeparted
    BY <1>1, <1>2, <1>3, <2>6 DEF BumpDeparted, Bumped, Becomes, GuardTypeOK, Counters, Jobs, live, past
  <2>7. CASE InstallDeparted
    BY <1>1, <1>2, <1>3, <1>4, <2>7, WithoutTypes DEF InstallDeparted, GuardTypeOK, authority, past
  <2>8. CASE SealQuit
    BY <1>1, <1>2, <1>3, <2>8 DEF SealQuit, Becomes, GuardTypeOK, Counters, Jobs, live, past
  <2>9. CASE LeaveChannels
    BY <1>1, <1>2, <1>3, <1>4, <2>9 DEF LeaveChannels, GuardTypeOK, live, past
  <2>10. CASE DiscardLeave
    BY <1>1, <1>2, <1>3, <2>10 DEF DiscardLeave, Becomes, GuardTypeOK, Jobs, live, past
  <2>11. CASE DiscardInstall
    BY <1>1, <1>2, <1>3, <2>11, WithoutTypes DEF DiscardInstall, Becomes, GuardTypeOK, Jobs, authority, past
  <2>12. CASE DiscardDelete
    BY <1>1, <1>2, <1>3, <1>4, <2>12 DEF DiscardDelete, GuardTypeOK, live, past
  <2>. QED
    BY <1>5, <2>1, <2>2, <2>3, <2>4, <2>5, <2>6, <2>7, <2>8, <2>9, <2>10, <2>11, <2>12
    DEF JobStep, JoinAs
<1>6. CASE Reactivate
  BY <1>1, <1>2, <1>3, <1>6 DEF Reactivate, GuardTypeOK, Counters, live, past
<1>7. ASSUME NEW a \in Actors, Command(a)
      PROVE  GuardTypeOK'
  <2>1. ASSUME NEW b \in Actors, NEW what \in {"join", "depart"}, NEW c \in Actors, Accept(b, what, c)
        PROVE  GuardTypeOK'
    BY <1>1, <2>1 DEF Accept, Becomes, GuardTypeOK, Jobs, live, authority, past
  <2>2. CASE Join(a) \/ Part(a) \/ KickActor(a)
    BY <1>2, <1>7, <2>1, <2>2 DEF Join, Part, KickActor
  <2>3. CASE QuitActor(a)
    <3>1. job' = [at |-> "quitSeal", who |-> a, locked |-> Locks(a)]
      BY <2>3 DEF QuitActor, Becomes
    <3>2. members' \subseteq Actors /\ invitations' \subseteq Models /\ chanGen' \in Nat
      BY <2>3, <1>7, WithoutTypes DEF QuitActor, GuardTypeOK
    <3>. QED
      BY <1>1, <1>2, <1>4, <1>7, <2>3, <3>1, <3>2 DEF QuitActor, GuardTypeOK, Jobs, authority, past
  <2>4. ASSUME NEW by \in Actors, a # User, InviteActor(by, a)
        PROVE  GuardTypeOK'
    <3>1. a \in Models
      BY <1>7, <2>4 DEF Actors
    <3>. QED BY <1>1, <1>7, <2>4, <3>1 DEF InviteActor, GuardTypeOK, Counters, authority
  <2>. QED BY <1>7, <2>2, <2>3, <2>4 DEF Command
<1>8. ASSUME NEW m \in Models,
             AddModel(m) \/ Admit(m) \/ AdmitMember(m) \/ AdmitFails(m) \/ Discard(m)
               \/ DiscardOnLoop(m)
      PROVE  GuardTypeOK'
  <2>1. m \in Actors
    BY <1>2
  <2>2. CASE AddModel(m)
    BY <1>1, <2>1, <2>2 DEF AddModel, GuardTypeOK, live, past
  <2>3. CASE Admit(m)
    <3>1. Enter(m) /\ phase' \in [Actors -> {"absent", "adding", "failed", "up", "discarding", "gone"}]
      BY <2>1, <2>3 DEF Admit, GuardTypeOK
    <3>. QED BY <1>1, <2>1, <3>1, EnterTypes DEF GuardTypeOK
  <2>4. CASE AdmitMember(m) \/ AdmitFails(m)
    BY <1>1, <2>1, <2>4 DEF AdmitMember, AdmitFails, GuardTypeOK, live, past
  <2>5. CASE Discard(m)
    BY <1>1, <2>1, <2>5 DEF Discard, GuardTypeOK, Counters, live, past
  <2>6. CASE DiscardOnLoop(m)
    BY <1>1, <2>1, <2>6 DEF DiscardOnLoop, Becomes, Bumped, GuardTypeOK, Counters, Jobs, live, past
  <2>. QED BY <1>8, <2>2, <2>3, <2>4, <2>5, <2>6
<1>. QED BY <1>3, <1>5, <1>6, <1>7, <1>8 DEF Moves

(* Every reachable state is well typed; in particular a turn that reads the
   generations of a direct conversation's peer has one (serverClient.GuardWindow). *)
THEOREM TypeCorrect == GuardSpec => []Typed
<1>1. GuardInit => Typed
  BY InitTypes
<1>2. Typed /\ [GuardNext]_guardVars => Typed'
  <2> SUFFICES ASSUME Typed, [GuardNext]_guardVars
               PROVE  Typed'
    OBVIOUS
  <2>1. CASE GuardNext
    <3>1. UNCHANGED kinds
      BY <2>1 DEF GuardNext
    <3>. QED BY <2>1, <3>1, NextCases, QuietTypes, MovesTypes
  <2>2. CASE UNCHANGED guardVars
    BY <2>2 DEF guardVars, live, authority, past, Typed, GuardTypeOK, PeerNamed
  <2>. QED BY <2>1, <2>2
<1>. QED BY <1>1, <1>2, PTL DEF GuardSpec
---------------------------------------------------------------------------
(* The moves one by one *)

\* A command is accepted: the loop takes it up, and nothing else has changed.
Accepts ==
  /\ LoopIdle
  /\ \E what \in {"join", "depart"}, a \in Actors : Becomes(what, a, {})
  /\ UNCHANGED <<live, authority, rows, past>>

\* The loop enters an actor, which leaves its client as valid as it was.
Entering(a) ==
  /\ LoopIdle \/ (job.at = "join" /\ job.who = a)
  /\ Enter(a)
  /\ \/ UNCHANGED phase
     \/ /\ phase[a] = "adding"
        /\ \E p \in {"up", "failed"} : phase' = [phase EXCEPT ![a] = p]

\* A step of ADDMODEL that ends no authority.
Adding(m) ==
  /\ LoopIdle /\ phase[m] \in {"absent", "adding"}
  /\ \E p \in {"adding", "up", "failed"} : phase' = [phase EXCEPT ![m] = p]
  /\ UNCHANGED <<live, inChan, epoch, turnGen, connGen, job, rows, past>>

LEMMA MoveCases ==
  ASSUME Typed, Moves
  PROVE  \/ Accepts
         \/ job.at = "join" /\ Refused
         \/ \E a \in Actors : Entering(a)
         \/ JoinChannel \/ BumpJoined
         \/ CommitDeparture \/ BumpDeparted \/ InstallDeparted
         \/ \E a \in Actors : QuitActor(a)
         \/ SealQuit \/ LeaveChannels \/ Reactivate
         \/ \E by \in Actors, a \in Actors : InviteActor(by, a)
         \/ \E m \in Models : Adding(m)
         \/ \E m \in Models : Discard(m)
         \/ \E m \in Models : DiscardOnLoop(m)
         \/ DiscardLeave \/ DiscardInstall \/ DiscardDelete
<1>1. job.who \in Actors /\ Models \subseteq Actors
  BY DEF Typed, GuardTypeOK, Jobs, Actors
<1>2. CASE JobStep
  BY <1>1, <1>2 DEF JobStep, JoinAs, Entering
<1>3. ASSUME NEW a \in Actors, Command(a)
      PROVE  Accepts \/ QuitActor(a) \/ \E by \in Actors : InviteActor(by, a)
  BY <1>3 DEF Command, Join, Part, KickActor, Accept, Accepts
<1>4. ASSUME NEW m \in Models, AddModel(m) \/ AdmitMember(m) \/ AdmitFails(m)
      PROVE  Adding(m)
  BY <1>4 DEF AddModel, AdmitMember, AdmitFails, Adding
<1>5. ASSUME NEW m \in Models, Admit(m)
      PROVE  Entering(m)
  <2>1. LoopIdle /\ phase[m] = "adding" /\ Enter(m)
    BY <1>5 DEF Admit
  <2>2. \E p \in {"up", "failed"} : phase' = [phase EXCEPT ![m] = p]
    BY <1>5 DEF Admit
  <2>. QED BY <2>1, <2>2 DEF Entering
<1>. QED BY <1>1, <1>2, <1>3, <1>4, <1>5 DEF Moves

Doing(a, steps) == job.who = a /\ job.at \in steps

(* What a job under way has done and has not done yet: it holds its actor's
   replayMu, and a member that departs has left its own channel set already. *)
JobInv ==
  /\ job.at \in {"joinSet", "joinBump", "departBump", "departInstall", "quitSeal",
                 "discardLeave", "discardInstall"} => job.who \in job.locked
  /\ job.at \in {"joinSet", "joinBump", "departBump", "departInstall"} => job.who \in members
  /\ job.at \in {"departBump", "departInstall"} => ~inChan[job.who]
  /\ job.at \in {"discardLeave", "discardInstall", "discardDelete"} => phase[job.who] = "discarding"

LEMMA JobMoves ==
  ASSUME Typed, JobInv, Moves
  PROVE  JobInv'
<1> USE DEF Becomes, Idle, LoopIdle, live, authority, past
<1>1. job.who \in Actors /\ Models \subseteq Actors
  BY DEF Typed, GuardTypeOK, Jobs, Actors
<1>2. /\ inChan \in [Actors -> BOOLEAN] /\ members \subseteq Actors
      /\ phase \in [Actors -> {"absent", "adding", "failed", "up", "discarding", "gone"}]
  BY DEF Typed, GuardTypeOK
<1>3. CASE Accepts
  BY <1>1, <1>2, <1>3 DEF Accepts, JobInv
<1>4. CASE job.at = "join" /\ Refused
  BY <1>1, <1>2, <1>4 DEF Refused, JobInv
<1>5. ASSUME NEW a \in Actors, Entering(a)
      PROVE  JobInv'
  BY <1>1, <1>2, <1>5 DEF Entering, Enter, JobInv
<1>6. CASE JoinChannel
  BY <1>1, <1>2, <1>6 DEF JoinChannel, JobInv
<1>7. CASE BumpJoined
  BY <1>1, <1>2, <1>7 DEF BumpJoined, JobInv
<1>8. CASE CommitDeparture
  BY <1>1, <1>2, <1>8 DEF CommitDeparture, Depart, Locks, JobInv
<1>9. CASE BumpDeparted
  BY <1>1, <1>2, <1>9 DEF BumpDeparted, JobInv
<1>10. CASE InstallDeparted
  BY <1>1, <1>2, <1>10 DEF InstallDeparted, JobInv
<1>11. ASSUME NEW a \in Actors, QuitActor(a)
       PROVE  JobInv'
  BY <1>1, <1>2, <1>11 DEF QuitActor, Locks, JobInv
<1>12. CASE SealQuit
  BY <1>1, <1>2, <1>12 DEF SealQuit, JobInv
<1>13. CASE LeaveChannels
  BY <1>1, <1>2, <1>13 DEF LeaveChannels, JobInv
<1>14. CASE Reactivate
  BY <1>1, <1>2, <1>14 DEF Reactivate, JobInv
<1>15. ASSUME NEW by \in Actors, NEW a \in Actors, InviteActor(by, a)
       PROVE  JobInv'
  BY <1>1, <1>2, <1>15 DEF InviteActor, JobInv
<1>16. ASSUME NEW m \in Models, Adding(m)
       PROVE  JobInv'
  BY <1>1, <1>2, <1>16 DEF Adding, JobInv
<1>17. ASSUME NEW m \in Models, Discard(m)
       PROVE  JobInv'
  BY <1>1, <1>2, <1>17 DEF Discard, JobInv
<1>18. ASSUME NEW m \in Models, DiscardOnLoop(m)
       PROVE  JobInv'
  BY <1>1, <1>2, <1>18 DEF DiscardOnLoop, JobInv
<1>19. CASE DiscardLeave
  BY <1>1, <1>2, <1>19 DEF DiscardLeave, JobInv
<1>20. CASE DiscardInstall
  BY <1>1, <1>2, <1>20 DEF DiscardInstall, JobInv
<1>21. CASE DiscardDelete
  BY <1>1, <1>2, <1>21 DEF DiscardDelete, JobInv
<1>. QED
  BY <1>3, <1>4, <1>5, <1>6, <1>7, <1>8, <1>9, <1>10, <1>11, <1>12, <1>13, <1>14, <1>15, <1>16,
     <1>17, <1>18, <1>19, <1>20, <1>21, MoveCases
---------------------------------------------------------------------------
(* What is true of a guard in use, whatever the loop does; g is any guard *)

Alive(a, g) == g.conn = connGen[a] /\ phase[a] \notin {"discarding", "gone"}

\* The epoch tells stays apart, but for the step between a JOIN and its bump.
SameStay(a, g) ==
  /\ g.epoch <= epoch[a]
  /\ g.epoch = epoch[a] => g.stint = stints[a] \/ Doing(a, {"joinSet", "joinBump"})

\* A connected client whose epoch has not moved is a member, or is quitting.
Stays(a, g) ==
  /\ g.conn <= connGen[a]
  /\ g.epoch <= epoch[a]
  /\ Alive(a, g) /\ g.epoch = epoch[a] =>
       /\ a \in members \/ Doing(a, {"quitSeal"})
       /\ ~Doing(a, {"departInstall"})

PeerPast(g) == g.peer \in Actors /\ g.peerConn <= connGen[g.peer]

LEMMA StaysMoves ==
  ASSUME Typed, JobInv, Moves, NEW a \in Actors, NEW g \in Guards, Stays(a, g)
  PROVE  Stays(a, g)'
<1> USE DEF Becomes, Idle, LoopIdle, live, authority, past
<1>1. job.who \in Actors /\ Models \subseteq Actors /\ User \in Actors
  BY DEF Typed, GuardTypeOK, Jobs, Actors
<1>2. /\ epoch \in [Actors -> Nat] /\ connGen \in [Actors -> Nat]
      /\ phase \in [Actors -> {"absent", "adding", "failed", "up", "discarding", "gone"}]
      /\ g.epoch \in Nat /\ g.conn \in Nat
  BY DEF Typed, GuardTypeOK, Counters, Guards
<1>3. CASE Accepts
  BY <1>1, <1>2, <1>3 DEF Accepts, Stays, Alive, Doing, JobInv
<1>4. CASE job.at = "join" /\ Refused
  BY <1>1, <1>2, <1>4 DEF Refused, Stays, Alive, Doing, JobInv
<1>5. ASSUME NEW b \in Actors, Entering(b)
      PROVE  Stays(a, g)'
  BY <1>1, <1>2, <1>5 DEF Entering, Enter, Stays, Alive, Doing, JobInv
<1>6. CASE JoinChannel
  BY <1>1, <1>2, <1>6 DEF JoinChannel, Stays, Alive, Doing, JobInv
<1>7. CASE BumpJoined
  BY <1>1, <1>2, <1>7 DEF BumpJoined, Bumped, Stays, Alive, Doing, JobInv
<1>8. CASE CommitDeparture
  BY <1>1, <1>2, <1>8 DEF CommitDeparture, Depart, Stays, Alive, Doing, JobInv
<1>9. CASE BumpDeparted
  BY <1>1, <1>2, <1>9 DEF BumpDeparted, Bumped, Stays, Alive, Doing, JobInv
<1>10. CASE InstallDeparted
  BY <1>1, <1>2, <1>10 DEF InstallDeparted, Without, Stays, Alive, Doing, JobInv
<1>11. ASSUME NEW b \in Actors, QuitActor(b)
       PROVE  Stays(a, g)'
  BY <1>1, <1>2, <1>11 DEF QuitActor, Without, Stays, Alive, Doing, JobInv
<1>12. CASE SealQuit
  BY <1>1, <1>2, <1>12 DEF SealQuit, Stays, Alive, Doing, JobInv
<1>13. CASE LeaveChannels
  BY <1>1, <1>2, <1>13 DEF LeaveChannels, Stays, Alive, Doing, JobInv
<1>14. CASE Reactivate
  BY <1>1, <1>2, <1>14 DEF Reactivate, Stays, Alive, Doing, JobInv
<1>15. ASSUME NEW by \in Actors, NEW b \in Actors, InviteActor(by, b)
       PROVE  Stays(a, g)'
  BY <1>1, <1>2, <1>15 DEF InviteActor, Stays, Alive, Doing, JobInv
<1>16. ASSUME NEW m \in Models, Adding(m)
       PROVE  Stays(a, g)'
  BY <1>1, <1>2, <1>16 DEF Adding, Stays, Alive, Doing, JobInv
<1>17. ASSUME NEW m \in Models, Discard(m)
       PROVE  Stays(a, g)'
  BY <1>1, <1>2, <1>17 DEF Discard, Stays, Alive, Doing, JobInv
<1>18. ASSUME NEW m \in Models, DiscardOnLoop(m)
       PROVE  Stays(a, g)'
  BY <1>1, <1>2, <1>18 DEF DiscardOnLoop, Bumped, Stays, Alive, Doing, JobInv
<1>19. CASE DiscardLeave
  BY <1>1, <1>2, <1>19 DEF DiscardLeave, Stays, Alive, Doing, JobInv
<1>20. CASE DiscardInstall
  BY <1>1, <1>2, <1>20 DEF DiscardInstall, Without, Stays, Alive, Doing, JobInv
<1>21. CASE DiscardDelete
  BY <1>1, <1>2, <1>21 DEF DiscardDelete, Stays, Alive, Doing, JobInv
<1>. QED
  BY <1>3, <1>4, <1>5, <1>6, <1>7, <1>8, <1>9, <1>10, <1>11, <1>12, <1>13, <1>14, <1>15, <1>16,
     <1>17, <1>18, <1>19, <1>20, <1>21, MoveCases

LEMMA SameStayMoves ==
  ASSUME Typed, Moves, NEW a \in Actors, NEW g \in Guards, SameStay(a, g)
  PROVE  SameStay(a, g)'
<1> USE DEF Becomes, Idle, LoopIdle, live, authority, past
<1>1. job.who \in Actors /\ Models \subseteq Actors
  BY DEF Typed, GuardTypeOK, Jobs, Actors
<1>2. /\ epoch \in [Actors -> Nat] /\ stints \in [Actors -> Nat]
      /\ g.epoch \in Nat /\ g.stint \in Nat
  BY DEF Typed, GuardTypeOK, Counters, Guards
<1>3. CASE Accepts
  BY <1>1, <1>2, <1>3 DEF Accepts, SameStay, Doing
<1>4. CASE job.at = "join" /\ Refused
  BY <1>1, <1>2, <1>4 DEF Refused, SameStay, Doing
<1>5. ASSUME NEW b \in Actors, Entering(b)
      PROVE  SameStay(a, g)'
  BY <1>1, <1>2, <1>5 DEF Entering, Enter, SameStay, Doing
<1>6. CASE JoinChannel
  BY <1>1, <1>2, <1>6 DEF JoinChannel, SameStay, Doing
<1>7. CASE BumpJoined
  BY <1>1, <1>2, <1>7 DEF BumpJoined, Bumped, SameStay, Doing
<1>8. CASE CommitDeparture
  BY <1>1, <1>2, <1>8 DEF CommitDeparture, Depart, SameStay, Doing
<1>9. CASE BumpDeparted
  BY <1>1, <1>2, <1>9 DEF BumpDeparted, Bumped, SameStay, Doing
<1>10. CASE InstallDeparted
  BY <1>1, <1>2, <1>10 DEF InstallDeparted, Without, SameStay, Doing
<1>11. ASSUME NEW b \in Actors, QuitActor(b)
       PROVE  SameStay(a, g)'
  BY <1>1, <1>2, <1>11 DEF QuitActor, Without, SameStay, Doing
<1>12. CASE SealQuit
  BY <1>1, <1>2, <1>12 DEF SealQuit, SameStay, Doing
<1>13. CASE LeaveChannels
  BY <1>1, <1>2, <1>13 DEF LeaveChannels, SameStay, Doing
<1>14. CASE Reactivate
  BY <1>1, <1>2, <1>14 DEF Reactivate, SameStay, Doing
<1>15. ASSUME NEW by \in Actors, NEW b \in Actors, InviteActor(by, b)
       PROVE  SameStay(a, g)'
  BY <1>1, <1>2, <1>15 DEF InviteActor, SameStay, Doing
<1>16. ASSUME NEW m \in Models, Adding(m)
       PROVE  SameStay(a, g)'
  BY <1>1, <1>2, <1>16 DEF Adding, SameStay, Doing
<1>17. ASSUME NEW m \in Models, Discard(m)
       PROVE  SameStay(a, g)'
  BY <1>1, <1>2, <1>17 DEF Discard, SameStay, Doing
<1>18. ASSUME NEW m \in Models, DiscardOnLoop(m)
       PROVE  SameStay(a, g)'
  BY <1>1, <1>2, <1>18 DEF DiscardOnLoop, Bumped, SameStay, Doing
<1>19. CASE DiscardLeave
  BY <1>1, <1>2, <1>19 DEF DiscardLeave, SameStay, Doing
<1>20. CASE DiscardInstall
  BY <1>1, <1>2, <1>20 DEF DiscardInstall, Without, SameStay, Doing
<1>21. CASE DiscardDelete
  BY <1>1, <1>2, <1>21 DEF DiscardDelete, SameStay, Doing
<1>. QED
  BY <1>3, <1>4, <1>5, <1>6, <1>7, <1>8, <1>9, <1>10, <1>11, <1>12, <1>13, <1>14, <1>15, <1>16,
     <1>17, <1>18, <1>19, <1>20, <1>21, MoveCases

\* Epochs and connection generations are numbers that never shrink.
Grown(a) ==
  /\ epoch[a] \in Nat /\ epoch'[a] \in Nat /\ epoch[a] <= epoch'[a]
  /\ connGen[a] \in Nat /\ connGen'[a] \in Nat /\ connGen[a] <= connGen'[a]

LEMMA GenerationsGrow ==
  ASSUME Typed, Moves, NEW a \in Actors
  PROVE  Grown(a)
<1> USE DEF Becomes, Idle, LoopIdle, live, authority, past
<1>1. job.who \in Actors /\ Models \subseteq Actors
  BY DEF Typed, GuardTypeOK, Jobs, Actors
<1>2. epoch \in [Actors -> Nat] /\ connGen \in [Actors -> Nat]
  BY DEF Typed, GuardTypeOK, Counters
<1>3. CASE Accepts
  BY <1>1, <1>2, <1>3 DEF Accepts, Grown
<1>4. CASE job.at = "join" /\ Refused
  BY <1>1, <1>2, <1>4 DEF Refused, Grown
<1>5. ASSUME NEW b \in Actors, Entering(b)
      PROVE  Grown(a)
  BY <1>1, <1>2, <1>5 DEF Entering, Enter, Grown
<1>6. CASE JoinChannel
  BY <1>1, <1>2, <1>6 DEF JoinChannel, Grown
<1>7. CASE BumpJoined
  BY <1>1, <1>2, <1>7 DEF BumpJoined, Bumped, Grown
<1>8. CASE CommitDeparture
  BY <1>1, <1>2, <1>8 DEF CommitDeparture, Depart, Grown
<1>9. CASE BumpDeparted
  BY <1>1, <1>2, <1>9 DEF BumpDeparted, Bumped, Grown
<1>10. CASE InstallDeparted
  BY <1>1, <1>2, <1>10 DEF InstallDeparted, Without, Grown
<1>11. ASSUME NEW b \in Actors, QuitActor(b)
       PROVE  Grown(a)
  BY <1>1, <1>2, <1>11 DEF QuitActor, Without, Grown
<1>12. CASE SealQuit
  BY <1>1, <1>2, <1>12 DEF SealQuit, Grown
<1>13. CASE LeaveChannels
  BY <1>1, <1>2, <1>13 DEF LeaveChannels, Grown
<1>14. CASE Reactivate
  BY <1>1, <1>2, <1>14 DEF Reactivate, Grown
<1>15. ASSUME NEW by \in Actors, NEW b \in Actors, InviteActor(by, b)
       PROVE  Grown(a)
  BY <1>1, <1>2, <1>15 DEF InviteActor, Grown
<1>16. ASSUME NEW m \in Models, Adding(m)
       PROVE  Grown(a)
  BY <1>1, <1>2, <1>16 DEF Adding, Grown
<1>17. ASSUME NEW m \in Models, Discard(m)
       PROVE  Grown(a)
  BY <1>1, <1>2, <1>17 DEF Discard, Grown
<1>18. ASSUME NEW m \in Models, DiscardOnLoop(m)
       PROVE  Grown(a)
  BY <1>1, <1>2, <1>18 DEF DiscardOnLoop, Bumped, Grown
<1>19. CASE DiscardLeave
  BY <1>1, <1>2, <1>19 DEF DiscardLeave, Grown
<1>20. CASE DiscardInstall
  BY <1>1, <1>2, <1>20 DEF DiscardInstall, Without, Grown
<1>21. CASE DiscardDelete
  BY <1>1, <1>2, <1>21 DEF DiscardDelete, Grown
<1>. QED
  BY <1>3, <1>4, <1>5, <1>6, <1>7, <1>8, <1>9, <1>10, <1>11, <1>12, <1>13, <1>14, <1>15, <1>16,
     <1>17, <1>18, <1>19, <1>20, <1>21, MoveCases

LEMMA PeerMoves ==
  ASSUME Typed, Moves, NEW g \in Guards, PeerPast(g)
  PROVE  PeerPast(g)'
<1>1. Grown(g.peer) /\ g.peerConn \in Nat
  BY GenerationsGrow DEF PeerPast, Guards
<1>. QED BY <1>1 DEF PeerPast, Grown

(* An invitation's generations tell it from every other: while none of them has
   moved it is pending, and one generation later the membership that stands is
   the one it began. *)
Called(a, g) ==
  /\ g.conn <= connGen[a]
  /\ g.chan <= chanGen /\ g.inv <= inviteGen[a] /\ g.epoch <= epoch[a]
  /\ g.inv = inviteGen[a] => g.call = calls[a]
  /\ g.chan = chanGen /\ g.inv = inviteGen[a] => a \in invitations
  /\ g.chan = chanGen /\ g.inv + 1 = inviteGen[a] /\ Alive(a, g) =>
     /\ epoch[a] = g.epoch =>
          /\ Doing(a, {"joinSet", "joinBump"})
          /\ g.call = entered[a]
     /\ epoch[a] = g.epoch + 1 =>
          /\ a \in members \/ Doing(a, {"quitSeal"})
          /\ ~Doing(a, {"departInstall"})
          /\ g.call = entered[a]

LEMMA CalledMoves ==
  ASSUME Typed, JobInv, Moves, NEW a \in Actors, NEW g \in Guards, Called(a, g)
  PROVE  Called(a, g)'
<1> USE DEF Becomes, Idle, LoopIdle, live, authority, past
<1>1. job.who \in Actors /\ Models \subseteq Actors /\ User \in Actors
  BY DEF Typed, GuardTypeOK, Jobs, Actors
<1>2. /\ epoch \in [Actors -> Nat] /\ connGen \in [Actors -> Nat]
      /\ inviteGen \in [Actors -> Nat] /\ calls \in [Actors -> Nat] /\ entered \in [Actors -> Nat]
      /\ chanGen \in Nat /\ members \subseteq Actors
      /\ phase \in [Actors -> {"absent", "adding", "failed", "up", "discarding", "gone"}]
      /\ g.epoch \in Nat /\ g.conn \in Nat /\ g.chan \in Nat /\ g.inv \in Nat /\ g.call \in Nat
  BY DEF Typed, GuardTypeOK, Counters, Guards
<1>3. CASE Accepts
  BY <1>1, <1>2, <1>3 DEF Accepts, Called, Alive, Doing, JobInv
<1>4. CASE job.at = "join" /\ Refused
  BY <1>1, <1>2, <1>4 DEF Refused, Called, Alive, Doing, JobInv
<1>5. ASSUME NEW b \in Actors, Entering(b)
      PROVE  Called(a, g)'
  BY <1>1, <1>2, <1>5 DEF Entering, Enter, Called, Alive, Doing, JobInv
<1>6. CASE JoinChannel
  BY <1>1, <1>2, <1>6 DEF JoinChannel, Called, Alive, Doing, JobInv
<1>7. CASE BumpJoined
  BY <1>1, <1>2, <1>7 DEF BumpJoined, Bumped, Called, Alive, Doing, JobInv
<1>8. CASE CommitDeparture
  BY <1>1, <1>2, <1>8 DEF CommitDeparture, Depart, Called, Alive, Doing, JobInv
<1>9. CASE BumpDeparted
  BY <1>1, <1>2, <1>9 DEF BumpDeparted, Bumped, Called, Alive, Doing, JobInv
<1>10. CASE InstallDeparted
  BY <1>1, <1>2, <1>10 DEF InstallDeparted, Without, Called, Alive, Doing, JobInv
<1>11. ASSUME NEW b \in Actors, QuitActor(b)
       PROVE  Called(a, g)'
  BY <1>1, <1>2, <1>11 DEF QuitActor, Without, Called, Alive, Doing, JobInv
<1>12. CASE SealQuit
  BY <1>1, <1>2, <1>12 DEF SealQuit, Called, Alive, Doing, JobInv
<1>13. CASE LeaveChannels
  BY <1>1, <1>2, <1>13 DEF LeaveChannels, Called, Alive, Doing, JobInv
<1>14. CASE Reactivate
  BY <1>1, <1>2, <1>14 DEF Reactivate, Called, Alive, Doing, JobInv
<1>15. ASSUME NEW by \in Actors, NEW b \in Actors, InviteActor(by, b)
       PROVE  Called(a, g)'
  BY <1>1, <1>2, <1>15 DEF InviteActor, Called, Alive, Doing, JobInv
<1>16. ASSUME NEW m \in Models, Adding(m)
       PROVE  Called(a, g)'
  BY <1>1, <1>2, <1>16 DEF Adding, Called, Alive, Doing, JobInv
<1>17. ASSUME NEW m \in Models, Discard(m)
       PROVE  Called(a, g)'
  BY <1>1, <1>2, <1>17 DEF Discard, Called, Alive, Doing, JobInv
<1>18. ASSUME NEW m \in Models, DiscardOnLoop(m)
       PROVE  Called(a, g)'
  BY <1>1, <1>2, <1>18 DEF DiscardOnLoop, Bumped, Called, Alive, Doing, JobInv
<1>19. CASE DiscardLeave
  BY <1>1, <1>2, <1>19 DEF DiscardLeave, Called, Alive, Doing, JobInv
<1>20. CASE DiscardInstall
  BY <1>1, <1>2, <1>20 DEF DiscardInstall, Without, Called, Alive, Doing, JobInv
<1>21. CASE DiscardDelete
  BY <1>1, <1>2, <1>21 DEF DiscardDelete, Called, Alive, Doing, JobInv
<1>. QED
  BY <1>3, <1>4, <1>5, <1>6, <1>7, <1>8, <1>9, <1>10, <1>11, <1>12, <1>13, <1>14, <1>15, <1>16,
     <1>17, <1>18, <1>19, <1>20, <1>21, MoveCases
---------------------------------------------------------------------------
(* The guards in use *)

\* What a captured guard says of the present, as long as it may be found valid.
GuardInv(a, g) ==
  /\ g.kind = "channel" => g.peer = NoActor /\ SameStay(a, g) /\ Stays(a, g)
  /\ g.kind = "dm" => g.conn <= connGen[a] /\ PeerPast(g)
  /\ g.kind = "invitation" => g.peer = NoActor /\ g.call > 0 /\ Called(a, g)

\* What is known of a turn while it captures its guard, one read after another.
TurnInv(a, t) ==
  /\ t.guard.conn <= connGen[a]
  /\ t.at \in {"load", "epoch", "turnGen", "reload", "recheck"} =>
       t.guard.kind = "channel" /\ t.guard.peer = NoActor
  /\ t.at \in {"turnGen", "reload", "recheck"} => t.guard.epoch <= epoch[a]
  /\ t.at = "recheck" => Stays(a, t.guard)
  /\ t.at \in {"peerConn", "ownTurn", "peerTurn", "peerCheck"} =>
       t.guard.kind = "dm" /\ t.guard.peer \in Actors
  /\ t.at \in {"ownTurn", "peerTurn", "peerCheck"} => PeerPast(t.guard)
  /\ t.at = "invitation" => t.guard.kind = "invitation" /\ t.guard.peer = NoActor
  /\ t.at = "held" => GuardInv(a, t.guard)

InvitedInv == \A a \in invitations : calls[a] > 0

GuardsInv ==
  \A a \in Actors : TurnInv(a, turns[a]) /\ GuardInv(a, journal[a].guard)

GInv == Typed /\ JobInv /\ InvitedInv /\ GuardsInv

LEMMA GuardMoves ==
  ASSUME Typed, JobInv, Moves, NEW a \in Actors, NEW g \in Guards, GuardInv(a, g)
  PROVE  GuardInv(a, g)'
<1>1. g.conn \in Nat /\ (g.conn <= connGen[a] => g.conn <= connGen'[a])
  BY GenerationsGrow DEF Grown, Guards
<1>2. PeerPast(g) => PeerPast(g)'
  BY PeerMoves
<1>3. SameStay(a, g) => SameStay(a, g)'
  BY SameStayMoves
<1>4. Stays(a, g) => Stays(a, g)'
  BY StaysMoves
<1>5. Called(a, g) => Called(a, g)'
  BY CalledMoves
<1>. QED
  BY <1>1, <1>2, <1>3, <1>4, <1>5 DEF GuardInv

LEMMA TurnMoves ==
  ASSUME Typed, JobInv, Moves, NEW a \in Actors, NEW t \in GuardedTurns, TurnInv(a, t)
  PROVE  TurnInv(a, t)'
<1>1. t.guard \in Guards
  BY DEF GuardedTurns
<1>2. /\ t.guard.conn <= connGen[a] => t.guard.conn <= connGen'[a]
      /\ t.guard.epoch <= epoch[a] => t.guard.epoch <= epoch'[a]
  BY <1>1, GenerationsGrow DEF Grown, Guards
<1>3. PeerPast(t.guard) => PeerPast(t.guard)'
  BY <1>1, PeerMoves
<1>4. Stays(a, t.guard) => Stays(a, t.guard)'
  BY <1>1, StaysMoves
<1>5. GuardInv(a, t.guard) => GuardInv(a, t.guard)'
  BY <1>1, GuardMoves
<1>. QED
  BY <1>2, <1>3, <1>4, <1>5 DEF TurnInv

LEMMA InvitedMoves ==
  ASSUME Typed, InvitedInv, Moves
  PROVE  InvitedInv'
<1> USE DEF Becomes, Idle, LoopIdle, live, authority, past
<1>1. job.who \in Actors /\ Models \subseteq Actors
  BY DEF Typed, GuardTypeOK, Jobs, Actors
<1>2. calls \in [Actors -> Nat] /\ invitations \subseteq Models
  BY DEF Typed, GuardTypeOK, Counters
<1>3. CASE Accepts
  BY <1>1, <1>2, <1>3 DEF Accepts, InvitedInv
<1>4. CASE job.at = "join" /\ Refused
  BY <1>1, <1>2, <1>4 DEF Refused, InvitedInv
<1>5. ASSUME NEW b \in Actors, Entering(b)
      PROVE  InvitedInv'
  BY <1>1, <1>2, <1>5 DEF Entering, Enter, InvitedInv
<1>6. CASE JoinChannel
  BY <1>1, <1>2, <1>6 DEF JoinChannel, InvitedInv
<1>7. CASE BumpJoined
  BY <1>1, <1>2, <1>7 DEF BumpJoined, Bumped, InvitedInv
<1>8. CASE CommitDeparture
  BY <1>1, <1>2, <1>8 DEF CommitDeparture, Depart, InvitedInv
<1>9. CASE BumpDeparted
  BY <1>1, <1>2, <1>9 DEF BumpDeparted, Bumped, InvitedInv
<1>10. CASE InstallDeparted
  BY <1>1, <1>2, <1>10 DEF InstallDeparted, Without, InvitedInv
<1>11. ASSUME NEW b \in Actors, QuitActor(b)
       PROVE  InvitedInv'
  BY <1>1, <1>2, <1>11 DEF QuitActor, Without, InvitedInv
<1>12. CASE SealQuit
  BY <1>1, <1>2, <1>12 DEF SealQuit, InvitedInv
<1>13. CASE LeaveChannels
  BY <1>1, <1>2, <1>13 DEF LeaveChannels, InvitedInv
<1>14. CASE Reactivate
  BY <1>1, <1>2, <1>14 DEF Reactivate, InvitedInv
<1>15. ASSUME NEW by \in Actors, NEW b \in Actors, InviteActor(by, b)
       PROVE  InvitedInv'
  BY <1>1, <1>2, <1>15 DEF InviteActor, InvitedInv
<1>16. ASSUME NEW m \in Models, Adding(m)
       PROVE  InvitedInv'
  BY <1>1, <1>2, <1>16 DEF Adding, InvitedInv
<1>17. ASSUME NEW m \in Models, Discard(m)
       PROVE  InvitedInv'
  BY <1>1, <1>2, <1>17 DEF Discard, InvitedInv
<1>18. ASSUME NEW m \in Models, DiscardOnLoop(m)
       PROVE  InvitedInv'
  BY <1>1, <1>2, <1>18 DEF DiscardOnLoop, Bumped, InvitedInv
<1>19. CASE DiscardLeave
  BY <1>1, <1>2, <1>19 DEF DiscardLeave, InvitedInv
<1>20. CASE DiscardInstall
  BY <1>1, <1>2, <1>20 DEF DiscardInstall, Without, InvitedInv
<1>21. CASE DiscardDelete
  BY <1>1, <1>2, <1>21 DEF DiscardDelete, InvitedInv
<1>. QED
  BY <1>3, <1>4, <1>5, <1>6, <1>7, <1>8, <1>9, <1>10, <1>11, <1>12, <1>13, <1>14, <1>15, <1>16,
     <1>17, <1>18, <1>19, <1>20, <1>21, MoveCases

\* What a guard says of the rest of the state stands while nothing of it moves.
LEMMA QuietGuards ==
  ASSUME NEW m, Quiet(m)
  PROVE  /\ \A a, g : (GuardInv(a, g) => GuardInv(a, g)') /\ (Stays(a, g) => Stays(a, g)')
         /\ \A g : PeerPast(g) => PeerPast(g)'
         /\ \A a, t : TurnInv(a, t) => TurnInv(a, t)'
         /\ JobInv => JobInv'
         /\ InvitedInv => InvitedInv'
BY QuietKeeps DEF GuardInv, SameStay, Stays, Called, PeerPast, Alive, Doing, TurnInv, JobInv, InvitedInv

\* A guard is granted only when it speaks for the present.
LEMMA CaptureGuards ==
  ASSUME GInv, NEW m \in Models, CaptureGuard(m)
  PROVE  TurnInv(m, turns'[m]) /\ GuardInv(m, journal'[m].guard)
<1> DEFINE g == turns[m].guard
<1> USE DEF Held, At
<1>1. /\ m \in Actors /\ turns \in [Actors -> GuardedTurns] /\ g \in Guards
      /\ journal \in [Actors -> [guard : Guards, begun : BOOLEAN]]
  BY DEF GInv, Typed, GuardTypeOK, GuardedTurns, Actors
<1>2. /\ TurnInv(m, turns[m]) /\ GuardInv(m, journal[m].guard)
  BY <1>1 DEF GInv, GuardsInv
<1>3. \A a \in Actors : epoch[a] \in Nat /\ turnGen[a] \in Nat /\ connGen[a] \in Nat
        /\ inviteGen[a] \in Nat /\ stints[a] \in Nat /\ calls[a] \in Nat
  BY DEF GInv, Typed, GuardTypeOK, Counters
<1>4. chanGen \in Nat
  BY DEF GInv, Typed, GuardTypeOK
<1>5. NoGuard \in Guards /\ NoGuard.kind = "none" /\ NoGuard.peer = NoActor /\ NoGuard.conn = 0
  BY DEF NoGuard, Guards
<1>6. ASSUME NEW h, NEW at, Capturing(m, at, h), TurnInv(m, [at |-> at, guard |-> h]),
             UNCHANGED journal
      PROVE  TurnInv(m, turns'[m]) /\ GuardInv(m, journal'[m].guard)
  BY <1>1, <1>2, <1>6 DEF Capturing
<1>7. ASSUME Refuse(m)
      PROVE  TurnInv(m, turns'[m]) /\ GuardInv(m, journal'[m].guard)
  <2>1. turns'[m] = Ended /\ Ended.at = "idle" /\ Ended.guard = NoGuard /\ journal' = journal
    BY <1>1, <1>7 DEF Refuse, Ended
  <2>2. TurnInv(m, Ended)
    BY <1>1, <1>3, <1>5, <2>1 DEF TurnInv
  <2>. QED BY <1>2, <2>1, <2>2
<1>8. ASSUME NEW h, Grant(m, h), GuardInv(m, h), h.conn <= connGen[m]
      PROVE  TurnInv(m, turns'[m]) /\ GuardInv(m, journal'[m].guard)
  <2>1. turns'[m] = [at |-> "held", guard |-> h]
    BY <1>1, <1>8 DEF Grant, Capturing
  <2>2. journal'[m].guard \in {h, journal[m].guard}
    BY <1>1, <1>8 DEF Grant
  <2>3. TurnInv(m, [at |-> "held", guard |-> h])
    BY <1>8 DEF TurnInv
  <2>. QED BY <1>2, <1>8, <2>1, <2>2, <2>3
<1>9. CASE StartChannel(m)
  <2> DEFINE h == [NoGuard EXCEPT !.kind = "channel", !.conn = connGen[m]]
  <2>1. h.kind = "channel" /\ h.peer = NoActor /\ h.conn = connGen[m]
    BY <1>5 DEF Guards
  <2>2. h.conn <= connGen[m]
    BY <1>1, <1>3, <2>1
  <2>3. TurnInv(m, [at |-> "load", guard |-> h])
    BY <2>1, <2>2 DEF TurnInv
  <2>. QED BY <2>3, <1>6, <1>9 DEF StartChannel, CaptureOnly
<1>10. ASSUME NEW p \in Actors, StartDirect(m, p)
       PROVE  TurnInv(m, turns'[m]) /\ GuardInv(m, journal'[m].guard)
  <2> DEFINE h == [NoGuard EXCEPT !.kind = "dm", !.conn = connGen[m], !.peer = p]
  <2>1. h.kind = "dm" /\ h.peer = p /\ h.conn = connGen[m]
    BY <1>5 DEF Guards
  <2>2. h.conn <= connGen[m]
    BY <1>1, <1>3, <2>1
  <2>3. TurnInv(m, [at |-> "peerConn", guard |-> h])
    BY <2>1, <2>2 DEF TurnInv
  <2>. QED BY <2>3, <1>6, <1>10 DEF StartDirect, CaptureOnly
<1>11. CASE Load(m)
  <2>1. TurnInv(m, [at |-> "epoch", guard |-> g])
    BY <1>2, <1>11 DEF Load, TurnInv
  <2>. QED BY <2>1, <1>6, <1>7, <1>11 DEF Load, CaptureOnly
<1>12. CASE ReadEpoch(m)
  <2> DEFINE h == [g EXCEPT !.epoch = epoch[m]]
  <2>1. h.kind = g.kind /\ h.peer = g.peer /\ h.conn = g.conn /\ h.epoch = epoch[m]
    BY <1>1 DEF Guards
  <2>2. h.epoch <= epoch[m]
    BY <1>1, <1>3, <2>1
  <2>3. TurnInv(m, [at |-> "turnGen", guard |-> h])
    BY <1>2, <1>12, <2>1, <2>2 DEF ReadEpoch, TurnInv
  <2>. QED BY <2>3, <1>6, <1>12 DEF ReadEpoch, CaptureOnly
<1>13. CASE ReadTurnGeneration(m)
  <2> DEFINE h == [g EXCEPT !.turn = turnGen[m]]
  <2>1. h.kind = g.kind /\ h.peer = g.peer /\ h.conn = g.conn /\ h.epoch = g.epoch
    BY <1>1 DEF Guards
  <2>2. TurnInv(m, [at |-> "reload", guard |-> h])
    BY <1>2, <1>13, <2>1 DEF ReadTurnGeneration, TurnInv
  <2>. QED BY <2>2, <1>6, <1>13 DEF ReadTurnGeneration, CaptureOnly
<1>14. CASE Reload(m)
  <2>1. ASSUME ConnectionValid(m, g.conn) /\ OnChannel(m)
        PROVE  TurnInv(m, [at |-> "recheck", guard |-> g])
    <3>1. m \in members /\ ~Doing(m, {"departInstall"})
      BY <2>1 DEF OnChannel, Doing, GInv, JobInv
    <3>2. g.conn <= connGen[m] /\ g.epoch <= epoch[m]
      BY <1>2, <1>14 DEF Reload, TurnInv
    <3>3. Stays(m, g)
      BY <3>1, <3>2 DEF Stays
    <3>. QED BY <1>2, <1>14, <3>3 DEF Reload, TurnInv
  <2>. QED BY <2>1, <1>6, <1>7, <1>14 DEF Reload, CaptureOnly
<1>15. CASE Recheck(m)
  <2> DEFINE h == [g EXCEPT !.stint = stints[m]]
  <2>1. /\ h.kind = g.kind /\ h.peer = g.peer /\ h.conn = g.conn /\ h.epoch = g.epoch
        /\ h.stint = stints[m]
    BY <1>1 DEF Guards
  <2>2. g.kind = "channel" /\ g.peer = NoActor /\ Stays(m, g)
    BY <1>2, <1>15 DEF Recheck, TurnInv
  <2>3. Stays(m, h) /\ SameStay(m, h)
    BY <1>1, <1>3, <2>1, <2>2 DEF Stays, Alive, SameStay
  <2>4. GuardInv(m, h) /\ h.conn <= connGen[m]
    BY <2>1, <2>2, <2>3 DEF GuardInv, Stays
  <2>. QED BY <2>4, <1>7, <1>8, <1>15 DEF Recheck
<1>16. CASE ReadPeerConnection(m)
  <2> DEFINE h == [g EXCEPT !.peerConn = connGen[g.peer]]
  <2>1. /\ h.kind = g.kind /\ h.peer = g.peer /\ h.conn = g.conn
        /\ h.peerConn = connGen[g.peer]
    BY <1>1 DEF Guards
  <2>2. g.peer \in Actors
    BY <1>2, <1>16 DEF ReadPeerConnection, TurnInv
  <2>3. PeerPast(h)
    BY <1>3, <2>1, <2>2 DEF PeerPast
  <2>4. TurnInv(m, [at |-> "ownTurn", guard |-> h])
    BY <1>2, <1>16, <2>1, <2>2, <2>3 DEF ReadPeerConnection, TurnInv
  <2>. QED BY <2>4, <1>6, <1>16 DEF ReadPeerConnection, CaptureOnly
<1>17. CASE ReadOwnTurn(m)
  <2> DEFINE h == [g EXCEPT !.turn = turnGen[m]]
  <2>1. h.kind = g.kind /\ h.peer = g.peer /\ h.conn = g.conn /\ h.peerConn = g.peerConn
    BY <1>1 DEF Guards
  <2>2. TurnInv(m, [at |-> "peerTurn", guard |-> h])
    BY <1>2, <1>17, <2>1 DEF ReadOwnTurn, TurnInv, PeerPast
  <2>. QED BY <2>2, <1>6, <1>17 DEF ReadOwnTurn, CaptureOnly
<1>18. CASE ReadPeerTurn(m)
  <2> DEFINE h == [g EXCEPT !.peerTurn = turnGen[g.peer]]
  <2>1. h.kind = g.kind /\ h.peer = g.peer /\ h.conn = g.conn /\ h.peerConn = g.peerConn
    BY <1>1 DEF Guards
  <2>2. TurnInv(m, [at |-> "peerCheck", guard |-> h])
    BY <1>2, <1>18, <2>1 DEF ReadPeerTurn, TurnInv, PeerPast
  <2>. QED BY <2>2, <1>6, <1>18 DEF ReadPeerTurn, CaptureOnly
<1>19. CASE CheckPeer(m)
  <2>1. GuardInv(m, g) /\ g.conn <= connGen[m]
    BY <1>2, <1>19 DEF CheckPeer, TurnInv, GuardInv
  <2>. QED BY <2>1, <1>7, <1>8, <1>19 DEF CheckPeer
<1>20. CASE StartInvitation(m)
  <2> DEFINE h == [NoGuard EXCEPT !.kind = "invitation", !.conn = connGen[m]]
  <2>1. h.kind = "invitation" /\ h.peer = NoActor /\ h.conn = connGen[m]
    BY <1>5 DEF Guards
  <2>2. h.conn <= connGen[m]
    BY <1>1, <1>3, <2>1
  <2>3. TurnInv(m, [at |-> "invitation", guard |-> h])
    BY <2>1, <2>2 DEF TurnInv
  <2>. QED BY <2>3, <1>6, <1>20 DEF StartInvitation, CaptureOnly
<1>21. CASE CaptureInvitation(m)
  <2> DEFINE h == [g EXCEPT !.chan = chanGen, !.inv = inviteGen[m], !.turn = turnGen[m],
                            !.epoch = epoch[m], !.call = calls[m]]
  <2>1. /\ h.kind = g.kind /\ h.peer = g.peer /\ h.conn = g.conn /\ h.chan = chanGen
        /\ h.inv = inviteGen[m] /\ h.epoch = epoch[m] /\ h.call = calls[m]
    BY <1>1 DEF Guards
  <2>2. g.kind = "invitation" /\ g.peer = NoActor /\ g.conn <= connGen[m]
    BY <1>2, <1>21 DEF CaptureInvitation, TurnInv
  <2>3. ASSUME m \in invitations
        PROVE  GuardInv(m, h)
    <3>1. calls[m] > 0
      BY <2>3 DEF GInv, InvitedInv
    <3>2. Called(m, h)
      BY <1>1, <1>3, <1>4, <2>1, <2>2, <2>3 DEF Called
    <3>. QED BY <2>1, <2>2, <3>1, <3>2 DEF GuardInv
  <2>. QED BY <2>1, <2>2, <2>3, <1>7, <1>8, <1>21 DEF CaptureInvitation
<1>22. CASE EndTurn(m)
  BY <1>7, <1>22 DEF EndTurn
<1>. QED
  BY <1>9, <1>10, <1>11, <1>12, <1>13, <1>14, <1>15, <1>16, <1>17, <1>18, <1>19, <1>20, <1>21,
     <1>22 DEF CaptureGuard

LEMMA QuietGInv ==
  ASSUME GInv, NEW m \in Models, Quiet(m), UNCHANGED kinds
  PROVE  GInv'
<1>1. Typed'
  BY QuietTypes DEF GInv
<1>2. JobInv' /\ InvitedInv'
  BY QuietGuards DEF GInv
<1>3. /\ m \in Actors /\ turns \in [Actors -> GuardedTurns]
      /\ journal \in [Actors -> [guard : Guards, begun : BOOLEAN]]
  BY DEF GInv, Typed, GuardTypeOK, Actors
<1>4. /\ turns' \in [Actors -> GuardedTurns]
      /\ journal' \in [Actors -> [guard : Guards, begun : BOOLEAN]]
  BY <1>1 DEF Typed, GuardTypeOK
<1>5. GuardInv(m, NoGuard)
  BY DEF NoGuard, GuardInv
<1>6. TurnInv(m, turns'[m]) /\ GuardInv(m, journal'[m].guard)
  <2>1. CASE CaptureGuard(m)
    BY <2>1, CaptureGuards
  <2>2. CASE BeginModelTurn(m) \/ FinishJournal(m)
    <3>1. turns' = turns
      BY <2>2 DEF BeginModelTurn, FinishJournal
    <3>2. journal'[m].guard \in {journal[m].guard, NoGuard}
      BY <1>3, <2>2 DEF BeginModelTurn, FinishJournal, NoJournal
    <3>. QED BY <1>3, <1>5, <3>1, <3>2 DEF GInv, GuardsInv
  <2>. QED BY <2>1, <2>2 DEF Quiet
<1>7. ASSUME NEW a \in Actors, a # m
      PROVE  turns'[a] = turns[a] /\ journal'[a] = journal[a]
  <2>1. CASE CaptureGuard(m)
    BY <1>3, <1>7, <2>1
    DEF CaptureGuard, StartChannel, Load, ReadEpoch, ReadTurnGeneration, Reload, Recheck, StartDirect,
        ReadPeerConnection, ReadOwnTurn, ReadPeerTurn, CheckPeer, StartInvitation,
        CaptureInvitation, EndTurn, CaptureOnly, Capturing, Grant, Refuse
  <2>2. CASE BeginModelTurn(m) \/ FinishJournal(m)
    BY <1>3, <1>7, <2>2 DEF BeginModelTurn, FinishJournal
  <2>. QED BY <2>1, <2>2 DEF Quiet
<1>8. ASSUME NEW a \in Actors
      PROVE  TurnInv(a, turns'[a]) /\ GuardInv(a, journal'[a].guard)
  BY <1>6, <1>7 DEF GInv, GuardsInv
<1>9. ASSUME NEW a \in Actors
      PROVE  TurnInv(a, turns[a])' /\ GuardInv(a, journal[a].guard)'
  <2>1. PICK t : t = turns'[a]
    OBVIOUS
  <2>2. PICK g : g = journal'[a].guard
    OBVIOUS
  <2>3. TurnInv(a, t) /\ GuardInv(a, g)
    BY <1>8, <2>1, <2>2
  <2>4. TurnInv(a, t)' /\ GuardInv(a, g)'
    BY <2>3, QuietGuards
  <2>. QED BY <2>1, <2>2, <2>4
<1>. QED BY <1>1, <1>2, <1>9 DEF GInv, GuardsInv

LEMMA MovesGInv ==
  ASSUME GInv, Moves, UNCHANGED kinds
  PROVE  GInv'
<1>1. Typed' /\ JobInv' /\ InvitedInv'
  BY MovesTypes, JobMoves, InvitedMoves DEF GInv
<1>2. turns' = turns /\ journal' = journal
  BY MovesKeep
<1>3. ASSUME NEW a \in Actors
      PROVE  TurnInv(a, turns[a])' /\ GuardInv(a, journal[a].guard)'
  <2>1. PICK t \in GuardedTurns : t = turns[a]
    BY DEF GInv, Typed, GuardTypeOK
  <2>2. PICK g \in Guards : g = journal[a].guard
    BY DEF GInv, Typed, GuardTypeOK
  <2>3. TurnInv(a, t) /\ GuardInv(a, g)
    BY <2>1, <2>2 DEF GInv, GuardsInv
  <2>4. TurnInv(a, t)' /\ GuardInv(a, g)'
    BY <2>3, TurnMoves, GuardMoves DEF GInv
  <2>5. t = turns'[a] /\ g = journal'[a].guard
    BY <1>2, <2>1, <2>2
  <2>. QED BY <2>4, <2>5
<1>. QED BY <1>1, <1>3 DEF GInv, GuardsInv

LEMMA InitGInv == GuardInit => GInv
<1> SUFFICES ASSUME GuardInit
             PROVE  GInv
  OBVIOUS
<1>1. Typed
  BY InitTypes
<1>2. JobInv /\ InvitedInv
  BY DEF GuardInit, Idle, JobInv, InvitedInv
<1>3. ASSUME NEW a \in Actors
      PROVE  TurnInv(a, turns[a]) /\ GuardInv(a, journal[a].guard)
  <2>1. turns[a] = Ended /\ journal[a] = NoJournal /\ connGen[a] = 0
    BY <1>3 DEF GuardInit
  <2>. QED BY <2>1 DEF TurnInv, GuardInv, Ended, NoJournal, NoGuard
<1>. QED BY <1>1, <1>2, <1>3 DEF GInv, GuardsInv

LEMMA NextGInv ==
  ASSUME GInv, [GuardNext]_guardVars
  PROVE  GInv'
<1>1. CASE GuardNext
  <2>1. UNCHANGED kinds
    BY <1>1 DEF GuardNext
  <2>. QED BY <1>1, <2>1, NextCases, QuietGInv, MovesGInv
<1>2. CASE UNCHANGED guardVars
  BY <1>2
  DEF guardVars, live, authority, past, GInv, Typed, GuardTypeOK, PeerNamed, JobInv, InvitedInv, GuardsInv,
      TurnInv, GuardInv, SameStay, Stays, Called, PeerPast, Alive, Doing
<1>. QED BY <1>1, <1>2

LEMMA ValidGuardCurrent ==
  ASSUME GInv, NEW a \in Actors, NEW g \in Guards, GuardInv(a, g), Unlocked(a), Valid(a, g)
  PROVE  Current(a, g)
<1>1. ~Doing(a, {"joinSet", "joinBump"})
  BY DEF GInv, JobInv, Doing, Unlocked
<1>2. ConnectionValid(a, g.conn)
  BY DEF Valid
<1>3. Alive(a, g)
  BY <1>2 DEF ConnectionValid, Active, Alive
<1>4. CASE g.kind = "channel"
  <2>1. SameEpoch(a, g) /\ OnChannel(a)
    BY <1>4 DEF Valid
  <2>2. a \in members /\ g.stint = stints[a]
    BY <1>1, <1>4, <2>1 DEF SameEpoch, OnChannel, GuardInv, SameStay
  <2>. QED BY <1>4, <2>2 DEF Current
<1>5. CASE g.kind = "invitation"
  <2>1. Pending(a, g) \/ EnteredBy(a, g)
    BY <1>5 DEF Valid
  <2>2. CASE Pending(a, g)
    BY <1>5, <2>2 DEF Pending, GuardInv, Called, Current
  <2>3. CASE EnteredBy(a, g)
    <3>1. /\ chanGen = g.chan /\ inviteGen[a] = g.inv + 1 /\ epoch[a] = g.epoch + 1
          /\ a \in members
      BY <2>3 DEF EnteredBy, EpochOfEntry, OnChannel
    <3>2. g.call = entered[a]
      BY <1>3, <1>5, <3>1 DEF GuardInv, Called
    <3>. QED BY <1>5, <3>1, <3>2 DEF Current
  <2>. QED BY <2>1, <2>2, <2>3
<1>6. CASE g.kind \notin {"channel", "invitation"}
  BY <1>6 DEF Current
<1>. QED BY <1>4, <1>5, <1>6

(* A guard that still checks out was captured in the membership that stands, or
   on the invitation that stands or that began it: the generations a guard
   carries are enough to tell memberships and invitations apart, whatever the
   order in which the loop changes them and a capture reads them
   (windowGuard.validLocked, invitationGuardStateLocked). *)
THEOREM GuardsCurrent == GuardSpec => []ValidMeansCurrent
<1>1. GInv => ValidMeansCurrent
  <2> SUFFICES ASSUME GInv, NEW a \in Actors, Unlocked(a)
               PROVE  /\ At(a, "held") /\ Valid(a, Held(a)) => Current(a, Held(a))
                      /\ Valid(a, journal[a].guard) => Current(a, journal[a].guard)
    BY DEF ValidMeansCurrent
  <2>1. turns[a].guard \in Guards /\ journal[a].guard \in Guards
    BY DEF GInv, Typed, GuardTypeOK, GuardedTurns
  <2>2. GuardInv(a, journal[a].guard) /\ (At(a, "held") => GuardInv(a, Held(a)))
    BY DEF GInv, GuardsInv, TurnInv, At, Held
  <2>. QED BY <2>1, <2>2, ValidGuardCurrent DEF Held
<1>. QED BY <1>1, InitGInv, NextGInv, PTL DEF GuardSpec
---------------------------------------------------------------------------
(* The store's rows *)

\* The loop only deletes rows; the journal adds them.
LEMMA RowsShrink ==
  ASSUME Typed, Moves
  PROVE  rows' \subseteq rows
<1> USE DEF live, authority, past
<1>3. CASE Accepts
  BY <1>3 DEF Accepts
<1>4. CASE job.at = "join" /\ Refused
  BY <1>4 DEF Refused
<1>5. ASSUME NEW b \in Actors, Entering(b)
      PROVE  rows' \subseteq rows
  BY <1>5 DEF Entering, Enter, Reset
<1>6. CASE JoinChannel
  BY <1>6 DEF JoinChannel
<1>7. CASE BumpJoined
  BY <1>7 DEF BumpJoined, Bumped
<1>8. CASE CommitDeparture
  BY <1>8 DEF CommitDeparture, Depart
<1>9. CASE BumpDeparted
  BY <1>9 DEF BumpDeparted, Bumped
<1>10. CASE InstallDeparted
  BY <1>10 DEF InstallDeparted, Without
<1>11. ASSUME NEW b \in Actors, QuitActor(b)
       PROVE  rows' \subseteq rows
  BY <1>11 DEF QuitActor, Without
<1>12. CASE SealQuit
  BY <1>12 DEF SealQuit
<1>13. CASE LeaveChannels
  BY <1>13 DEF LeaveChannels
<1>14. CASE Reactivate
  BY <1>14 DEF Reactivate
<1>15. ASSUME NEW by \in Actors, NEW b \in Actors, InviteActor(by, b)
       PROVE  rows' \subseteq rows
  BY <1>15 DEF InviteActor
<1>16. ASSUME NEW m \in Models, Adding(m)
       PROVE  rows' \subseteq rows
  BY <1>16 DEF Adding
<1>17. ASSUME NEW m \in Models, Discard(m)
       PROVE  rows' \subseteq rows
  BY <1>17 DEF Discard
<1>18. ASSUME NEW m \in Models, DiscardOnLoop(m)
       PROVE  rows' \subseteq rows
  BY <1>18 DEF DiscardOnLoop, Bumped
<1>19. CASE DiscardLeave
  BY <1>19 DEF DiscardLeave
<1>20. CASE DiscardInstall
  BY <1>20 DEF DiscardInstall, Without
<1>21. CASE DiscardDelete
  BY <1>21 DEF DiscardDelete
<1>. QED
  BY <1>3, <1>4, <1>5, <1>6, <1>7, <1>8, <1>9, <1>10, <1>11, <1>12, <1>13, <1>14, <1>15, <1>16,
     <1>17, <1>18, <1>19, <1>20, <1>21, MoveCases

\* A row of a direct conversation is of the peer's connection, and goes before it.
DirectRow(r) ==
  r.peer # NoActor =>
    /\ \/ Active(r.peer) /\ r.peerConn = connGen[r.peer]
       \/ phase[r.peer] = "discarding"
    /\ ~Doing(r.peer, {"quitSeal"})

DirectInv == \A r \in rows : DirectRow(r)

LEMMA DirectMoves ==
  ASSUME Typed, JobInv, Moves, NEW r \in Rows, r \in rows', DirectRow(r)
  PROVE  DirectRow(r)'
<1> USE DEF Becomes, Idle, LoopIdle, live, authority, past
<1>1. job.who \in Actors /\ Models \subseteq Actors /\ r.peer \in Actors \cup {NoActor}
  BY DEF Typed, GuardTypeOK, Jobs, Actors, Rows
<1>2. /\ connGen \in [Actors -> Nat]
      /\ phase \in [Actors -> {"absent", "adding", "failed", "up", "discarding", "gone"}]
  BY DEF Typed, GuardTypeOK, Counters
<1>3. CASE Accepts
  BY <1>1, <1>2, <1>3 DEF Accepts, DirectRow, Active, Doing, JobInv, RowsWith
<1>4. CASE job.at = "join" /\ Refused
  BY <1>1, <1>2, <1>4 DEF Refused, DirectRow, Active, Doing, JobInv, RowsWith
<1>5. ASSUME NEW b \in Actors, Entering(b)
      PROVE  DirectRow(r)'
  BY <1>1, <1>2, <1>5 DEF Entering, Enter, DirectRow, Active, Doing, JobInv, RowsWith
<1>6. CASE JoinChannel
  BY <1>1, <1>2, <1>6 DEF JoinChannel, DirectRow, Active, Doing, JobInv, RowsWith
<1>7. CASE BumpJoined
  BY <1>1, <1>2, <1>7 DEF BumpJoined, Bumped, DirectRow, Active, Doing, JobInv, RowsWith
<1>8. CASE CommitDeparture
  BY <1>1, <1>2, <1>8 DEF CommitDeparture, Depart, DirectRow, Active, Doing, JobInv, RowsWith
<1>9. CASE BumpDeparted
  BY <1>1, <1>2, <1>9 DEF BumpDeparted, Bumped, DirectRow, Active, Doing, JobInv, RowsWith
<1>10. CASE InstallDeparted
  BY <1>1, <1>2, <1>10 DEF InstallDeparted, Without, DirectRow, Active, Doing, JobInv, RowsWith
<1>11. ASSUME NEW b \in Actors, QuitActor(b)
       PROVE  DirectRow(r)'
  BY <1>1, <1>2, <1>11 DEF QuitActor, Without, DirectRow, Active, Doing, JobInv, RowsWith
<1>12. CASE SealQuit
  BY <1>1, <1>2, <1>12 DEF SealQuit, DirectRow, Active, Doing, JobInv, RowsWith
<1>13. CASE LeaveChannels
  BY <1>1, <1>2, <1>13 DEF LeaveChannels, DirectRow, Active, Doing, JobInv, RowsWith
<1>14. CASE Reactivate
  BY <1>1, <1>2, <1>14 DEF Reactivate, DirectRow, Active, Doing, JobInv, RowsWith
<1>15. ASSUME NEW by \in Actors, NEW b \in Actors, InviteActor(by, b)
       PROVE  DirectRow(r)'
  BY <1>1, <1>2, <1>15 DEF InviteActor, DirectRow, Active, Doing, JobInv, RowsWith
<1>16. ASSUME NEW m \in Models, Adding(m)
       PROVE  DirectRow(r)'
  BY <1>1, <1>2, <1>16 DEF Adding, DirectRow, Active, Doing, JobInv, RowsWith
<1>17. ASSUME NEW m \in Models, Discard(m)
       PROVE  DirectRow(r)'
  BY <1>1, <1>2, <1>17 DEF Discard, DirectRow, Active, Doing, JobInv, RowsWith
<1>18. ASSUME NEW m \in Models, DiscardOnLoop(m)
       PROVE  DirectRow(r)'
  BY <1>1, <1>2, <1>18 DEF DiscardOnLoop, Bumped, DirectRow, Active, Doing, JobInv, RowsWith
<1>19. CASE DiscardLeave
  BY <1>1, <1>2, <1>19 DEF DiscardLeave, DirectRow, Active, Doing, JobInv, RowsWith
<1>20. CASE DiscardInstall
  BY <1>1, <1>2, <1>20 DEF DiscardInstall, Without, DirectRow, Active, Doing, JobInv, RowsWith
<1>21. CASE DiscardDelete
  BY <1>1, <1>2, <1>21 DEF DiscardDelete, DirectRow, Active, Doing, JobInv, RowsWith
<1>. QED
  BY <1>3, <1>4, <1>5, <1>6, <1>7, <1>8, <1>9, <1>10, <1>11, <1>12, <1>13, <1>14, <1>15, <1>16,
     <1>17, <1>18, <1>19, <1>20, <1>21, MoveCases

LEMMA RowAdded ==
  ASSUME GInv, NEW m \in Models, Quiet(m)
  PROVE  \/ rows' = rows
         \/ LET g == journal[m].guard IN
            /\ rows' = rows \cup {RowOf(m, g)} /\ TurnLocks(m, g) /\ MayBegin(m, g)
            /\ g.kind # "none" /\ ~journal[m].begun
            /\ journal' = [journal EXCEPT ![m].begun = TRUE]
<1>1. CASE CaptureGuard(m)
  BY <1>1 DEF CaptureGuard, StartChannel, Load, ReadEpoch, ReadTurnGeneration, Reload, Recheck,
       StartDirect, ReadPeerConnection, ReadOwnTurn, ReadPeerTurn, CheckPeer, StartInvitation,
       CaptureInvitation, EndTurn, CaptureOnly
<1>2. CASE BeginModelTurn(m)
  BY <1>2 DEF BeginModelTurn
<1>3. CASE FinishJournal(m)
  BY <1>3 DEF FinishJournal
<1>. QED BY <1>1, <1>2, <1>3 DEF Quiet

LEMMA DirectQuiet ==
  ASSUME GInv, DirectInv, NEW m \in Models, Quiet(m)
  PROVE  DirectInv'
<1> DEFINE g == journal[m].guard
<1>1. ASSUME NEW r, DirectRow(r)
      PROVE  DirectRow(r)'
  BY <1>1, QuietKeeps DEF DirectRow, Active, Doing
<1>2. m \in Actors /\ g \in Guards /\ GuardInv(m, g)
  BY DEF GInv, GuardsInv, Typed, GuardTypeOK, Actors
<1>3. ASSUME TurnLocks(m, g), MayBegin(m, g)
      PROVE  DirectRow(RowOf(m, g))
  <2>1. RowOf(m, g).peer = g.peer /\ RowOf(m, g).peerConn = g.peerConn
    BY DEF RowOf
  <2>2. g.kind \in {"channel", "dm", "invitation"}
    BY <1>2, <1>3 DEF MayBegin, Valid, Guards
  <2>3. CASE g.kind # "dm"
    BY <1>2, <2>1, <2>2, <2>3 DEF GuardInv, DirectRow
  <2>4. CASE g.kind = "dm"
    <3>1. ConnectionValid(g.peer, g.peerConn)
      BY <1>3, <2>4 DEF MayBegin, Valid, PeerConnected
    <3>2. ~Doing(g.peer, {"quitSeal"})
      BY <1>3, <2>4 DEF TurnLocks, Unlocked, Doing, GInv, JobInv
    <3>. QED BY <2>1, <3>1, <3>2 DEF DirectRow, ConnectionValid
  <2>. QED BY <2>3, <2>4
<1>4. CASE rows' = rows
  BY <1>1, <1>4 DEF DirectInv
<1>5. CASE rows' = rows \cup {RowOf(m, g)} /\ TurnLocks(m, g) /\ MayBegin(m, g)
  BY <1>1, <1>3, <1>5 DEF DirectInv
<1>. QED BY <1>4, <1>5, RowAdded

(* A direct conversation's turns end with its peer's connection. The journal
   checks the peer's connection under both clients' locks and inserts; the
   deletion holds neither, but whoever ends a connection deletes the rows first
   and keeps the peer locked in between (deleteDirectPeerContext,
   lockTurnClients). *)
THEOREM DirectRowsEnd == GuardSpec => []DirectRowsOfThisSession
<1>1. GuardInit => DirectInv
  BY DEF GuardInit, DirectInv
<1>2. GInv /\ DirectInv /\ [GuardNext]_guardVars => DirectInv'
  <2> SUFFICES ASSUME GInv, DirectInv, [GuardNext]_guardVars
               PROVE  DirectInv'
    OBVIOUS
  <2>1. ASSUME Moves
        PROVE  DirectInv'
    <3>1. rows' \subseteq rows /\ rows \subseteq Rows
      BY <2>1, RowsShrink DEF GInv, Typed, GuardTypeOK
    <3>. QED BY <2>1, <3>1, DirectMoves DEF GInv, DirectInv
  <2>2. CASE GuardNext
    BY <2>1, <2>2, NextCases, DirectQuiet
  <2>3. CASE UNCHANGED guardVars
    BY <2>3 DEF guardVars, live, authority, past, DirectInv, DirectRow, Active, Doing
  <2>. QED BY <2>2, <2>3
<1>3. DirectInv => DirectRowsOfThisSession
  BY DEF DirectInv, DirectRow, DirectRowsOfThisSession
<1>. QED BY <1>1, <1>2, <1>3, InitGInv, NextGInv, PTL DEF GuardSpec

\* The last member has left, and the channel's generation has not moved yet.
Emptied == job.at \in {"departBump", "departInstall"} /\ members = {job.who}

\* A turn recorded under a membership goes with it, or with the whole channel.
CleanRow(r) ==
  r.peer = NoActor /\ r.call = 0 =>
    /\ members # {} /\ ~Emptied
    /\ r.who \in members /\ entered[r.who] = 0 => r.stint = stints[r.who]

CleanInv == \A r \in rows : CleanRow(r)

LEMMA CleanMoves ==
  ASSUME Typed, JobInv, InvitedInv, Moves, NEW r \in Rows, r \in rows, r \in rows', CleanRow(r)
  PROVE  CleanRow(r)'
<1> USE DEF Becomes, Idle, LoopIdle, live, authority, past
<1>1. job.who \in Actors /\ Models \subseteq Actors /\ r.who \in Actors
  BY DEF Typed, GuardTypeOK, Jobs, Actors, Rows
<1>2. /\ entered \in [Actors -> Nat] /\ calls \in [Actors -> Nat] /\ stints \in [Actors -> Nat]
      /\ members \subseteq Actors
  BY DEF Typed, GuardTypeOK, Counters
<1>3. CASE Accepts
  BY <1>1, <1>2, <1>3 DEF Accepts, CleanRow, Emptied, JobInv, RowsWith, ChannelRows, InvitedInv
<1>4. CASE job.at = "join" /\ Refused
  BY <1>1, <1>2, <1>4 DEF Refused, CleanRow, Emptied, JobInv, RowsWith, ChannelRows, InvitedInv
<1>5. ASSUME NEW b \in Actors, Entering(b)
      PROVE  CleanRow(r)'
  BY <1>1, <1>2, <1>5 DEF Entering, Enter, Reset, CleanRow, Emptied, JobInv, RowsWith, ChannelRows, InvitedInv
<1>6. CASE JoinChannel
  BY <1>1, <1>2, <1>6 DEF JoinChannel, CleanRow, Emptied, JobInv, RowsWith, ChannelRows, InvitedInv
<1>7. CASE BumpJoined
  BY <1>1, <1>2, <1>7 DEF BumpJoined, Bumped, CleanRow, Emptied, JobInv, RowsWith, ChannelRows, InvitedInv
<1>8. CASE CommitDeparture
  BY <1>1, <1>2, <1>8 DEF CommitDeparture, Depart, CleanRow, Emptied, JobInv, RowsWith, ChannelRows, InvitedInv
<1>9. CASE BumpDeparted
  BY <1>1, <1>2, <1>9 DEF BumpDeparted, Bumped, CleanRow, Emptied, JobInv, RowsWith, ChannelRows, InvitedInv
<1>10. CASE InstallDeparted
  BY <1>1, <1>2, <1>10 DEF InstallDeparted, Without, CleanRow, Emptied, JobInv, RowsWith, ChannelRows, InvitedInv
<1>11. ASSUME NEW b \in Actors, QuitActor(b)
       PROVE  CleanRow(r)'
  BY <1>1, <1>2, <1>11 DEF QuitActor, Without, CleanRow, Emptied, JobInv, RowsWith, ChannelRows, InvitedInv
<1>12. CASE SealQuit
  BY <1>1, <1>2, <1>12 DEF SealQuit, CleanRow, Emptied, JobInv, RowsWith, ChannelRows, InvitedInv
<1>13. CASE LeaveChannels
  BY <1>1, <1>2, <1>13 DEF LeaveChannels, CleanRow, Emptied, JobInv, RowsWith, ChannelRows, InvitedInv
<1>14. CASE Reactivate
  BY <1>1, <1>2, <1>14 DEF Reactivate, CleanRow, Emptied, JobInv, RowsWith, ChannelRows, InvitedInv
<1>15. ASSUME NEW by \in Actors, NEW b \in Actors, InviteActor(by, b)
       PROVE  CleanRow(r)'
  BY <1>1, <1>2, <1>15 DEF InviteActor, CleanRow, Emptied, JobInv, RowsWith, ChannelRows, InvitedInv
<1>16. ASSUME NEW m \in Models, Adding(m)
       PROVE  CleanRow(r)'
  BY <1>1, <1>2, <1>16 DEF Adding, CleanRow, Emptied, JobInv, RowsWith, ChannelRows, InvitedInv
<1>17. ASSUME NEW m \in Models, Discard(m)
       PROVE  CleanRow(r)'
  BY <1>1, <1>2, <1>17 DEF Discard, CleanRow, Emptied, JobInv, RowsWith, ChannelRows, InvitedInv
<1>18. ASSUME NEW m \in Models, DiscardOnLoop(m)
       PROVE  CleanRow(r)'
  BY <1>1, <1>2, <1>18 DEF DiscardOnLoop, Bumped, CleanRow, Emptied, JobInv, RowsWith, ChannelRows, InvitedInv
<1>19. CASE DiscardLeave
  BY <1>1, <1>2, <1>19 DEF DiscardLeave, CleanRow, Emptied, JobInv, RowsWith, ChannelRows, InvitedInv
<1>20. CASE DiscardInstall
  BY <1>1, <1>2, <1>20 DEF DiscardInstall, Without, CleanRow, Emptied, JobInv, RowsWith, ChannelRows, InvitedInv
<1>21. CASE DiscardDelete
  BY <1>1, <1>2, <1>21 DEF DiscardDelete, CleanRow, Emptied, JobInv, RowsWith, ChannelRows, InvitedInv
<1>. QED
  BY <1>3, <1>4, <1>5, <1>6, <1>7, <1>8, <1>9, <1>10, <1>11, <1>12, <1>13, <1>14, <1>15, <1>16,
     <1>17, <1>18, <1>19, <1>20, <1>21, MoveCases

LEMMA CleanQuiet ==
  ASSUME GInv, CleanInv, NEW m \in Models, Quiet(m)
  PROVE  CleanInv'
<1> DEFINE g == journal[m].guard
<1>1. ASSUME NEW r, CleanRow(r)
      PROVE  CleanRow(r)'
  BY <1>1, QuietKeeps DEF CleanRow, Emptied
<1>2. m \in Actors /\ g \in Guards /\ GuardInv(m, g)
  BY DEF GInv, GuardsInv, Typed, GuardTypeOK, Actors
<1>3. ASSUME TurnLocks(m, g), MayBegin(m, g)
      PROVE  CleanRow(RowOf(m, g))
  <2>1. /\ RowOf(m, g).who = m /\ RowOf(m, g).peer = g.peer
        /\ RowOf(m, g).stint = g.stint /\ RowOf(m, g).call = g.call
    BY DEF RowOf
  <2>2. Valid(m, g) /\ Current(m, g)
    BY <1>2, <1>3, ValidGuardCurrent DEF MayBegin, TurnLocks
  <2>3. CASE g.kind = "channel"
    <3>1. m \in members /\ inChan[m]
      BY <2>2, <2>3 DEF Valid, OnChannel
    <3>2. ~Emptied
      BY <3>1 DEF Emptied, GInv, JobInv
    <3>3. g.stint = stints[m]
      BY <2>2, <2>3 DEF Current
    <3>. QED BY <2>1, <3>1, <3>2, <3>3 DEF CleanRow
  <2>4. CASE g.kind = "dm"
    BY <1>2, <2>1, <2>4, GuardAssumption DEF GuardInv, PeerPast, CleanRow
  <2>5. CASE g.kind = "invitation"
    BY <1>2, <2>1, <2>5 DEF GuardInv, CleanRow, Guards
  <2>. QED BY <1>2, <2>2, <2>3, <2>4, <2>5 DEF Valid, Guards
<1>4. CASE rows' = rows
  BY <1>1, <1>4 DEF CleanInv
<1>5. CASE rows' = rows \cup {RowOf(m, g)} /\ TurnLocks(m, g) /\ MayBegin(m, g)
  BY <1>1, <1>3, <1>5 DEF CleanInv
<1>. QED BY <1>4, <1>5, RowAdded

(* A model that enters uninvited finds nothing of an earlier membership of its
   own, and no journal adds any later: a membership's turns are reset by the
   next JOIN or go with the channel, and a guard of it is not valid again
   (resetChannelJoinContext, beginModelTurn). *)
THEOREM EntersClean == GuardSpec => []CleanEntry
<1>1. GuardInit => CleanInv
  BY DEF GuardInit, CleanInv
<1>2. GInv /\ CleanInv /\ [GuardNext]_guardVars => CleanInv'
  <2> SUFFICES ASSUME GInv, CleanInv, [GuardNext]_guardVars
               PROVE  CleanInv'
    OBVIOUS
  <2>1. ASSUME Moves
        PROVE  CleanInv'
    <3>1. rows' \subseteq rows /\ rows \subseteq Rows
      BY <2>1, RowsShrink DEF GInv, Typed, GuardTypeOK
    <3>. QED BY <2>1, <3>1, CleanMoves DEF GInv, CleanInv
  <2>2. CASE GuardNext
    BY <2>1, <2>2, NextCases, CleanQuiet
  <2>3. CASE UNCHANGED guardVars
    BY <2>3 DEF guardVars, live, authority, past, CleanInv, CleanRow, Emptied
  <2>. QED BY <2>2, <2>3
<1>3. CleanInv => CleanEntry
  BY DEF CleanInv, CleanRow, CleanEntry, ChannelRows
<1>. QED BY <1>1, <1>2, <1>3, InitGInv, NextGInv, PTL DEF GuardSpec
---------------------------------------------------------------------------
(* A running turn keeps its row *)

PeerAlive(g) == g.peerConn = connGen[g.peer] /\ phase[g.peer] \notin {"discarding", "gone"}

\* A turn recorded under g is in the store, or g is not valid any more, or what
\* ends it is under way.
Kept(m, g) ==
  \/ RowOf(m, g) \in rows
  \/ ~Alive(m, g) \/ Doing(m, {"quitSeal"})
  \/ g.kind = "channel" /\ (g.epoch # epoch[m] \/ Doing(m, {"departBump"}))
  \/ g.kind = "dm" /\ (~PeerAlive(g) \/ Doing(g.peer, {"quitSeal"}))
  \/ /\ g.kind = "invitation"
     /\ \/ g.chan # chanGen \/ Emptied
        \/ inviteGen[m] > g.inv /\ epoch[m] > g.epoch + 1
        \/ inviteGen[m] > g.inv + 1

KeptInv ==
  \A m \in Models :
    journal[m].begun => journal[m].guard.kind # "none" /\ Kept(m, journal[m].guard)

LEMMA KeptMoves ==
  ASSUME Typed, JobInv, Moves, NEW m \in Models, NEW g \in Guards, GuardInv(m, g),
         g.kind # "none", Kept(m, g)
  PROVE  Kept(m, g)'
<1> USE DEF Becomes, Idle, LoopIdle, live, authority, past
<1>1. /\ job.who \in Actors /\ Models \subseteq Actors /\ User \in Actors /\ m \in Actors
      /\ m # User /\ NoActor \notin Actors
  BY GuardAssumption DEF Typed, GuardTypeOK, Jobs, Actors
<1>2. /\ epoch \in [Actors -> Nat] /\ connGen \in [Actors -> Nat] /\ inviteGen \in [Actors -> Nat]
      /\ chanGen \in Nat /\ members \subseteq Actors
      /\ phase \in [Actors -> {"absent", "adding", "failed", "up", "discarding", "gone"}]
      /\ g.epoch \in Nat /\ g.conn \in Nat /\ g.chan \in Nat /\ g.inv \in Nat /\ g.peerConn \in Nat
      /\ g.kind \in {"channel", "dm", "invitation"}
      /\ RowOf(m, g).who = m /\ RowOf(m, g).peer = g.peer
  BY DEF Typed, GuardTypeOK, Counters, Guards, RowOf
<1>3. CASE Accepts
  BY <1>1, <1>2, <1>3 DEF Accepts, Kept, Alive, PeerAlive, Doing, Emptied, JobInv, RowsWith, ChannelRows, GuardInv,
       Stays, Called, PeerPast
<1>4. CASE job.at = "join" /\ Refused
  BY <1>1, <1>2, <1>4 DEF Refused, Kept, Alive, PeerAlive, Doing, Emptied, JobInv, RowsWith, ChannelRows, GuardInv,
       Stays, Called, PeerPast
<1>5. ASSUME NEW b \in Actors, Entering(b)
      PROVE  Kept(m, g)'
  BY <1>1, <1>2, <1>5 DEF Entering, Enter, Reset, Kept, Alive, PeerAlive, Doing, Emptied, JobInv, RowsWith, ChannelRows, GuardInv,
       Stays, Called, PeerPast
<1>6. CASE JoinChannel
  BY <1>1, <1>2, <1>6 DEF JoinChannel, Kept, Alive, PeerAlive, Doing, Emptied, JobInv, RowsWith, ChannelRows, GuardInv,
       Stays, Called, PeerPast
<1>7. CASE BumpJoined
  BY <1>1, <1>2, <1>7 DEF BumpJoined, Bumped, Kept, Alive, PeerAlive, Doing, Emptied, JobInv, RowsWith, ChannelRows, GuardInv,
       Stays, Called, PeerPast
<1>8. CASE CommitDeparture
  BY <1>1, <1>2, <1>8 DEF CommitDeparture, Depart, Kept, Alive, PeerAlive, Doing, Emptied, JobInv, RowsWith, ChannelRows, GuardInv,
       Stays, Called, PeerPast
<1>9. CASE BumpDeparted
  BY <1>1, <1>2, <1>9 DEF BumpDeparted, Bumped, Kept, Alive, PeerAlive, Doing, Emptied, JobInv, RowsWith, ChannelRows, GuardInv,
       Stays, Called, PeerPast
<1>10. CASE InstallDeparted
  BY <1>1, <1>2, <1>10 DEF InstallDeparted, Without, Kept, Alive, PeerAlive, Doing, Emptied, JobInv, RowsWith, ChannelRows, GuardInv,
       Stays, Called, PeerPast
<1>11. ASSUME NEW b \in Actors, QuitActor(b)
       PROVE  Kept(m, g)'
  BY <1>1, <1>2, <1>11 DEF QuitActor, Without, Kept, Alive, PeerAlive, Doing, Emptied, JobInv, RowsWith, ChannelRows, GuardInv,
       Stays, Called, PeerPast
<1>12. CASE SealQuit
  BY <1>1, <1>2, <1>12 DEF SealQuit, Kept, Alive, PeerAlive, Doing, Emptied, JobInv, RowsWith, ChannelRows, GuardInv,
       Stays, Called, PeerPast
<1>13. CASE LeaveChannels
  BY <1>1, <1>2, <1>13 DEF LeaveChannels, Kept, Alive, PeerAlive, Doing, Emptied, JobInv, RowsWith, ChannelRows, GuardInv,
       Stays, Called, PeerPast
<1>14. CASE Reactivate
  BY <1>1, <1>2, <1>14 DEF Reactivate, Kept, Alive, PeerAlive, Doing, Emptied, JobInv, RowsWith, ChannelRows, GuardInv,
       Stays, Called, PeerPast
<1>15. ASSUME NEW by \in Actors, NEW b \in Actors, InviteActor(by, b)
       PROVE  Kept(m, g)'
  BY <1>1, <1>2, <1>15 DEF InviteActor, Kept, Alive, PeerAlive, Doing, Emptied, JobInv, RowsWith, ChannelRows, GuardInv,
       Stays, Called, PeerPast
<1>16. ASSUME NEW n \in Models, Adding(n)
       PROVE  Kept(m, g)'
  BY <1>1, <1>2, <1>16 DEF Adding, Kept, Alive, PeerAlive, Doing, Emptied, JobInv, RowsWith, ChannelRows, GuardInv,
       Stays, Called, PeerPast
<1>17. ASSUME NEW n \in Models, Discard(n)
       PROVE  Kept(m, g)'
  BY <1>1, <1>2, <1>17 DEF Discard, Kept, Alive, PeerAlive, Doing, Emptied, JobInv, RowsWith, ChannelRows, GuardInv,
       Stays, Called, PeerPast
<1>18. ASSUME NEW n \in Models, DiscardOnLoop(n)
       PROVE  Kept(m, g)'
  BY <1>1, <1>2, <1>18 DEF DiscardOnLoop, Bumped, Kept, Alive, PeerAlive, Doing, Emptied, JobInv, RowsWith, ChannelRows, GuardInv,
       Stays, Called, PeerPast
<1>19. CASE DiscardLeave
  BY <1>1, <1>2, <1>19 DEF DiscardLeave, Kept, Alive, PeerAlive, Doing, Emptied, JobInv, RowsWith, ChannelRows, GuardInv,
       Stays, Called, PeerPast
<1>20. CASE DiscardInstall
  BY <1>1, <1>2, <1>20 DEF DiscardInstall, Without, Kept, Alive, PeerAlive, Doing, Emptied, JobInv, RowsWith, ChannelRows, GuardInv,
       Stays, Called, PeerPast
<1>21. CASE DiscardDelete
  BY <1>1, <1>2, <1>21 DEF DiscardDelete, Kept, Alive, PeerAlive, Doing, Emptied, JobInv, RowsWith, ChannelRows, GuardInv,
       Stays, Called, PeerPast
<1>. QED
  BY <1>3, <1>4, <1>5, <1>6, <1>7, <1>8, <1>9, <1>10, <1>11, <1>12, <1>13, <1>14, <1>15, <1>16,
     <1>17, <1>18, <1>19, <1>20, <1>21, MoveCases

LEMMA KeptQuiet ==
  ASSUME GInv, KeptInv, NEW n \in Models, Quiet(n)
  PROVE  KeptInv'
<1>1. /\ n \in Actors /\ Models \subseteq Actors /\ turns \in [Actors -> GuardedTurns]
      /\ journal \in [Actors -> [guard : Guards, begun : BOOLEAN]]
  BY DEF GInv, Typed, GuardTypeOK, Actors
<1>2. rows \subseteq rows'
  BY RowAdded
<1>3. ASSUME NEW m \in Models, NEW g, Kept(m, g)
      PROVE  Kept(m, g)'
  <2>1. RowOf(m, g)' = RowOf(m, g)
    BY DEF RowOf
  <2>. QED BY <1>2, <1>3, <2>1, QuietKeeps DEF Kept, Alive, PeerAlive, Doing, Emptied
<1>4. ASSUME NEW m \in Models, journal'[m].begun
      PROVE  \/ journal'[m] = journal[m]
             \/ /\ journal'[m].guard = journal[m].guard /\ journal[m].guard.kind # "none"
                /\ RowOf(m, journal[m].guard) \in rows'
  <2>1. CASE CaptureGuard(n)
    <3>1. \/ journal' = journal
          \/ \E g : journal[n] = NoJournal /\ journal' = [journal EXCEPT ![n].guard = g]
      BY <2>1 DEF CaptureGuard, StartChannel, Load, ReadEpoch, ReadTurnGeneration, Reload, Recheck,
           StartDirect, ReadPeerConnection, ReadOwnTurn, ReadPeerTurn, CheckPeer,
           StartInvitation, CaptureInvitation, EndTurn, CaptureOnly, Grant, Refuse
    <3>. QED BY <1>1, <1>4, <3>1 DEF NoJournal
  <2>2. CASE BeginModelTurn(n)
    <3>1. CASE m = n
      BY <1>1, <1>4, <2>2, <3>1 DEF BeginModelTurn, NoJournal
    <3>2. CASE m # n
      BY <1>1, <2>2, <3>2 DEF BeginModelTurn
    <3>. QED BY <3>1, <3>2
  <2>3. CASE FinishJournal(n)
    BY <1>1, <1>4, <2>3 DEF FinishJournal, NoJournal
  <2>. QED BY <2>1, <2>2, <2>3 DEF Quiet
<1>5. ASSUME NEW m \in Models, journal'[m].begun
      PROVE  (journal[m].guard.kind # "none" /\ Kept(m, journal[m].guard))'
  <2>1. PICK g : g = journal[m].guard
    OBVIOUS
  <2>2. journal'[m].guard = g
    BY <1>4, <1>5, <2>1
  <2>3. CASE journal'[m] = journal[m]
    <3>1. g.kind # "none" /\ Kept(m, g)
      BY <1>5, <2>1, <2>3 DEF KeptInv
    <3>2. Kept(m, g)'
      BY <3>1, <1>3
    <3>. QED BY <2>2, <3>1, <3>2
  <2>4. CASE g.kind # "none" /\ RowOf(m, g) \in rows'
    <3>1. Kept(m, g)'
      BY <2>4 DEF Kept, RowOf
    <3>. QED BY <2>2, <2>4, <3>1
  <2>. QED BY <1>4, <1>5, <2>1, <2>3, <2>4
<1>. QED BY <1>5 DEF KeptInv

LEMMA KeptValid ==
  ASSUME GInv, KeptInv, NEW m \in Models, LoopIdle,
         journal[m].begun, TurnLocks(m, journal[m].guard), Valid(m, journal[m].guard)
  PROVE  RowOf(m, journal[m].guard) \in rows
<1> DEFINE g == journal[m].guard
<1>1. m \in Actors /\ GuardInv(m, g) /\ epoch[m] \in Nat /\ inviteGen[m] \in Nat /\ g \in Guards
  BY DEF GInv, GuardsInv, Typed, GuardTypeOK, Counters, Actors
<1>2. Kept(m, g)
  BY DEF KeptInv
<1>3. Alive(m, g) /\ ~Doing(m, {"quitSeal"}) /\ ~Doing(m, {"departBump"}) /\ ~Emptied
      /\ ~Doing(g.peer, {"quitSeal"})
  BY DEF Valid, ConnectionValid, Active, Alive, Doing, Emptied, LoopIdle
<1>4. g.kind = "channel" => g.epoch = epoch[m]
  BY DEF Valid, SameEpoch
<1>5. g.kind = "dm" => PeerAlive(g)
  BY DEF Valid, PeerConnected, ConnectionValid, Active, PeerAlive
<1>6. g.kind = "invitation" =>
        /\ g.chan = chanGen
        /\ \/ inviteGen[m] = g.inv
           \/ inviteGen[m] = g.inv + 1 /\ epoch[m] = g.epoch + 1
  BY DEF Valid, Pending, EnteredBy, EpochOfEntry
<1>. QED BY <1>1, <1>2, <1>3, <1>4, <1>5, <1>6 DEF Kept, Guards

(* While its guard is valid a begun turn is in the store: the JOIN that consumes
   an invitation keeps the turn the invitation began, and what deletes a valid
   guard's turn ends the guard before the loop takes its next command
   (ChannelJoin.PreserveTurns, commitMemberDeparture, deleteQuitInstance). *)
THEOREM ValidTurnsKept == GuardSpec => []ValidTurnKept
<1>1. GuardInit => KeptInv
  BY DEF GuardInit, KeptInv, NoJournal, Actors
<1>2. GInv /\ KeptInv /\ [GuardNext]_guardVars => KeptInv'
  <2> SUFFICES ASSUME GInv, KeptInv, [GuardNext]_guardVars
               PROVE  KeptInv'
    OBVIOUS
  <2>1. ASSUME Moves
        PROVE  KeptInv'
    <3>1. journal' = journal
      BY <2>1, MovesKeep
    <3>2. ASSUME NEW m \in Models, journal'[m].begun
          PROVE  (journal[m].guard.kind # "none" /\ Kept(m, journal[m].guard))'
      <4>1. PICK g \in Guards : g = journal[m].guard
        BY DEF GInv, Typed, GuardTypeOK, Actors
      <4>2. g.kind # "none" /\ Kept(m, g) /\ GuardInv(m, g)
        BY <3>1, <3>2, <4>1 DEF KeptInv, GInv, GuardsInv, Actors
      <4>3. Kept(m, g)'
        BY <2>1, <4>2, KeptMoves DEF GInv
      <4>. QED BY <3>1, <4>1, <4>2, <4>3
    <3>. QED BY <3>2 DEF KeptInv
  <2>2. CASE GuardNext
    BY <2>1, <2>2, NextCases, KeptQuiet
  <2>3. CASE UNCHANGED guardVars
    BY <2>3
    DEF guardVars, live, authority, past, KeptInv, Kept, RowOf, Alive, PeerAlive, Doing, Emptied
  <2>. QED BY <2>2, <2>3
<1>3. GInv /\ KeptInv => ValidTurnKept
  BY KeptValid DEF ValidTurnKept
<1>. QED BY <1>1, <1>2, <1>3, InitGInv, NextGInv, PTL DEF GuardSpec
=============================================================================
