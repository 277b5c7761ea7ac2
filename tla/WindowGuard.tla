---------------------------- MODULE WindowGuard ----------------------------
(* Window authority: what a model's turn may still do while the channel's
   membership, the invitations and the connections change under it.

   A turn captures a guard when it starts (serverClient.GuardWindow and
   GuardInvitation) by reading, without the command loop, the connection's
   generation, the window's epoch and the turn generation in several separate
   reads. The guard is checked again before every command of the turn and
   before every row of its journal, which a queue of its own writes later. The
   commands that end an authority (PART, KICK, KILL, QUIT and the clean-up of a
   failed ADDMODEL) run on the loop, hold the replayMu of the clients they
   affect and change the records one at a time.

   One channel is modelled: epochs and generations are kept per channel and no
   command relates two of them here. Store writes succeed (Channels models
   their failures). `stints` and `calls` number the memberships and the
   invitations of an actor; the program has neither, they are history that the
   properties compare guards and rows with. *)
EXTENDS Naturals, FiniteSets

CONSTANTS
  User,        \* the session's own client
  Models,      \* the model instances that ADDMODEL may start
  NoActor,     \* no peer
  TurnKinds,   \* bound: the sets of kinds of turn, one of which a behaviour takes
  MaxStays,    \* bound: memberships and QUITs of one actor
  MaxCalls     \* bound: invitations of one model

Actors == {User} \cup Models

ASSUME GuardAssumption ==
  /\ User \notin Models /\ NoActor \notin Actors
  /\ IsFiniteSet(Models)
  /\ TurnKinds \subseteq SUBSET {"channel", "dm", "invitation"}
  /\ MaxStays \in Nat /\ MaxCalls \in Nat

VARIABLES
  members,     \* the live channel record's members; {} when there is no channel
  invitations, \* its invitation list
  chanGen,     \* channelState.generations of the channel
  inviteGen,   \* channelState.invitationGenerations
  inChan,      \* whether the actor's own channel set holds the channel
  epoch,       \* serverClient.windowEpochs of the channel
  turnGen,     \* serverClient.turnGeneration
  connGen,     \* serverClient.connectionGeneration
  phase,       \* where the actor's client is in its life
  job,         \* the command loop
  rows,        \* the store's model_turns
  kinds,       \* the kinds of turn the models take (a member of TurnKinds)
  turns,       \* each actor's turn: where its capture is, and its guard
  journal,     \* each model's journal queue: a guard to write under, or none
  stints,      \* history: memberships begun by the actor
  calls,       \* history: invitations issued to the actor
  entered      \* history: the invitation the membership consumed, 0 for none

live == <<members, invitations, chanGen, inviteGen>>
authority == <<inChan, epoch, turnGen, connGen, phase>>
past == <<stints, calls, entered>>
guardVars == <<live, authority, job, rows, kinds, turns, journal, past>>

---------------------------------------------------------------------------
(* Values *)

NoGuard == [kind |-> "none", conn |-> 0, turn |-> 0, epoch |-> 0, chan |-> 0, inv |-> 0,
            peer |-> NoActor, peerConn |-> 0, peerTurn |-> 0, stint |-> 0, call |-> 0]
Idle == [at |-> "idle", who |-> User, locked |-> {}]
NoJournal == [guard |-> NoGuard, begun |-> FALSE]

\* A client that may issue commands and whose guards may be valid.
Active(a) == phase[a] \in {"adding", "failed", "up"}
ConnectionValid(a, generation) == Active(a) /\ connGen[a] = generation

\* The loop holds the replayMu of the actors in `locked`.
Unlocked(a) == a \notin job.locked
LoopIdle == job.at = "idle"

OnChannel(a) == a \in members /\ inChan[a]
ChannelRows(a) == {r \in rows : r.who = a /\ r.peer = NoActor}
RowsWith(a) == {r \in rows : r.who = a \/ r.peer = a}

(* invitationGuardStateLocked: an invitation is pending while nothing moved, and
   the membership its JOIN began still belongs to it, one generation and one
   epoch later. *)
Pending(a, g) ==
  /\ chanGen = g.chan /\ inviteGen[a] = g.inv /\ epoch[a] = g.epoch
  /\ a \in invitations

EntryAtAnyEpoch(a, g) == TRUE
EpochOfEntry(a, g) == epoch[a] = g.epoch + 1

EnteredBy(a, g) ==
  /\ chanGen = g.chan /\ inviteGen[a] = g.inv + 1 /\ EpochOfEntry(a, g)
  /\ a \notin invitations /\ OnChannel(a)

SameEpoch(a, g) == epoch[a] = g.epoch
PeerAssumed(g) == TRUE
PeerConnected(g) == ConnectionValid(g.peer, g.peerConn) /\ turnGen[g.peer] = g.peerTurn

Valid(a, g) ==
  /\ ConnectionValid(a, g.conn) /\ turnGen[a] = g.turn
  /\ CASE g.kind = "channel" -> SameEpoch(a, g) /\ OnChannel(a)
       [] g.kind = "dm" -> PeerConnected(g)
       [] g.kind = "invitation" -> Pending(a, g) \/ EnteredBy(a, g)
       [] OTHER -> FALSE

\* beginModelTurn: a turn begins on an invitation only while it is pending.
MayBegin(a, g) == Valid(a, g) /\ (g.kind = "invitation" => Pending(a, g))

\* lockTurnClients takes the locks of the actor and of a DM's peer.
TurnLocks(a, g) == Unlocked(a) /\ (g.kind = "dm" => Unlocked(g.peer))
---------------------------------------------------------------------------
(* Capture *)

Capturing(a, at, g) == turns' = [turns EXCEPT ![a] = [at |-> at, guard |-> g]]
At(a, at) == turns[a].at = at
Held(a) == turns[a].guard
CaptureOnly == UNCHANGED <<live, authority, job, rows, journal, past>>
Ended == [at |-> "idle", guard |-> NoGuard]
Refuse(a) == turns' = [turns EXCEPT ![a] = Ended] /\ UNCHANGED journal

(* The turn starts, and hands its guard to the journal's queue. The queue has
   room for one turn here: a turn that finds another's record still to be
   written drops its own. *)
Grant(a, g) ==
  /\ Capturing(a, "held", g)
  /\ journal' = IF journal[a] = NoJournal THEN [journal EXCEPT ![a].guard = g] ELSE journal

(* GuardWindow reads its own connection and then loads the channel, or finds the
   peer and its connection. *)
StartChannel(a) ==
  /\ At(a, "idle") /\ Active(a) /\ "channel" \in kinds
  /\ Capturing(a, "load", [NoGuard EXCEPT !.kind = "channel", !.conn = connGen[a]])
  /\ CaptureOnly

StartDirect(a, p) ==
  /\ At(a, "idle") /\ Active(a) /\ "dm" \in kinds /\ a # p /\ Active(p)
  /\ Capturing(a, "peerConn",
       [NoGuard EXCEPT !.kind = "dm", !.conn = connGen[a], !.peer = p])
  /\ CaptureOnly

Load(a) ==
  /\ At(a, "load")
  /\ IF ConnectionValid(a, Held(a).conn) /\ OnChannel(a)
     THEN Capturing(a, "epoch", Held(a))
     ELSE Refuse(a)
  /\ CaptureOnly

ReadEpoch(a) ==
  /\ At(a, "epoch")
  /\ Capturing(a, "turnGen", [Held(a) EXCEPT !.epoch = epoch[a]])
  /\ CaptureOnly

ReadTurnGeneration(a) ==
  /\ At(a, "turnGen") /\ Unlocked(a)
  /\ Capturing(a, "reload", [Held(a) EXCEPT !.turn = turnGen[a]])
  /\ CaptureOnly

Reload(a) ==
  /\ At(a, "reload")
  /\ IF ConnectionValid(a, Held(a).conn) /\ OnChannel(a)
     THEN Capturing(a, "recheck", Held(a))
     ELSE Refuse(a)
  /\ CaptureOnly

Recheck(a) ==
  /\ At(a, "recheck")
  /\ IF SameEpoch(a, Held(a))
     THEN Grant(a, [Held(a) EXCEPT !.stint = stints[a]])
     ELSE Refuse(a)
  /\ UNCHANGED <<live, authority, job, rows, past>>

ReadPeerConnection(a) ==
  /\ At(a, "peerConn")
  /\ Capturing(a, "ownTurn", [Held(a) EXCEPT !.peerConn = connGen[Held(a).peer]])
  /\ CaptureOnly

ReadOwnTurn(a) ==
  /\ At(a, "ownTurn") /\ Unlocked(a)
  /\ Capturing(a, "peerTurn", [Held(a) EXCEPT !.turn = turnGen[a]])
  /\ CaptureOnly

ReadPeerTurn(a) ==
  /\ At(a, "peerTurn") /\ Unlocked(Held(a).peer)
  /\ Capturing(a, "peerCheck", [Held(a) EXCEPT !.peerTurn = turnGen[Held(a).peer]])
  /\ CaptureOnly

CheckPeer(a) ==
  /\ At(a, "peerCheck")
  /\ IF ConnectionValid(Held(a).peer, Held(a).peerConn)
     THEN Grant(a, Held(a))
     ELSE Refuse(a)
  /\ UNCHANGED <<live, authority, job, rows, past>>

(* GuardInvitation reads everything but the connection under the actor's own
   replayMu, which every change of these values but an INVITE's holds. *)
StartInvitation(a) ==
  /\ At(a, "idle") /\ Active(a) /\ "invitation" \in kinds
  /\ Capturing(a, "invitation", [NoGuard EXCEPT !.kind = "invitation", !.conn = connGen[a]])
  /\ CaptureOnly

CaptureInvitation(a) ==
  /\ At(a, "invitation") /\ Unlocked(a)
  /\ IF ConnectionValid(a, Held(a).conn) /\ a \in invitations
     THEN Grant(a,
            [Held(a) EXCEPT !.chan = chanGen, !.inv = inviteGen[a], !.turn = turnGen[a],
                            !.epoch = epoch[a], !.call = calls[a]])
     ELSE Refuse(a)
  /\ UNCHANGED <<live, authority, job, rows, past>>

EndTurn(a) ==
  /\ At(a, "held")
  /\ Refuse(a)
  /\ CaptureOnly

CaptureGuard(a) ==
  \/ StartChannel(a) \/ Load(a) \/ ReadEpoch(a) \/ ReadTurnGeneration(a) \/ Reload(a)
  \/ Recheck(a) \/ \E p \in Actors : StartDirect(a, p)
  \/ ReadPeerConnection(a) \/ ReadOwnTurn(a) \/ ReadPeerTurn(a) \/ CheckPeer(a)
  \/ StartInvitation(a) \/ CaptureInvitation(a) \/ EndTurn(a)
---------------------------------------------------------------------------
(* The journal's queue writes later than the turn and outlives it. *)

RowOf(a, g) == [who |-> a, peer |-> g.peer, peerConn |-> g.peerConn,
                stint |-> g.stint, call |-> g.call]

BeginModelTurn(a) ==
  LET g == journal[a].guard IN
  /\ g.kind # "none" /\ ~journal[a].begun /\ TurnLocks(a, g)
  /\ IF MayBegin(a, g)
     THEN /\ rows' = rows \cup {RowOf(a, g)}
          /\ journal' = [journal EXCEPT ![a].begun = TRUE]
     ELSE /\ journal' = [journal EXCEPT ![a] = NoJournal]
          /\ UNCHANGED rows
  /\ UNCHANGED <<live, authority, job, turns, past>>

\* The turn's last entry, or a turn that ended before it recorded a request.
\* Appends change no row of `rows`.
FinishJournal(a) ==
  /\ journal[a] # NoJournal
  /\ journal' = [journal EXCEPT ![a] = NoJournal]
  /\ UNCHANGED <<live, authority, job, rows, turns, past>>
---------------------------------------------------------------------------
(* The command loop *)

MayStay(a) == stints[a] + turnGen[a] < MaxStays

Becomes(at, a, locked) == job' = [at |-> at, who |-> a, locked |-> locked]
Locks(a) == {a} \cup IF a \in members THEN members ELSE {}

Bumped(a) == [epoch EXCEPT ![a] = @ + 1]

(* A command of an active client. A model's carries its turn's guard, which the
   job checks first; the user's carries none. The handler's own work is a later
   step: a failed ADDMODEL may end the client's authority, off the loop, between
   the check and that work. *)
Issues(a) == Active(a) /\ (a # User => At(a, "held") /\ Valid(a, Held(a)))

Accept(a, what, target) ==
  /\ LoopIdle /\ Issues(a) /\ Becomes(what, target, {})
  /\ UNCHANGED <<live, authority, rows, turns, journal, past>>

\* A command that finds nothing to do.
Refused == job' = Idle /\ UNCHANGED <<live, authority, rows, turns, journal, past>>

ResetNothing(a, invited) == rows
ResetAlways(a, invited) == rows \ ChannelRows(a)

\* resetChannelJoinContext: an invited turn outlives the JOIN that consumes it.
Reset(a, invited) == IF invited THEN rows ELSE rows \ ChannelRows(a)

Enter(a) ==
  LET invited == a \in invitations IN
  /\ a \notin members
  /\ rows' = IF members = {} THEN rows ELSE Reset(a, invited)
  /\ members' = members \cup {a}
  /\ invitations' = invitations \ {a}
  /\ inviteGen' = IF invited THEN [inviteGen EXCEPT ![a] = @ + 1] ELSE inviteGen
  /\ stints' = [stints EXCEPT ![a] = @ + 1]
  /\ entered' = [entered EXCEPT ![a] = IF invited THEN calls[a] ELSE 0]
  /\ Becomes("joinSet", a, members \cup {a})
  /\ UNCHANGED <<chanGen, inChan, epoch, turnGen, connGen, turns, journal, calls>>

\* The key, limit and +i gates may refuse any JOIN.
Join(a) == MayStay(a) /\ Accept(a, "join", a)

JoinAs ==
  /\ job.at = "join"
  /\ \/ Refused
     \/ Enter(job.who) /\ UNCHANGED phase

JoinChannel ==
  /\ job.at = "joinSet"
  /\ inChan' = [inChan EXCEPT ![job.who] = TRUE]
  /\ Becomes("joinBump", job.who, job.locked)
  /\ UNCHANGED <<live, epoch, turnGen, connGen, phase, rows, turns, journal, past>>

BumpJoined ==
  /\ job.at = "joinBump"
  /\ epoch' = Bumped(job.who)
  /\ job' = Idle
  /\ UNCHANGED <<live, inChan, turnGen, connGen, phase, rows, turns, journal, past>>

\* CommitChannelDeparture drops a channel's turns only with the channel.
Depart(a) ==
  /\ a \in members
  /\ rows' = IF members = {a} THEN {r \in rows : r.peer # NoActor} ELSE rows
  /\ inChan' = [inChan EXCEPT ![a] = FALSE]
  /\ Becomes("departBump", a, Locks(a))
  /\ UNCHANGED <<live, epoch, turnGen, connGen, phase, turns, journal, past>>

Part(a) == a \in members /\ Accept(a, "depart", a)

\* The server operator's KICK; a channel operator's runs the same job.
KickActor(a) == a # User /\ {a, User} \subseteq members /\ Accept(User, "depart", a)

CommitDeparture == job.at = "depart" /\ Depart(job.who)

BumpDeparted ==
  /\ job.at = "departBump"
  /\ epoch' = Bumped(job.who)
  /\ Becomes("departInstall", job.who, job.locked)
  /\ UNCHANGED <<live, inChan, turnGen, connGen, phase, rows, turns, journal, past>>

\* removeLiveChannel or installChannelWindow.
Without(a) ==
  /\ members' = members \ {a}
  /\ IF members \subseteq {a}
     THEN chanGen' = chanGen + 1 /\ invitations' = {}
     ELSE UNCHANGED <<chanGen, invitations>>

InstallDeparted ==
  /\ job.at = "departInstall"
  /\ Without(job.who)
  /\ job' = Idle
  /\ UNCHANGED <<inviteGen, authority, rows, turns, journal, past>>

InviteActor(by, a) ==
  /\ LoopIdle /\ Issues(by) /\ by \in members /\ a \notin members /\ Active(a)
  /\ a \notin invitations /\ calls[a] < MaxCalls
  /\ invitations' = invitations \cup {a}
  /\ inviteGen' = [inviteGen EXCEPT ![a] = @ + 1]
  /\ calls' = [calls EXCEPT ![a] = @ + 1]
  /\ UNCHANGED <<members, chanGen, authority, job, rows, turns, journal, stints, entered>>

(* QUIT and KILL: deleteQuitInstance commits the deletion, reloads the channel
   without the actor and, when it went with it, moves its generation, all under
   channels.mu and the projection's replay locks. *)
QuitActor(a) ==
  /\ LoopIdle /\ Active(a) /\ (a = User => MayStay(User))
  /\ rows' = {r \in rows \ RowsWith(a) : members = {a} => r.peer # NoActor}
  /\ IF a \in members THEN Without(a) ELSE UNCHANGED <<members, chanGen, invitations>>
  /\ Becomes("quitSeal", a, Locks(a))
  /\ UNCHANGED <<inviteGen, authority, turns, journal, past>>

SealQuit ==
  /\ job.at = "quitSeal"
  /\ turnGen' = [turnGen EXCEPT ![job.who] = @ + 1]
  /\ connGen' = [connGen EXCEPT ![job.who] = @ + 1]
  /\ phase' = [phase EXCEPT ![job.who] = "gone"]
  /\ Becomes("quitLeave", job.who, {})
  /\ UNCHANGED <<live, inChan, epoch, rows, turns, journal, past>>

LeaveChannels ==
  /\ job.at = "quitLeave"
  /\ inChan' = [inChan EXCEPT ![job.who] = FALSE]
  /\ job' = Idle
  /\ UNCHANGED <<live, epoch, turnGen, connGen, phase, rows, turns, journal, past>>

\* reactivateUser: the same client handle takes a new connection generation.
Reactivate ==
  /\ LoopIdle /\ phase[User] = "gone"
  /\ phase' = [phase EXCEPT ![User] = "up"]
  /\ connGen' = [connGen EXCEPT ![User] = @ + 1]
  /\ rows' = rows \ RowsWith(User)
  /\ UNCHANGED <<live, inChan, epoch, turnGen, job, turns, journal, past>>
---------------------------------------------------------------------------
(* ADDMODEL registers and connects the model, JOINs it and, when a step fails,
   takes it down again: its authority off the loop, its records on it. *)

AddModel(m) ==
  /\ LoopIdle /\ phase[m] = "absent" /\ Active(User)
  /\ phase' = [phase EXCEPT ![m] = "adding"]
  /\ UNCHANGED <<live, inChan, epoch, turnGen, connGen, job, rows, turns, journal, past>>

\* admitModelAs: the JOIN may commit and the admission fail after it.
Admit(m) ==
  /\ LoopIdle /\ phase[m] = "adding" /\ Active(User) /\ MayStay(m)
  /\ Enter(m)
  /\ phase' \in {[phase EXCEPT ![m] = p] : p \in {"up", "failed"}}

AdmitMember(m) ==
  /\ LoopIdle /\ phase[m] = "adding" /\ m \in members
  /\ phase' = [phase EXCEPT ![m] = "up"]
  /\ UNCHANGED <<live, inChan, epoch, turnGen, connGen, job, rows, turns, journal, past>>

AdmitFails(m) ==
  /\ LoopIdle /\ phase[m] = "adding"
  /\ phase' = [phase EXCEPT ![m] = "failed"]
  /\ UNCHANGED <<live, inChan, epoch, turnGen, connGen, job, rows, turns, journal, past>>

Discard(m) ==
  /\ phase[m] = "failed" /\ Unlocked(m)
  /\ turnGen' = [turnGen EXCEPT ![m] = @ + 1]
  /\ connGen' = [connGen EXCEPT ![m] = @ + 1]
  /\ phase' = [phase EXCEPT ![m] = "discarding"]
  /\ UNCHANGED <<live, inChan, epoch, job, rows, turns, journal, past>>

DiscardOnLoop(m) ==
  /\ LoopIdle /\ phase[m] = "discarding"
  /\ IF inChan[m]
     THEN epoch' = Bumped(m) /\ Becomes("discardLeave", m, {m})
     ELSE UNCHANGED epoch /\ Becomes("discardDelete", m, {})
  /\ UNCHANGED <<live, inChan, turnGen, connGen, phase, rows, turns, journal, past>>

\* removeDeletedMember: the channel set and then the window, with the rows.
DiscardLeave ==
  /\ job.at = "discardLeave"
  /\ inChan' = [inChan EXCEPT ![job.who] = FALSE]
  /\ Becomes("discardInstall", job.who, job.locked)
  /\ UNCHANGED <<live, epoch, turnGen, connGen, phase, rows, turns, journal, past>>

DiscardInstall ==
  /\ job.at = "discardInstall"
  /\ Without(job.who)
  /\ rows' = {r \in rows \ ChannelRows(job.who) :
                members \subseteq {job.who} => r.peer # NoActor}
  /\ Becomes("discardDelete", job.who, {})
  /\ UNCHANGED <<inviteGen, authority, turns, journal, past>>

DiscardDelete ==
  /\ job.at = "discardDelete"
  /\ rows' = rows \ RowsWith(job.who)
  /\ phase' = [phase EXCEPT ![job.who] = "gone"]
  /\ job' = Idle
  /\ UNCHANGED <<live, inChan, epoch, turnGen, connGen, turns, journal, past>>
---------------------------------------------------------------------------
GuardInit ==
  /\ members = {} /\ invitations = {} /\ chanGen = 0
  /\ inviteGen = [a \in Actors |-> 0]
  /\ inChan = [a \in Actors |-> FALSE]
  /\ epoch = [a \in Actors |-> 0]
  /\ turnGen = [a \in Actors |-> 0]
  /\ connGen = [a \in Actors |-> 0]
  /\ phase = [a \in Actors |-> IF a = User THEN "up" ELSE "absent"]
  /\ job = Idle /\ rows = {} /\ kinds \in TurnKinds
  /\ turns = [a \in Actors |-> Ended]
  /\ journal = [a \in Actors |-> NoJournal]
  /\ stints = [a \in Actors |-> 0]
  /\ calls = [a \in Actors |-> 0]
  /\ entered = [a \in Actors |-> 0]

JobStep ==
  \/ JoinAs \/ JoinChannel \/ BumpJoined \/ CommitDeparture \/ BumpDeparted \/ InstallDeparted
  \/ SealQuit \/ LeaveChannels \/ DiscardLeave \/ DiscardInstall \/ DiscardDelete

Command(a) ==
  \/ Join(a) \/ Part(a) \/ KickActor(a) \/ QuitActor(a)
  \/ \E by \in Actors : a # User /\ InviteActor(by, a)

Model(m) ==
  \/ CaptureGuard(m) \/ BeginModelTurn(m) \/ FinishJournal(m)
  \/ AddModel(m) \/ Admit(m) \/ AdmitMember(m) \/ AdmitFails(m) \/ Discard(m) \/ DiscardOnLoop(m)

GuardNext ==
  /\ \/ JobStep \/ Reactivate
     \/ \E a \in Actors : Command(a)
     \/ \E m \in Models : Model(m)
  /\ UNCHANGED kinds

GuardSpec == GuardInit /\ [][GuardNext]_guardVars
---------------------------------------------------------------------------
(* Properties *)

Guards == [kind : {"none", "channel", "dm", "invitation"}, conn : Nat, turn : Nat,
           epoch : Nat, chan : Nat, inv : Nat, peer : Actors \cup {NoActor},
           peerConn : Nat, peerTurn : Nat, stint : Nat, call : Nat]
Rows == [who : Models, peer : Actors \cup {NoActor}, peerConn : Nat, stint : Nat, call : Nat]
Counters == [Actors -> Nat]
Jobs == [at : {"idle", "join", "joinSet", "joinBump", "depart", "departBump", "departInstall",
               "quitSeal", "quitLeave", "discardLeave", "discardInstall", "discardDelete"},
         who : Actors, locked : SUBSET Actors]
GuardedTurns == [at : {"idle", "load", "epoch", "turnGen", "reload", "recheck", "peerConn",
                       "ownTurn", "peerTurn", "peerCheck", "invitation", "held"},
                 guard : Guards]

\* Every variable has its type.
GuardTypeOK ==
  /\ members \subseteq Actors /\ invitations \subseteq Models
  /\ chanGen \in Nat /\ inviteGen \in Counters
  /\ inChan \in [Actors -> BOOLEAN]
  /\ epoch \in Counters /\ turnGen \in Counters /\ connGen \in Counters
  /\ phase \in [Actors -> {"absent", "adding", "failed", "up", "discarding", "gone"}]
  /\ job \in Jobs
  /\ rows \subseteq Rows /\ kinds \in TurnKinds
  /\ turns \in [Actors -> GuardedTurns]
  /\ journal \in [Actors -> [guard : Guards, begun : BOOLEAN]]
  /\ stints \in Counters /\ calls \in Counters /\ entered \in Counters

\* The membership or the invitation a guard was captured under is the present one.
Current(a, g) ==
  CASE g.kind = "channel" -> a \in members /\ g.stint = stints[a]
    [] g.kind = "invitation" ->
         \/ a \in invitations /\ g.call = calls[a]
         \/ a \in members /\ g.call = entered[a]
    [] OTHER -> TRUE

(* A guard that the loop or the journal would find valid speaks for the present:
   its channel membership is the one it was captured in, and an invitation's is
   the invitation itself or the membership that this invitation, and no other,
   began (windowGuard.validLocked, invitationGuardStateLocked). *)
ValidMeansCurrent ==
  \A a \in Actors : Unlocked(a) =>
    /\ At(a, "held") /\ Valid(a, Held(a)) => Current(a, Held(a))
    /\ Valid(a, journal[a].guard) => Current(a, journal[a].guard)

(* A model that enters a channel uninvited starts with nothing of what it
   recorded there as a member before: no turn of an earlier membership is left,
   and the queue, which outlives the turn, adds none later
   (resetChannelJoinContext, beginModelTurn). *)
CleanEntry ==
  \A m \in members : Unlocked(m) /\ entered[m] = 0 =>
    \A r \in ChannelRows(m) : r.call = 0 => r.stint = stints[m]

(* While a guard is valid the turn it began is in the store: the JOIN by which an
   invited turn enters its channel does not delete that turn
   (ChannelJoin.PreserveTurns), nor does anyone else's departure. *)
ValidTurnKept ==
  \A m \in Models :
    LET j == journal[m] IN
    j.begun /\ TurnLocks(m, j.guard) /\ Valid(m, j.guard) /\ LoopIdle =>
      RowOf(m, j.guard) \in rows

(* A direct conversation's turns end with the peer: none outlives the connection
   it was recorded on, though the queue writes later than the turn and the
   deletion does not hold the writer's locks (deleteDirectPeerContext). *)
DirectRowsOfThisSession ==
  \A r \in rows : r.peer # NoActor =>
    \/ Active(r.peer) /\ r.peerConn = connGen[r.peer]
    \/ phase[r.peer] = "discarding"

(* What deleteQuitInstance's comment asks of a deletion, that no guard observes
   the deleted channel with its previous generation, seen in the store: between
   two jobs a channel that is gone has no turns. *)
GoneChannelHasNoTurns ==
  LoopIdle /\ members = {} => \A m \in Models : ChannelRows(m) = {}
=============================================================================
