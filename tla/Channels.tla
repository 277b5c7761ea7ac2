------------------------------ MODULE Channels ------------------------------
(***************************************************************************)
(* The session's channel and client records and their durable copies       *)
(* (src/internal/session/actions.go, channel_state.go, channel_window.go,  *)
(* handler.go, session.go and the transactions of store/sqlite.go).        *)
(*                                                                         *)
(* Commands run one at a time on the writer loop; a command that makes one *)
(* store transaction is one step, which fails as a whole when the store    *)
(* does.  A departure the server forces makes several, so it is a `job`    *)
(* that holds the loop while it goes from one to the next; the process can *)
(* stop between any two.  Readers of a channel record run at any time and  *)
(* may fill the live map from the store.                                   *)
(*                                                                         *)
(* A window keeps what the membership rules read: the member list with its *)
(* nick snapshots, the channel operators, the invitations and `+i`.  The   *)
(* topic, key, limit and the other modes are left to other modules.        *)
(***************************************************************************)
EXTENDS Naturals, FiniteSets, Functions

CONSTANTS
  User,        \* the instance of the session's own client
  Models,      \* instance ids ADDMODEL may generate; an id is used once
  Channels, Nicks,
  NoChannel,   \* no record
  NoRow,       \* no instances row
  NoNick,      \* the nick of an instance that was never made
  MaxGen,      \* bound: channel destructions per session
  MaxFails,    \* bound: store writes that fail
  MaxReadFails,\* bound: store reads that fail
  MaxRestarts  \* bound: times the process stops and starts again

Actors == {User} \cup Models

Window ==
  {w \in [nick : UNION {[S -> Nicks] : S \in SUBSET Actors},
          ops : SUBSET Actors, invites : SUBSET Actors,
          closed : BOOLEAN,  \* +i
          born : Nat]        \* history: endings of the name before this channel
     : w.ops \subseteq DOMAIN w.nick}

Instance == [nick : Nicks, chans : SUBSET Channels]
InstanceRow == [nick : Nicks, chans : SUBSET Channels, pending : BOOLEAN]

ASSUME ChannelsAssumption ==
  /\ User \notin Models
  /\ Channels # {} /\ Nicks # {} /\ IsFiniteSet(Channels) /\ IsFiniteSet(Models)
  /\ NoChannel \notin Window /\ NoRow \notin InstanceRow /\ NoNick \notin Nicks
  /\ MaxGen \in Nat /\ MaxFails \in Nat /\ MaxReadFails \in Nat
  /\ MaxRestarts \in Nat

VARIABLES
  live,        \* channelState.windows
  gen,         \* channelState.generations
  handle,      \* the canonical *domain.Instance of each id
  conn,        \* the client connection of each id
  joining,     \* the channel an ADDMODEL in progress is for
  job,         \* the forced departure or reconciliation holding the loop
  rows,        \* the channels table
  insts,       \* the instances table
  marker,      \* the session_active marker
  config,      \* user_nick in config.json
  boot,        \* how far this run of the process has come
  fails, readFails, restarts,
  ended,       \* history: how often each name's channel ended this session
  unmarked,    \* history: ids whose departure the store refused without a mark
               \* for it (the user's never has one), until it is done after all
  reported     \* history: channels with a recorded persistence failure

memory == <<live, gen, handle, conn, joining>>
durable == <<rows, insts, marker, config>>
budget == <<fails, readFails, restarts>>
vars == <<memory, job, durable, boot, budget, ended, unmarked, reported>>

ConnStates == {"none", "stored", "attached", "registered", "reconciled",
               "active", "retired", "discarded", "gone"}

Idle == [kind |-> "idle", who |-> User, todo |-> {}, clean |-> TRUE]

-----------------------------------------------------------------------------
(* Records.                                                                *)

Members(w) == IF w = NoChannel THEN {} ELSE DOMAIN w.nick

Without(w, i) == [w EXCEPT !.nick = Restrict(@, DOMAIN @ \ {i}), !.ops = @ \ {i}]

\* A stored member resolves while its instances row is there and not pending.
Resolves(i) == insts[i] # NoRow /\ ~insts[i].pending

\* loadChannelWindowFromStore: members without a backing row are dropped.
FromStore(w) ==
  IF w = NoChannel THEN NoChannel
  ELSE [w EXCEPT !.nick = Restrict(@, {i \in DOMAIN @ : Resolves(i)}),
                 !.ops = {i \in @ : Resolves(i)}]

LoadedPastTombstone(c) == IF live[c] # NoChannel THEN live[c]
                          ELSE FromStore(rows[c])

\* liveChannelWindowLocked: the live record, else the stored row, unless the
\* channel was destroyed in this session.
Loaded(c) ==
  IF live[c] # NoChannel THEN live[c]
  ELSE IF gen[c] > 0 THEN NoChannel
  ELSE FromStore(rows[c])

On(i, c) == i \in Members(Loaded(c))

\* The user-client is the one server operator.
ServerOper(i) == i = User

ChannelOp(i, w) == ServerOper(i) \/ i \in w.ops

Active(i) == conn[i] = "active"

\* ResolveNick: the rows a claim of nick n would meet.
NickRows(n) == {i \in Actors : Resolves(i) /\ insts[i].nick = n}

NickAvailableAmongActive(n, holders) ==
  \A i \in Actors \ holders : Active(i) => handle[i].nick # n

\* requireNickAvailable; the store answers with one row of those it finds.
NickAvailable(n, holders) ==
  NickRows(n) = {} \/ NickRows(n) \cap holders # {}

Row(h, pending) == [nick |-> h.nick, chans |-> h.chans, pending |-> pending]

\* An upsert leaves the pending_deletion flag of an existing row alone.
Upserted(i, h) == Row(h, insts[i] # NoRow /\ insts[i].pending)

\* deleteInstanceChannelMemberships and the DELETE of the row itself.
RowsWithout(i) ==
  [c \in Channels |->
     IF i \notin Members(rows[c]) THEN rows[c]
     ELSE IF Members(rows[c]) = {i} THEN NoChannel ELSE Without(rows[c], i)]

-----------------------------------------------------------------------------
(* Steps of the writer loop.                                               *)

\* The models are started; "connected" once the user has been.
Up == boot \in {"running", "connected"}

\* The loop is free to take a command.
Running == Up /\ job = Idle

\* One store write, and whether it succeeded.
Write(ok) == (ok \/ fails > 0) /\ fails' = IF ok THEN fails ELSE fails - 1

ReportedNothing(ok, cs) == reported' = reported

\* recordPersistenceFailure.
Reported(ok, cs) == reported' = IF ok THEN reported ELSE reported \cup cs

\* The live map once a command has loaded the channels cs.
Filled(cs) == [c \in Channels |-> IF c \in cs THEN Loaded(c) ELSE live[c]]

\* Any read of a channel record: routes, guards, gates, NAMES.
Read(c) ==
  /\ Up /\ live[c] # Loaded(c)
  /\ live' = Filled({c})
  /\ UNCHANGED <<gen, handle, conn, joining, job, durable, boot, budget, ended,
                 unmarked, reported>>

\* ensureChannelWindowForJoin: closed is the session's default for +i.
NewWindow(i, c, closed) ==
  [nick |-> [j \in {i} |-> handle[i].nick], ops |-> {i}, invites |-> {},
   closed |-> closed, born |-> ended[c]]

\* checkJoinGates, for a client that is not on the member list.
JoinGates(w, i, operator) == ~w.closed \/ i \in w.invites \/ operator

JoinedKeepsInvitation(w, i) ==
  [w EXCEPT !.nick = [j \in DOMAIN @ \cup {i} |-> IF j = i THEN handle[i].nick
                                                  ELSE @[j]]]

\* The invitation is consumed by the join it lets through the gates.
Joined(w, i) ==
  [w EXCEPT !.nick = [j \in DOMAIN @ \cup {i} |-> IF j = i THEN handle[i].nick
                                                  ELSE @[j]],
            !.invites = IF i \in DOMAIN w.nick THEN @ ELSE @ \ {i}]

\* joinAs.  A repeat JOIN, agreed by both records, changes nothing.
JoinAs(i, c, operator, ok) ==
  \E closed \in BOOLEAN :
    LET w == Loaded(c)
        created == w = NoChannel
        after == IF created THEN NewWindow(i, c, closed) ELSE Joined(w, i)
        joined == [handle[i] EXCEPT !.chans = @ \cup {c}]
    IN /\ ~created /\ ~On(i, c) => JoinGates(w, i, operator)
       /\ ~(On(i, c) /\ c \in handle[i].chans)
       /\ Write(ok) /\ Reported(ok, {c})
       /\ IF ok
          THEN /\ live' = [live EXCEPT ![c] = after]
               /\ handle' = [handle EXCEPT ![i] = joined]
               /\ rows' = [rows EXCEPT ![c] = after]
               /\ insts' = [insts EXCEPT ![i] = Upserted(i, joined)]
          ELSE live' = Filled({c}) /\ UNCHANGED <<handle, rows, insts>>

Join(i, c) ==
  /\ Running /\ Active(i)
  /\ \E ok \in BOOLEAN : JoinAs(i, c, FALSE, ok)
  /\ UNCHANGED <<gen, conn, joining, job, marker, config, boot, readFails,
                 restarts, ended, unmarked>>

\* The member who left was the last.
Emptied(w) == Members(w) = {}

Departed(i, c) == [handle[i] EXCEPT !.chans = @ \ {c}]

\* commitMemberDeparture: PART and KICK.
CommitDeparture(i, c) ==
  \E ok \in BOOLEAN :
    LET w == Without(Loaded(c), i)
        left == Departed(i, c)
        after == IF Emptied(w) THEN NoChannel ELSE w
        ends == IF ok /\ Emptied(w) THEN 1 ELSE 0
    IN /\ Emptied(w) => gen[c] < MaxGen
       /\ Write(ok) /\ Reported(ok, {c})
       /\ gen' = [gen EXCEPT ![c] = @ + ends]
       /\ ended' = [ended EXCEPT ![c] = @ + ends]
       /\ IF ok
          THEN /\ live' = [live EXCEPT ![c] = after]
               /\ handle' = [handle EXCEPT ![i] = left]
               /\ rows' = [rows EXCEPT ![c] = after]
               /\ insts' = [insts EXCEPT ![i] = Upserted(i, left)]
          ELSE live' = Filled({c}) /\ UNCHANGED <<handle, rows, insts>>

Part(i, c) ==
  /\ Running /\ Active(i) /\ On(i, c)
  /\ CommitDeparture(i, c)
  /\ UNCHANGED <<conn, joining, job, marker, config, boot, readFails, restarts,
                 unmarked>>

Kick(i, t, c) ==
  /\ Running /\ Active(i) /\ Active(t) /\ On(t, c)
  /\ ChannelOp(i, Loaded(c))
  /\ CommitDeparture(t, c)
  /\ UNCHANGED <<conn, joining, job, marker, config, boot, readFails, restarts,
                 unmarked>>

\* persistChannelWindow and commitChannelUpdate: the row, then the live record.
PersistWindow(c, after) ==
  \E ok \in BOOLEAN :
    /\ Write(ok) /\ Reported(ok, {c})
    /\ live' = [live EXCEPT ![c] = IF ok THEN after ELSE Loaded(c)]
    /\ rows' = IF ok THEN [rows EXCEPT ![c] = after] ELSE rows
    /\ UNCHANGED <<gen, handle, conn, joining, job, insts, marker, config, boot,
                   readFails, restarts, ended, unmarked>>

\* inviteAs: on a +i channel only a channel operator may vouch.
Invite(i, t, c) ==
  LET w == Loaded(c) IN
  /\ Running /\ Active(i) /\ Active(t) /\ On(i, c)
  /\ w.closed => ChannelOp(i, w)
  /\ \A j \in Members(w) : w.nick[j] # handle[t].nick
  /\ t \notin w.invites
  /\ PersistWindow(c, [w EXCEPT !.invites = @ \cup {t}])

\* MODE +i / -i.
SetInviteOnly(i, c) ==
  LET w == Loaded(c) IN
  /\ Running /\ Active(i) /\ w # NoChannel /\ ChannelOp(i, w)
  /\ \E closed \in BOOLEAN : PersistWindow(c, [w EXCEPT !.closed = closed])

\* MODE +o / -o: a grant to somebody who is not a member does nothing.
SetOperator(i, t, c) ==
  LET w == Loaded(c) IN
  /\ Running /\ Active(i) /\ Active(t) /\ w # NoChannel /\ ChannelOp(i, w)
  /\ \E add \in BOOLEAN :
       PersistWindow(c, [w EXCEPT !.ops = IF ~add THEN @ \ {t}
                                          ELSE @ \cup ({t} \cap DOMAIN w.nick)])

RenamedHere(w, i, n) == w

\* RenameID on one window's member list.
Renamed(w, i, n) ==
  [w EXCEPT !.nick = [j \in DOMAIN @ |-> IF j = i THEN n ELSE @[j]]]

\* changeNickAs: the row, every channel's snapshot, then the handle.
Nick(i, n) ==
  LET chans == handle[i].chans
      named == [handle[i] EXCEPT !.nick = n]
      after == [c \in Channels |-> IF c \in chans THEN Renamed(Loaded(c), i, n)
                                   ELSE NoChannel]
  IN /\ Running /\ Active(i)
     /\ i = User => config = n
     /\ n # handle[i].nick /\ NickAvailable(n, {i})
     /\ \A c \in chans : Loaded(c) # NoChannel
     /\ \E ok \in BOOLEAN :
          /\ Write(ok) /\ Reported(ok, chans)
          /\ IF ok
             THEN /\ handle' = [handle EXCEPT ![i] = named]
                  /\ insts' = [insts EXCEPT ![i] = Upserted(i, named)]
                  /\ rows' = [c \in Channels |-> IF c \in chans THEN after[c]
                                                 ELSE rows[c]]
                  /\ live' = [c \in Channels |-> IF c \in chans THEN after[c]
                                                 ELSE live[c]]
             ELSE live' = Filled(chans) /\ UNCHANGED <<handle, insts, rows>>
     /\ UNCHANGED <<gen, conn, joining, job, marker, config, boot, readFails,
                    restarts, ended, unmarked>>

\* /nick writes the nick to the configuration before it sends the NICK.
SaveNick(n) ==
  /\ Running /\ Active(User)
  /\ config' = n
  /\ UNCHANGED <<memory, job, rows, insts, marker, boot, budget, ended,
                 unmarked, reported>>

-----------------------------------------------------------------------------
(* Departures.                                                             *)

Retired(i) == IF i = User THEN "retired" ELSE "gone"

\* The deletion of instance i removes the row of a channel it was alone on.
Ends(i, c) == Members(rows[c]) = {i}

DestroyedByReload(i, unloaded, failed, c) ==
  IF c \in failed THEN c \in unloaded \/ Members(Loaded(c)) = {i}
  ELSE RowsWithout(i)[c] = NoChannel

\* deleteQuitInstance, once CommitInstanceDeletion has committed: each channel
\* of the instance is read back from the store.  A read that fails leaves no
\* live record; it counts as destroyed if this was its only member.
InstanceDeleted(i, unloaded) ==
  \E failed \in SUBSET handle[i].chans :
    LET chans == handle[i].chans
        destroyed == {c \in chans : DestroyedByReload(i, unloaded, failed, c)}
    IN /\ Cardinality(failed) <= readFails
       /\ readFails' = readFails - Cardinality(failed)
       /\ rows' = RowsWithout(i)
       /\ insts' = [insts EXCEPT ![i] = NoRow]
       /\ live' = [c \in Channels |->
                     IF c \notin chans THEN live[c]
                     ELSE IF c \in failed THEN NoChannel
                     ELSE FromStore(RowsWithout(i)[c])]
       /\ gen' = [c \in Channels |-> IF c \in destroyed THEN gen[c] + 1
                                      ELSE gen[c]]
       /\ ended' = [c \in Channels |-> IF c \in chans /\ Ends(i, c)
                                        THEN ended[c] + 1 ELSE ended[c]]
       /\ handle' = [handle EXCEPT ![i].chans = {}]
       /\ conn' = [conn EXCEPT ![i] = Retired(i)]

BelowBound(i) == \A c \in handle[i].chans : gen[c] < MaxGen /\ ended[c] < MaxGen

\* ClearSessionActive, when the user's departure left nothing undone.
ClearMarker(i, clean) ==
  IF i = User /\ clean
  THEN \E ok \in BOOLEAN : Write(ok) /\ marker' = (marker /\ ~ok)
  ELSE UNCHANGED <<fails, marker>>

\* QUIT (quitRequiresDeletion): commits as a whole or not at all.
Quit(i) ==
  /\ Running /\ Active(i) /\ BelowBound(i)
  /\ \A c \in handle[i].chans : Loaded(c) # NoChannel
  /\ \/ /\ InstanceDeleted(i, {})
        /\ ClearMarker(i, readFails' = readFails)
     \/ /\ Write(FALSE)
        /\ live' = Filled(handle[i].chans)
        /\ UNCHANGED <<gen, handle, conn, rows, insts, marker, readFails, ended>>
  /\ UNCHANGED <<joining, job, config, boot, restarts, unmarked, reported>>

\* KILL, and the server's own Disconnect of a model: quitForced.  A channel
\* that cannot be loaded does not stop it, nor does a deletion that fails.
ForceQuit(i) ==
  /\ Running /\ Active(i) /\ BelowBound(i)
  /\ LET unloaded == {c \in handle[i].chans : Loaded(c) = NoChannel} IN
     \/ /\ InstanceDeleted(i, unloaded)
        /\ ClearMarker(i, unloaded = {} /\ readFails' = readFails)
        /\ UNCHANGED <<job, unmarked>>
     \/ /\ Write(FALSE)
        /\ live' = Filled(handle[i].chans)
        /\ job' = [kind |-> IF i = User THEN "quit" ELSE "mark", who |-> i,
                   todo |-> handle[i].chans \ unloaded, clean |-> unloaded = {}]
        /\ conn' = [conn EXCEPT ![i] = Retired(i)]
        /\ unmarked' = IF i = User THEN unmarked \cup {i} ELSE unmarked
        /\ UNCHANGED <<gen, handle, rows, insts, marker, readFails, ended>>
  /\ UNCHANGED <<joining, config, boot, restarts, reported>>

\* MarkInstancePendingDeletion of instance i.
Mark(i, ok) ==
  insts' = IF ok /\ insts[i] # NoRow THEN [insts EXCEPT ![i].pending = TRUE]
           ELSE insts

MarkOrRemember(i, ok) ==
  Mark(i, ok) /\ unmarked' = IF ok THEN unmarked ELSE unmarked \cup {i}

\* The departure of i is done and no live channel still names it.
DoneAfterAll(i) ==
  IF \A c \in Channels : i \notin Members(live[c]) THEN unmarked \ {i} ELSE unmarked

MarkPending ==
  /\ job.kind = "mark"
  /\ \E ok \in BOOLEAN : Write(ok) /\ MarkOrRemember(job.who, ok)
  /\ job' = [job EXCEPT !.kind = "quit"]
  /\ UNCHANGED <<memory, rows, marker, config, boot, readFails, restarts, ended,
                 reported>>

\* A Connect that fails leaves the user as it found it: never connected, or
\* departed.
Aborted ==
  [conn EXCEPT ![User] = IF boot = "connected" THEN "retired" ELSE "attached"]

\* removeQuitMembership and removeDeletedMember, one channel: the live record
\* loses the member whether or not the store takes the change; emptied, the
\* channel is destroyed.
Leave(c) ==
  LET w == Without(Loaded(c), job.who)
      after == IF Emptied(w) THEN NoChannel ELSE w
      ends == IF Emptied(w) THEN 1 ELSE 0
  IN /\ job.kind \in {"quit", "discard", "cleanup"} /\ c \in job.todo
     /\ Loaded(c) # NoChannel
     /\ handle' = [handle EXCEPT ![job.who] = Departed(job.who, c)]
     /\ gen' = [gen EXCEPT ![c] = @ + ends]
     /\ ended' = [ended EXCEPT ![c] = @ + ends]
     /\ \E ok \in BOOLEAN :
          /\ Write(ok) /\ Reported(ok, {c})
          /\ live' = [live EXCEPT ![c] = after]
          /\ rows' = IF ok THEN [rows EXCEPT ![c] = after] ELSE rows
          /\ IF job.kind = "cleanup" /\ ~ok
             THEN job' = Idle /\ conn' = Aborted
             ELSE /\ job' = [job EXCEPT !.todo = @ \ {c}, !.clean = @ /\ ok]
                  /\ UNCHANGED conn
     /\ UNCHANGED <<joining, insts, marker, config, boot, readFails, restarts,
                    unmarked>>

\* A stale row whose channel has ended in this session does not load, and the
\* Connect fails.
CleanupStops(c) ==
  /\ job.kind = "cleanup" /\ c \in job.todo /\ Loaded(c) = NoChannel
  /\ job' = Idle /\ conn' = Aborted
  /\ UNCHANGED <<live, gen, handle, joining, durable, boot, budget, ended, unmarked,
                 reported>>

\* retryForcedQuitDeletion, and the end of discardModel: the row goes, or a
\* mark that failed before is tried again.
FinishDeparture ==
  LET i == job.who IN
  /\ job.kind \in {"quit", "discard"} /\ job.todo = {}
  /\ \/ /\ ClearMarker(i, job.clean)
        /\ rows' = RowsWithout(i)
        /\ insts' = [insts EXCEPT ![i] = NoRow]
        /\ unmarked' = DoneAfterAll(i)
     \/ /\ i = User \/ i \notin unmarked
        /\ Write(FALSE)
        /\ UNCHANGED <<rows, insts, marker, unmarked>>
     \/ /\ i # User /\ i \in unmarked
        /\ \E ok \in BOOLEAN :
             /\ fails >= IF ok THEN 1 ELSE 2
             /\ fails' = fails - IF ok THEN 1 ELSE 2
             /\ Mark(i, ok)
             /\ unmarked' = IF ok THEN DoneAfterAll(i) ELSE unmarked
        /\ UNCHANGED <<rows, marker>>
  /\ handle' = [handle EXCEPT ![i].chans = {}]
  /\ conn' = [conn EXCEPT ![i] = Retired(i)]
  /\ joining' = IF job.kind = "discard" THEN [joining EXCEPT ![i] = NoChannel]
                ELSE joining
  /\ job' = Idle
  /\ UNCHANGED <<live, gen, config, boot, readFails, restarts, ended, reported>>

-----------------------------------------------------------------------------
(* ADDMODEL: register, attach, admit, or discard.                          *)

\* registerModelAs claims the nick on the loop.
Register(m, n, c) ==
  /\ Running /\ Active(User) /\ conn[m] = "none"
  /\ NickAvailable(n, {}) /\ Loaded(c) # NoChannel
  /\ \E ok \in BOOLEAN :
       /\ Write(ok)
       /\ IF ok
          THEN /\ handle' = [handle EXCEPT ![m] = [nick |-> n, chans |-> {}]]
               /\ insts' = [insts EXCEPT ![m] = Row(handle'[m], FALSE)]
               /\ conn' = [conn EXCEPT ![m] = "registered"]
               /\ joining' = [joining EXCEPT ![m] = c]
          ELSE UNCHANGED <<handle, insts, conn, joining>>
  /\ live' = Filled({c})
  /\ UNCHANGED <<gen, job, rows, marker, config, boot, readFails, restarts,
                 ended, unmarked, reported>>

\* startModelClient, off the loop.
Attach(m) ==
  /\ Up /\ conn[m] = "registered" /\ Resolves(m)
  /\ conn' = [conn EXCEPT ![m] = "active"]
  /\ UNCHANGED <<live, gen, handle, joining, job, durable, boot, budget, ended,
                 unmarked, reported>>

\* admitModelAs: the issuer must still be on the channel, and the instance
\* still be the registered one.  An admission that fails is a Discard.
Admit(m) ==
  LET c == joining[m] IN
  /\ Running /\ Active(User) /\ Active(m) /\ Resolves(m) /\ c # NoChannel
  /\ On(User, c) /\ c \in handle[User].chans
  /\ joining' = [joining EXCEPT ![m] = NoChannel]
  /\ \/ JoinAs(m, c, TRUE, TRUE)
     \/ /\ On(m, c) /\ c \in handle[m].chans
        /\ live' = Filled({c})
        /\ UNCHANGED <<handle, rows, insts, fails, reported>>
  /\ UNCHANGED <<gen, conn, job, marker, config, boot, readFails, restarts,
                 ended, unmarked>>

\* discardModel, before it reaches the loop: the client is cut off and the row
\* marked.
Discard(m) ==
  /\ Up /\ joining[m] # NoChannel /\ conn[m] # "discarded"
  /\ job.who = m => job = Idle
  /\ conn' = [conn EXCEPT ![m] = "discarded"]
  /\ \E ok \in BOOLEAN : Write(ok) /\ MarkOrRemember(m, ok)
  /\ UNCHANGED <<live, gen, handle, joining, job, rows, marker, config, boot,
                 readFails, restarts, ended, reported>>

DiscardOnLoop(m) ==
  /\ Running /\ conn[m] = "discarded" /\ BelowBound(m)
  /\ job' = [kind |-> "discard", who |-> m, clean |-> TRUE,
             todo |-> {c \in handle[m].chans : Loaded(c) # NoChannel}]
  /\ live' = Filled(handle[m].chans)
  /\ UNCHANGED <<gen, handle, conn, joining, durable, boot, budget, ended,
                 unmarked, reported>>

-----------------------------------------------------------------------------
(* The process stops, and starts again from the durable state.             *)

NoHandle == [nick |-> NoNick, chans |-> {}]

Stop ==
  /\ boot # "down" /\ restarts > 0
  /\ restarts' = restarts - 1
  /\ boot' = "down" /\ job' = Idle
  /\ live' = [c \in Channels |-> NoChannel]
  /\ gen' = [c \in Channels |-> 0]
  /\ handle' = [i \in Actors |-> NoHandle]
  /\ conn' = [i \in Actors |-> IF i = User \/ insts[i] # NoRow THEN "stored"
                               ELSE IF conn[i] = "none" THEN "none" ELSE "gone"]
  /\ joining' = [i \in Actors |-> NoChannel]
  /\ ended' = [c \in Channels |-> IF rows[c] = NoChannel THEN 0
                                  ELSE rows[c].born]
  /\ reported' = {}
  /\ UNCHANGED <<durable, fails, readFails, unmarked>>

\* UserClient.Attach: the row is written over, under the configured nick.
AttachUser ==
  /\ boot = "down"
  /\ boot' = "starting"
  /\ handle' = [handle EXCEPT ![User] = [nick |-> config, chans |-> {}]]
  /\ insts' = [insts EXCEPT ![User] = Row(handle'[User], FALSE)]
  /\ conn' = [conn EXCEPT ![User] = "attached"]
  /\ UNCHANGED <<live, gen, joining, job, rows, marker, config, budget, ended,
                 unmarked, reported>>

\* Manager.Start: finish one pending deletion.
PurgePending(m) ==
  /\ boot = "starting" /\ insts[m] # NoRow /\ insts[m].pending
  /\ rows' = RowsWithout(m)
  /\ insts' = [insts EXCEPT ![m] = NoRow]
  /\ conn' = [conn EXCEPT ![m] = "gone"]
  /\ UNCHANGED <<live, gen, handle, joining, job, marker, config, boot, budget,
                 ended, unmarked, reported>>

\* StartModelClients: every stored instance comes back; the deletions that
\* failed are left pending.
StartModels ==
  LET left == {m \in Models : insts[m] # NoRow /\ insts[m].pending}
      stored == {m \in Models : Resolves(m)}
  IN /\ boot = "starting" /\ boot' = "running"
     /\ Cardinality(left) <= fails /\ fails' = fails - Cardinality(left)
     /\ handle' = [i \in Actors |->
                     IF i \in stored
                     THEN [nick |-> insts[i].nick, chans |-> insts[i].chans]
                     ELSE handle[i]]
     /\ conn' = [i \in Actors |-> IF i \in stored THEN "active" ELSE conn[i]]
     /\ UNCHANGED <<live, gen, joining, job, durable, readFails, restarts, ended,
                    unmarked, reported>>

\* The stored channels that still name the user.
StaleMemberships == {c \in Channels : User \in Members(rows[c])}

ConnectTrustsRows == boot = "connected"

\* Whether Connect reconciles the user's memberships: the last run left the
\* session_active marker, or the user departed in this one.
Unclean == marker \/ boot = "connected"

\* cleanupUncleanShutdown, as one job of the loop: Leave takes its channels.
Cleanup ==
  /\ Running /\ Unclean
  /\ conn[User] = (IF boot = "connected" THEN "registered" ELSE "attached")
  /\ \A c \in StaleMemberships : Loaded(c) # NoChannel => gen[c] < MaxGen /\ ended[c] < MaxGen
  /\ job' = [kind |-> "cleanup", who |-> User, todo |-> StaleMemberships,
             clean |-> TRUE]
  /\ live' = Filled(StaleMemberships)
  /\ UNCHANGED <<gen, handle, conn, joining, durable, boot, budget, ended,
                 unmarked, reported>>

Reconciled ==
  /\ \/ job.kind = "cleanup" /\ job.todo = {} /\ job' = Idle
     \/ conn[User] = "attached" /\ ~Unclean /\ Up /\ UNCHANGED job
  /\ conn' = [conn EXCEPT ![User] = "reconciled"]
  /\ UNCHANGED <<live, gen, handle, joining, durable, boot, budget, ended,
                 unmarked, reported>>

\* reactivateUser: the departed client's row is deleted and written afresh.
Reactivate ==
  /\ Running /\ conn[User] = "retired"
  /\ NickAvailable(handle[User].nick, {User})
  /\ rows' = RowsWithout(User)
  /\ \E ok \in BOOLEAN :
       /\ Write(ok)
       /\ insts' = [insts EXCEPT ![User] = IF ok THEN Row(handle[User], FALSE)
                                           ELSE NoRow]
       /\ conn' = [conn EXCEPT ![User] = IF ok THEN "registered" ELSE @]
  /\ UNCHANGED <<live, gen, handle, joining, job, marker, config, boot,
                 readFails, restarts, ended, unmarked, reported>>

\* SetSessionActive and activateConnection; on the loop when it is a return.
Activate ==
  /\ Up /\ conn[User] = "reconciled"
  /\ boot = "connected" => job = Idle
  /\ \E ok \in BOOLEAN :
       /\ Write(ok)
       /\ marker' = (marker \/ ok)
       /\ boot' = IF ok THEN "connected" ELSE boot
       /\ conn' = IF ok THEN [conn EXCEPT ![User] = "active"] ELSE Aborted
  /\ UNCHANGED <<live, gen, handle, joining, job, rows, insts, config, readFails,
                 restarts, ended, unmarked, reported>>

-----------------------------------------------------------------------------
Init ==
  /\ live = [c \in Channels |-> NoChannel]
  /\ gen = [c \in Channels |-> 0]
  /\ handle = [i \in Actors |-> NoHandle]
  /\ conn = [i \in Actors |-> IF i = User THEN "stored" ELSE "none"]
  /\ joining = [i \in Actors |-> NoChannel]
  /\ job = Idle
  /\ rows = [c \in Channels |-> NoChannel]
  /\ insts = [i \in Actors |-> NoRow]
  /\ marker = FALSE
  /\ config \in Nicks
  /\ boot = "down"
  /\ fails = MaxFails /\ readFails = MaxReadFails /\ restarts = MaxRestarts
  /\ ended = [c \in Channels |-> 0]
  /\ unmarked = {} /\ reported = {}

Commands ==
  \/ \E i \in Actors, c \in Channels :
       Join(i, c) \/ Part(i, c) \/ SetInviteOnly(i, c)
  \/ \E i, t \in Actors, c \in Channels :
       Kick(i, t, c) \/ Invite(i, t, c) \/ SetOperator(i, t, c)
  \/ \E i \in Actors, n \in Nicks : Nick(i, n)
  \/ \E n \in Nicks : SaveNick(n)
  \/ \E i \in Actors : Quit(i) \/ ForceQuit(i)

AddModel ==
  \E m \in Models :
    \/ \E n \in Nicks, c \in Channels : Register(m, n, c)
    \/ Attach(m) \/ Admit(m) \/ Discard(m) \/ DiscardOnLoop(m)

JobSteps ==
  MarkPending \/ (\E c \in Channels : Leave(c) \/ CleanupStops(c)) \/ FinishDeparture

Boot ==
  \/ AttachUser \/ (\E m \in Models : PurgePending(m)) \/ StartModels
  \/ Cleanup \/ Reconciled \/ Reactivate \/ Activate

Next ==
  Commands \/ AddModel \/ JobSteps \/ Boot \/ (\E c \in Channels : Read(c)) \/ Stop

Spec == Init /\ [][Next]_vars

-----------------------------------------------------------------------------
TypeOK ==
  /\ live \in [Channels -> Window \cup {NoChannel}]
  /\ gen \in [Channels -> Nat] /\ ended \in [Channels -> Nat]
  /\ handle \in [Actors -> Instance \cup {NoHandle}]
  /\ conn \in [Actors -> ConnStates]
  /\ joining \in [Actors -> Channels \cup {NoChannel}]
  /\ job \in [kind : {"idle", "mark", "quit", "discard", "cleanup"},
              who : Actors, todo : SUBSET Channels, clean : BOOLEAN]
  /\ rows \in [Channels -> Window \cup {NoChannel}]
  /\ insts \in [Actors -> InstanceRow \cup {NoRow}]
  /\ marker \in BOOLEAN /\ config \in Nicks
  /\ boot \in {"down", "starting", "running", "connected"}
  /\ fails \in 0..MaxFails /\ readFails \in 0..MaxReadFails
  /\ restarts \in 0..MaxRestarts
  /\ unmarked \subseteq Actors /\ reported \subseteq Channels

\* Between commands.
Settled == Running

\* "every member of a channel has a client behind it": nobody is left on a
\* live member list after its departure, whatever part of that failed (a model
\* whose ADDMODEL failed goes when its clean-up reaches the loop).
NoGhostMember ==
  Settled /\ Active(User) =>
    \A c \in Channels, i \in Actors :
      i \in Members(live[c]) => Active(i) \/ conn[i] = "discarded" \/ i \in unmarked

\* The records of a membership, the channel's member list, the client's channel
\* set and the client itself, agree: after failed store writes and a crash too,
\* unless the client was leaving and could not be marked in the store first.
MembershipAgrees ==
  /\ NoGhostMember
  /\ Settled => \A i \in Actors \ unmarked, c \in Channels :
                  Active(i) => (On(i, c) <=> c \in handle[i].chans)

\* "The channel ceases to exist when the last user leaves" (RFC 2811 2): no
\* live channel is without members.
NoEmptyChannel ==
  \A c \in Channels : live[c] # NoChannel => Members(live[c]) # {}

\* "The channel state disappears with the record; a re-creation under the same
\* name starts fresh", and a row whose deletion failed "cannot repopulate live
\* state during this session": the live record of a name is of the channel that
\* has not ended yet.  "A generation without a live row is the tombstone left by
\* destroyChannel": no connected client is still on that channel (with the same
\* exception).
ChannelEnds ==
  \A c \in Channels :
    /\ live[c] # NoChannel => live[c].born = ended[c]
    /\ Settled /\ gen[c] > 0 /\ live[c] = NoChannel =>
         \A i \in Actors \ unmarked : Active(i) => c \notin handle[i].chans

\* A nick names one connected client.
OneHolderPerNick ==
  \A i, j \in Actors : Active(i) /\ Active(j) /\ i # j =>
    handle[i].nick # handle[j].nick

\* So it does for as long as the process runs.
NickUnique == restarts = MaxRestarts => OneHolderPerNick

\* The member lists show the nick each connected member has now (with the same
\* exception).
SnapshotsCurrent ==
  Settled => \A c \in Channels : \A i \in Members(Loaded(c)) \ unmarked :
    Active(i) => Loaded(c).nick[i] = handle[i].nick

\* "The persistence-failure counter reports the durable divergence": a live
\* channel that is not what the store holds has a failure on record.  (A model
\* being discarded is marked in the store before it leaves the live record.)
DivergenceReported ==
  Settled => \A c \in Channels :
    live[c] # NoChannel /\ live[c] # FromStore(rows[c]) =>
      c \in reported \/ (\E i \in Members(live[c]) : conn[i] = "discarded")

\* Nobody appears on the list of a live channel but by a JOIN its gates let
\* through, and that JOIN uses the invitation up.  (A channel can be read back
\* from its row, by a QUIT or a Read; members it lost must not come back so.
\* A session that starts again reads them all from the store, and a departure
\* the store never learnt of can be undone so.)
GatedEntry ==
  [][restarts = MaxRestarts =>
     \A c \in Channels, i \in Actors :
       live[c] # NoChannel /\ i \in Members(live'[c]) \ (Members(live[c]) \cup unmarked) =>
         /\ live[c].closed => i \in live[c].invites \/ joining[i] = c
         /\ i \notin live'[c].invites
         /\ c \in handle'[i].chans]_vars
=============================================================================
