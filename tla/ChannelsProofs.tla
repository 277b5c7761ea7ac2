--------------------------- MODULE ChannelsProofs ---------------------------
(***************************************************************************)
(* Theorems about Channels for every set of models, channels and nicks and *)
(* every number of failing writes, endings and restarts.                   *)
(***************************************************************************)
EXTENDS Channels, FiniteSetTheorems, TLAPS

---------------------------------------------------------------------------
(* Windows                                                                 *)

LEMMA WindowFields ==
  ASSUME NEW w \in Window
  PROVE  /\ w # NoChannel
         /\ w = [nick |-> w.nick, ops |-> w.ops, invites |-> w.invites,
                 closed |-> w.closed, born |-> w.born]
         /\ Members(w) = DOMAIN w.nick /\ Members(w) \subseteq Actors
         /\ w.nick \in [Members(w) -> Nicks]
         /\ w.ops \subseteq Members(w) /\ w.invites \subseteq Actors
         /\ w.closed \in BOOLEAN /\ w.born \in Nat
<1>1. w.nick \in UNION {[S -> Nicks] : S \in SUBSET Actors}
  BY DEF Window
<1>2. PICK S \in SUBSET Actors : w.nick \in [S -> Nicks]
  BY <1>1
<1>. QED BY <1>2, ChannelsAssumption DEF Window, Members

LEMMA WindowMade ==
  ASSUME NEW S \in SUBSET Actors, NEW f \in [S -> Nicks],
         NEW o \in SUBSET S, NEW v \in SUBSET Actors, NEW b \in BOOLEAN, NEW n \in Nat
  PROVE  /\ [nick |-> f, ops |-> o, invites |-> v, closed |-> b, born |-> n] \in Window
         /\ Members([nick |-> f, ops |-> o, invites |-> v, closed |-> b, born |-> n]) = S
<1>1. f \in UNION {[T -> Nicks] : T \in SUBSET Actors}
  OBVIOUS
<1>2. [nick |-> f, ops |-> o, invites |-> v, closed |-> b, born |-> n] \in Window
  BY <1>1 DEF Window
<1>. QED BY <1>2, ChannelsAssumption DEF Members

LEMMA WithoutWindow ==
  ASSUME NEW w \in Window, NEW i
  PROVE  /\ Without(w, i) \in Window
         /\ Members(Without(w, i)) = Members(w) \ {i}
         /\ \A j \in Members(w) \ {i} : Without(w, i).nick[j] = w.nick[j]
         /\ Without(w, i).ops = w.ops \ {i}
         /\ Without(w, i).invites = w.invites /\ Without(w, i).closed = w.closed
         /\ Without(w, i).born = w.born
<1>1. PICK S : S = Members(w) \ {i}
  OBVIOUS
<1>2. PICK f : f = [j \in S |-> w.nick[j]]
  OBVIOUS
<1>3. Restrict(w.nick, DOMAIN w.nick \ {i}) = f
  BY <1>1, <1>2, WindowFields DEF Restrict
<1>4. PICK g : g = [nick |-> f, ops |-> w.ops \ {i}, invites |-> w.invites,
                    closed |-> w.closed, born |-> w.born]
  OBVIOUS
<1>5. Without(w, i) = [w EXCEPT !.nick = f, !.ops = w.ops \ {i}]
  BY <1>3 DEF Without
<1>6. Without(w, i) = g
  BY <1>4, <1>5, WindowFields
<1>7. f \in [S -> Nicks] /\ S \in SUBSET Actors /\ w.ops \ {i} \in SUBSET S
  BY <1>1, <1>2, WindowFields
<1>8. w.invites \in SUBSET Actors /\ w.closed \in BOOLEAN /\ w.born \in Nat
  BY WindowFields
<1>9. g \in Window /\ Members(g) = S
  BY <1>4, <1>7, <1>8, WindowMade
<1>. QED BY <1>1, <1>2, <1>4, <1>6, <1>9

LEMMA FromStoreWindow ==
  ASSUME NEW w \in Window
  PROVE  /\ FromStore(w) \in Window
         /\ Members(FromStore(w)) = {j \in Members(w) : Resolves(j)}
         /\ \A j \in Members(FromStore(w)) : FromStore(w).nick[j] = w.nick[j]
         /\ FromStore(w).ops = {j \in w.ops : Resolves(j)}
         /\ FromStore(w).invites = w.invites /\ FromStore(w).closed = w.closed
         /\ FromStore(w).born = w.born
<1>1. PICK S : S = {j \in Members(w) : Resolves(j)}
  OBVIOUS
<1>2. PICK f : f = [j \in S |-> w.nick[j]]
  OBVIOUS
<1>3. Restrict(w.nick, {j \in DOMAIN w.nick : Resolves(j)}) = f
  BY <1>1, <1>2, WindowFields DEF Restrict
<1>4. PICK o : o = {j \in w.ops : Resolves(j)}
  OBVIOUS
<1>5. PICK g : g = [nick |-> f, ops |-> o, invites |-> w.invites,
                    closed |-> w.closed, born |-> w.born]
  OBVIOUS
<1>6. FromStore(w) = [w EXCEPT !.nick = f, !.ops = o]
  BY <1>3, <1>4, WindowFields DEF FromStore
<1>7. FromStore(w) = g
  BY <1>5, <1>6, WindowFields
<1>8. f \in [S -> Nicks] /\ S \in SUBSET Actors /\ o \in SUBSET S
  BY <1>1, <1>2, <1>4, WindowFields
<1>9. w.invites \in SUBSET Actors /\ w.closed \in BOOLEAN /\ w.born \in Nat
  BY WindowFields
<1>10. g \in Window /\ Members(g) = S
  BY <1>5, <1>8, <1>9, WindowMade
<1>. QED BY <1>1, <1>2, <1>4, <1>5, <1>7, <1>10

LEMMA RenamedWindow ==
  ASSUME NEW w \in Window, NEW i \in Actors, NEW n \in Nicks
  PROVE  /\ Renamed(w, i, n) \in Window
         /\ Members(Renamed(w, i, n)) = Members(w)
         /\ i \in Members(w) => Renamed(w, i, n).nick[i] = n
         /\ \A j \in Members(w) \ {i} : Renamed(w, i, n).nick[j] = w.nick[j]
         /\ Renamed(w, i, n).ops = w.ops
         /\ Renamed(w, i, n).invites = w.invites /\ Renamed(w, i, n).closed = w.closed
         /\ Renamed(w, i, n).born = w.born
<1>1. PICK f : f = [j \in Members(w) |-> IF j = i THEN n ELSE w.nick[j]]
  OBVIOUS
<1>2. Renamed(w, i, n) = [nick |-> f, ops |-> w.ops, invites |-> w.invites,
                          closed |-> w.closed, born |-> w.born]
  BY <1>1, WindowFields DEF Renamed
<1>3. f \in [Members(w) -> Nicks] /\ Members(w) \in SUBSET Actors
  BY <1>1, WindowFields
<1>. QED BY <1>1, <1>2, <1>3, WindowFields, WindowMade

LEMMA JoinedWindow ==
  ASSUME NEW w \in Window, NEW i \in Actors, handle[i].nick \in Nicks
  PROVE  /\ Joined(w, i) \in Window
         /\ Members(Joined(w, i)) = Members(w) \cup {i}
         /\ Joined(w, i).nick[i] = handle[i].nick
         /\ \A j \in Members(w) \ {i} : Joined(w, i).nick[j] = w.nick[j]
         /\ Joined(w, i).ops = w.ops
         /\ Joined(w, i).invites = IF i \in Members(w) THEN w.invites ELSE w.invites \ {i}
         /\ Joined(w, i).closed = w.closed /\ Joined(w, i).born = w.born
<1>1. PICK S : S = Members(w) \cup {i}
  OBVIOUS
<1>2. PICK f : f = [j \in S |-> IF j = i THEN handle[i].nick ELSE w.nick[j]]
  OBVIOUS
<1>3. PICK v : v = IF i \in Members(w) THEN w.invites ELSE w.invites \ {i}
  OBVIOUS
<1>4. PICK g : g = [nick |-> f, ops |-> w.ops, invites |-> v,
                    closed |-> w.closed, born |-> w.born]
  OBVIOUS
<1>5. Joined(w, i) = [w EXCEPT !.nick = f, !.invites = v]
  BY <1>1, <1>2, <1>3, WindowFields DEF Joined
<1>6. Joined(w, i) = g
  BY <1>4, <1>5, WindowFields
<1>7. f \in [S -> Nicks] /\ S \in SUBSET Actors /\ v \in SUBSET Actors
  BY <1>1, <1>2, <1>3, WindowFields
<1>8. w.ops \in SUBSET S /\ w.closed \in BOOLEAN /\ w.born \in Nat
  BY <1>1, WindowFields
<1>9. g \in Window /\ Members(g) = S
  BY <1>4, <1>7, <1>8, WindowMade
<1>. QED BY <1>1, <1>2, <1>3, <1>4, <1>6, <1>9

LEMMA NewWindowMade ==
  ASSUME NEW i \in Actors, NEW c \in Channels, NEW b \in BOOLEAN,
         handle[i].nick \in Nicks, ended[c] \in Nat
  PROVE  /\ NewWindow(i, c, b) \in Window
         /\ Members(NewWindow(i, c, b)) = {i}
         /\ NewWindow(i, c, b).nick[i] = handle[i].nick
         /\ NewWindow(i, c, b).ops = {i} /\ NewWindow(i, c, b).invites = {}
         /\ NewWindow(i, c, b).closed = b /\ NewWindow(i, c, b).born = ended[c]
<1>1. PICK f : f = [j \in {i} |-> handle[i].nick]
  OBVIOUS
<1>2. f \in [{i} -> Nicks] /\ {i} \in SUBSET Actors
  BY <1>1
<1>3. NewWindow(i, c, b) = [nick |-> f, ops |-> {i}, invites |-> {}, closed |-> b,
                            born |-> ended[c]]
  BY <1>1 DEF NewWindow
<1>. QED BY <1>1, <1>2, <1>3, WindowMade

---------------------------------------------------------------------------
(* The invariants that hold whatever fails                                 *)

Connected(i) == conn[i] \in {"attached", "registered", "reconciled", "active"}

\* The loop is held by the departure of i.
Leaving(i) == job.kind \in {"mark", "quit", "discard"} /\ job.who = i

\* What the client of each id can be, by how far the run has come.
BootInv ==
  /\ boot \in {"down", "starting"} =>
       /\ job = Idle
       /\ \A c \in Channels : live[c] = NoChannel /\ gen[c] = 0
       /\ \A i \in Actors : joining[i] = NoChannel
       /\ \A m \in Models : conn[m] \in {"none", "stored", "gone"}
       /\ \A m \in Models : insts[m] # NoRow => conn[m] = "stored"
  /\ boot = "down" => conn[User] = "stored" /\ (\A i \in Actors : handle[i] = NoHandle)
  /\ boot = "starting" => conn[User] = "attached"
  /\ boot = "running" => conn[User] \in {"attached", "reconciled"}
  /\ boot = "connected" => conn[User] \in {"registered", "reconciled", "active", "retired"}
  /\ \A m \in Models :
       conn[m] \in {"none", "stored", "registered", "active", "discarded", "gone"}

\* Whose departure holds the loop, and that its client is no longer connected.
JobInv ==
  job = Idle \/
    /\ Up
    /\ job.kind # "idle"
    /\ job.kind = "mark" => job.who \in Models /\ conn[job.who] = "gone"
    /\ job.kind = "quit" => conn[job.who] = Retired(job.who)
    /\ job.kind = "quit" /\ job.who = User => User \in unmarked
    /\ job.kind = "discard" => job.who \in Models /\ conn[job.who] = "discarded"
    /\ job.kind = "cleanup" =>
         /\ job.who = User /\ Unclean
         /\ conn[User] = IF boot = "connected" THEN "registered" ELSE "attached"
    /\ job.kind # "cleanup" => job.todo \subseteq handle[job.who].chans

\* The instances row of a connected client is its client's; a client that is not
\* on channels yet, or no longer, has none.
RowInv ==
  /\ \A i \in Actors :
       Connected(i) =>
         /\ Resolves(i)
         /\ handle[i].nick = insts[i].nick /\ handle[i].chans = insts[i].chans
  /\ conn[User] = "retired" => handle[User].nick \in Nicks
  /\ \A m \in Models : conn[m] = "registered" => handle[m].chans = {}
  /\ conn[User] # "active" /\ ~Leaving(User) => handle[User].chans = {}

Base == TypeOK /\ BootInv /\ JobInv /\ RowInv

---------------------------------------------------------------------------
(* What a step can be                                                      *)

\* The records an operation on a channel leaves alone.
Otherwise ==
  UNCHANGED <<conn, job, marker, config, boot, readFails, restarts, unmarked>>

\* Both copies of the record of c become w.
Saves(c, w) ==
  live' = [live EXCEPT ![c] = w] /\ rows' = [rows EXCEPT ![c] = w]

\* Both copies of the record of instance i become h.
Stores(i, h) ==
  handle' = [handle EXCEPT ![i] = h] /\ insts' = [insts EXCEPT ![i] = Upserted(i, h)]

Fewer == fails' \in 0 .. fails

\* A JOIN that went through: w is the channel with i on its list.
Enters(i, c, w) ==
  /\ Running /\ Active(i) /\ w \in Window
  /\ Saves(c, w) /\ Stores(i, [handle[i] EXCEPT !.chans = @ \cup {c}])
  /\ Members(w) = Members(Loaded(c)) \cup {i} /\ w.nick[i] = handle[i].nick
  /\ \A j \in Members(Loaded(c)) \ {i} : w.nick[j] = Loaded(c).nick[j]
  /\ w.born = IF Loaded(c) = NoChannel THEN ended[c] ELSE Loaded(c).born
  /\ i \notin w.invites \/ i \in Members(Loaded(c))
  /\ live[c] # NoChannel /\ live[c].closed /\ i \notin Members(live[c]) =>
       i \in live[c].invites \/ joining[i] = c
  /\ joining' = joining \/ joining' = [joining EXCEPT ![i] = NoChannel]
  /\ Otherwise /\ Fewer /\ UNCHANGED <<gen, ended, reported>>

\* Records are read in, and nothing else happens to them; a failure is noted.
Fills(cs) ==
  /\ Up /\ live' = Filled(cs)
  /\ UNCHANGED <<gen, handle, rows, insts, ended>> /\ Otherwise /\ Fewer
  /\ joining' = joining \/ (\E m \in Models : joining' = [joining EXCEPT ![m] = NoChannel])
  /\ reported \subseteq reported' /\ reported' \subseteq Channels

\* A PART or KICK that went through.
Departs(i, c) ==
  /\ Running /\ Active(i) /\ On(i, c)
  /\ LET w == Without(Loaded(c), i)
         after == IF Members(w) = {} THEN NoChannel ELSE w
         ends == IF Members(w) = {} THEN 1 ELSE 0
     IN /\ Saves(c, after)
        /\ gen' = [gen EXCEPT ![c] = @ + ends] /\ ended' = [ended EXCEPT ![c] = @ + ends]
  /\ Stores(i, Departed(i, c))
  /\ Otherwise /\ Fewer /\ UNCHANGED <<joining, reported>>

\* A change of the record that leaves its members alone.
Updates(c, w) ==
  /\ Running /\ Loaded(c) # NoChannel /\ w \in Window /\ Saves(c, w)
  /\ w.nick = Loaded(c).nick /\ w.born = Loaded(c).born
  /\ Otherwise /\ Fewer /\ UNCHANGED <<gen, handle, joining, insts, ended, reported>>

\* A NICK that went through.
Renames(i, n) ==
  LET chans == handle[i].chans IN
  /\ Running /\ Active(i) /\ NickAvailable(n, {i})
  /\ \A c \in chans : Loaded(c) # NoChannel
  /\ Stores(i, [handle[i] EXCEPT !.nick = n])
  /\ rows' = [c \in Channels |-> IF c \in chans THEN Renamed(Loaded(c), i, n) ELSE rows[c]]
  /\ live' = [c \in Channels |-> IF c \in chans THEN Renamed(Loaded(c), i, n) ELSE live[c]]
  /\ Otherwise /\ Fewer /\ UNCHANGED <<gen, joining, ended, reported>>

\* A QUIT or KILL whose deletion is committed.
Deletes(i) ==
  /\ Running /\ Active(i)
  /\ InstanceDeleted(i, {c \in handle[i].chans : Loaded(c) = NoChannel})
  /\ i # User => UNCHANGED marker
  /\ marker' \in BOOLEAN /\ Fewer
  /\ UNCHANGED <<joining, job, config, boot, restarts, unmarked, reported>>

\* A KILL whose deletion fails: the departure takes the loop.
Forced(i) ==
  LET unloaded == {c \in handle[i].chans : Loaded(c) = NoChannel} IN
  /\ Running /\ Active(i) /\ live' = Filled(handle[i].chans)
  /\ job' = [kind |-> IF i = User THEN "quit" ELSE "mark", who |-> i,
             todo |-> handle[i].chans \ unloaded, clean |-> unloaded = {}]
  /\ conn' = [conn EXCEPT ![i] = Retired(i)]
  /\ unmarked' = IF i = User THEN unmarked \cup {i} ELSE unmarked
  /\ Fewer
  /\ UNCHANGED <<gen, handle, joining, rows, insts, marker, config, boot, readFails,
                 restarts, ended, reported>>

\* The nick of an ADDMODEL is claimed.
Registers(m, n, c) ==
  /\ Running /\ conn[m] = "none" /\ NickAvailable(n, {})
  /\ live' = Filled({c})
  /\ handle' = [handle EXCEPT ![m] = [nick |-> n, chans |-> {}]]
  /\ insts' = [insts EXCEPT ![m] = [nick |-> n, chans |-> {}, pending |-> FALSE]]
  /\ conn' = [conn EXCEPT ![m] = "registered"]
  /\ joining' = [joining EXCEPT ![m] = c]
  /\ Fewer
  /\ UNCHANGED <<gen, job, rows, marker, config, boot, readFails, restarts, ended,
                 unmarked, reported>>

\* Every step is one of these.
Moves ==
  \/ \E i \in Actors, c \in Channels, w \in Window : Enters(i, c, w)
  \/ \E cs \in SUBSET Channels : Fills(cs)
  \/ \E i \in Actors, c \in Channels : Departs(i, c)
  \/ \E c \in Channels, w \in Window : Updates(c, w)
  \/ \E i \in Actors, n \in Nicks : Renames(i, n)
  \/ \E n \in Nicks : SaveNick(n)
  \/ \E i \in Actors : Deletes(i)
  \/ \E i \in Actors : Forced(i)
  \/ \E m \in Models, n \in Nicks, c \in Channels : Registers(m, n, c)
  \/ \E m \in Models : Attach(m) \/ Discard(m) \/ DiscardOnLoop(m)
  \/ MarkPending \/ (\E c \in Channels : Leave(c) \/ CleanupStops(c)) \/ FinishDeparture
  \/ Boot \/ Stop

---------------------------------------------------------------------------
LEMMA RecordTypes ==
  ASSUME TypeOK
  PROVE  /\ \A c \in Channels : live[c] \in Window \cup {NoChannel}
         /\ \A c \in Channels : rows[c] \in Window \cup {NoChannel}
         /\ \A c \in Channels : Loaded(c) \in Window \cup {NoChannel}
         /\ \A cs : Filled(cs) \in [Channels -> Window \cup {NoChannel}]
         /\ \A i : \A c \in Channels : Ends(i, c) => rows[c] # NoChannel
         /\ \A i : RowsWithout(i) \in [Channels -> Window \cup {NoChannel}]
<1>1. \A c \in Channels : live[c] \in Window \cup {NoChannel} /\ rows[c] \in Window \cup {NoChannel}
  BY DEF TypeOK
<1>2. \A w \in Window \cup {NoChannel} : FromStore(w) \in Window \cup {NoChannel}
  BY FromStoreWindow DEF FromStore
<1>3. \A c \in Channels : Loaded(c) \in Window \cup {NoChannel}
  BY <1>1, <1>2 DEF Loaded
<1>4. \A cs : Filled(cs) \in [Channels -> Window \cup {NoChannel}]
  BY <1>1, <1>3 DEF Filled
<1>5. ASSUME NEW i, NEW c \in Channels
      PROVE  RowsWithout(i)[c] \in Window \cup {NoChannel}
  <2>1. CASE i \notin Members(rows[c])
    BY <1>1, <2>1 DEF RowsWithout
  <2>2. CASE i \in Members(rows[c])
    <3>1. rows[c] \in Window
      BY <1>1, <2>2 DEF Members
    <3>. QED BY <3>1, <2>2, WithoutWindow DEF RowsWithout
  <2>. QED BY <2>1, <2>2
<1>6. \A i : RowsWithout(i) \in [Channels -> Window \cup {NoChannel}]
  BY <1>5 DEF RowsWithout
<1>7. \A i : \A c \in Channels : Ends(i, c) => rows[c] # NoChannel
  BY DEF Ends, Members
<1>. QED BY <1>1, <1>3, <1>4, <1>6, <1>7

LEMMA ClientTypes ==
  ASSUME Base
  PROVE  /\ \A i \in Actors : handle[i].chans \subseteq Channels /\ handle[i].nick \in Nicks \cup {NoNick}
         /\ \A i \in Actors : handle[i] = [nick |-> handle[i].nick, chans |-> handle[i].chans]
         /\ \A i \in Actors : Connected(i) => handle[i] \in Instance /\ handle[i].nick \in Nicks
         /\ \A i \in Actors, h \in Instance, b \in BOOLEAN : Row(h, b) \in InstanceRow
         /\ \A i \in Actors, h \in Instance : Upserted(i, h) \in InstanceRow
<1>1. \A i \in Actors : handle[i] \in Instance \cup {NoHandle}
  BY DEF Base, TypeOK
<1>2. \A i \in Actors : handle[i].chans \subseteq Channels /\ handle[i].nick \in Nicks \cup {NoNick}
  BY <1>1 DEF Instance, NoHandle
<1>3. \A i \in Actors : handle[i] = [nick |-> handle[i].nick, chans |-> handle[i].chans]
  BY <1>1 DEF Instance, NoHandle
<1>4. ASSUME NEW i \in Actors, Connected(i)
      PROVE  handle[i] \in Instance /\ handle[i].nick \in Nicks
  <2>1. insts[i] \in InstanceRow /\ handle[i].nick = insts[i].nick
    BY <1>4 DEF Base, TypeOK, RowInv, Resolves
  <2>2. handle[i].nick \in Nicks
    BY <2>1 DEF InstanceRow
  <2>3. [nick |-> handle[i].nick, chans |-> handle[i].chans] \in Instance
    BY <1>2, <2>2 DEF Instance
  <2>. QED BY <1>3, <2>2, <2>3
<1>5. \A h \in Instance, b \in BOOLEAN : Row(h, b) \in InstanceRow
  BY DEF Row, Instance, InstanceRow
<1>6. ASSUME NEW i \in Actors, NEW h \in Instance
      PROVE  Upserted(i, h) \in InstanceRow
  <2>1. insts[i] \in InstanceRow \cup {NoRow}
    BY DEF Base, TypeOK
  <2>2. (insts[i] # NoRow /\ insts[i].pending) \in BOOLEAN
    OBVIOUS
  <2>. QED BY <1>5, <2>2 DEF Upserted
<1>. QED BY <1>2, <1>3, <1>4, <1>5, <1>6

LEMMA WriteCases ==
  ASSUME TypeOK, NEW ok \in BOOLEAN, Write(ok)
  PROVE  Fewer
BY DEF Write, Fewer, TypeOK

LEMMA JoinCases ==
  ASSUME Base, NEW i \in Actors, NEW c \in Channels, NEW operator \in BOOLEAN,
         NEW ok \in BOOLEAN, Running, Active(i),
         operator => joining[i] = c, JoinAs(i, c, operator, ok),
         joining' = joining \/ joining' = [joining EXCEPT ![i] = NoChannel],
         UNCHANGED <<gen, conn, job, marker, config, boot, readFails, restarts, ended, unmarked>>
  PROVE  \/ ok /\ (\E w \in Window : Enters(i, c, w))
         \/ ~ok /\ live' = Filled({c}) /\ UNCHANGED <<handle, rows, insts>> /\ Fewer
               /\ reported' = reported \cup {c}
<1>1. PICK closed \in BOOLEAN :
        LET w == Loaded(c)
            created == w = NoChannel
            after == IF created THEN NewWindow(i, c, closed) ELSE Joined(w, i)
            joined == [handle[i] EXCEPT !.chans = @ \cup {c}]
        IN /\ ~created /\ ~On(i, c) => JoinGates(w, i, operator)
           /\ ~(On(i, c) /\ c \in handle[i].chans)
           /\ Write(ok) /\ Reported(ok, {c})
           /\ IF ok
              THEN /\ live' = [live EXCEPT ![c] = after]
                   /\ handle' = [handle EXCEPT ![i] = joined]
                   /\ rows' = [rows EXCEPT ![c] = after]
                   /\ insts' = [insts EXCEPT ![i] = Upserted(i, joined)]
              ELSE live' = Filled({c}) /\ UNCHANGED <<handle, rows, insts>>
  BY DEF JoinAs
<1>2. Fewer
  BY <1>1, WriteCases DEF Base
<1>3. CASE ~ok
  BY <1>1, <1>2, <1>3 DEF Reported
<1>4. CASE ok
  <2>1. PICK w : w = IF Loaded(c) = NoChannel THEN NewWindow(i, c, closed) ELSE Joined(Loaded(c), i)
    OBVIOUS
  <2>2. Saves(c, w) /\ Stores(i, [handle[i] EXCEPT !.chans = @ \cup {c}])
    BY <1>1, <1>4, <2>1 DEF Saves, Stores
  <2>3. handle[i].nick \in Nicks /\ ended[c] \in Nat
    BY ClientTypes DEF Connected, Active, Base, TypeOK
  <2>4. /\ w \in Window
        /\ Members(w) = Members(Loaded(c)) \cup {i} /\ w.nick[i] = handle[i].nick
        /\ \A j \in Members(Loaded(c)) \ {i} : w.nick[j] = Loaded(c).nick[j]
        /\ w.born = IF Loaded(c) = NoChannel THEN ended[c] ELSE Loaded(c).born
        /\ i \notin w.invites \/ i \in Members(Loaded(c))
    <3>1. CASE Loaded(c) = NoChannel
      BY <3>1, <2>1, <2>3, NewWindowMade DEF Members
    <3>2. CASE Loaded(c) # NoChannel
      <4>1. Loaded(c) \in Window
        BY <3>2, RecordTypes DEF Base
      <4>2. PICK u : u = Loaded(c)
        OBVIOUS
      <4>3. u \in Window /\ w = Joined(u, i)
        BY <3>2, <4>1, <4>2, <2>1
      <4>4. /\ w \in Window
            /\ Members(w) = Members(u) \cup {i} /\ w.nick[i] = handle[i].nick
            /\ \A j \in Members(u) \ {i} : w.nick[j] = u.nick[j]
            /\ w.invites = IF i \in Members(u) THEN u.invites ELSE u.invites \ {i}
            /\ w.born = u.born
        BY <4>3, <2>3, JoinedWindow
      <4>5. i \notin w.invites \/ i \in Members(u)
        BY <4>4
      <4>. QED BY <3>2, <4>2, <4>4, <4>5
    <3>. QED BY <3>1, <3>2
  <2>5. live[c] # NoChannel /\ live[c].closed /\ i \notin Members(live[c]) =>
          i \in live[c].invites \/ joining[i] = c
    BY <1>1 DEF Loaded, On, JoinGates
  <2>6. reported' = reported
    BY <1>1, <1>4 DEF Reported
  <2>7. Enters(i, c, w)
    BY <1>2, <2>2, <2>4, <2>5, <2>6 DEF Enters, Otherwise
  <2>. QED BY <1>4, <2>4, <2>7
<1>. QED BY <1>3, <1>4

LEMMA JoinMoves ==
  ASSUME Base, NEW i \in Actors, NEW c \in Channels, Join(i, c)
  PROVE  Moves
<1>1. /\ Running /\ Active(i) /\ Otherwise
      /\ UNCHANGED <<gen, joining, ended>>
      /\ \E ok \in BOOLEAN : JoinAs(i, c, FALSE, ok)
  BY DEF Join, Otherwise
<1>2. PICK ok \in BOOLEAN : JoinAs(i, c, FALSE, ok)
  BY <1>1
<1>3. UNCHANGED <<gen, conn, job, marker, config, boot, readFails, restarts, ended, unmarked>>
  BY <1>1 DEF Otherwise
<1>4. \/ \E w \in Window : Enters(i, c, w)
      \/ /\ live' = Filled({c}) /\ UNCHANGED <<handle, rows, insts>> /\ Fewer
         /\ reported' = reported \cup {c}
  BY <1>1, <1>2, <1>3, JoinCases
<1>5. CASE \E w \in Window : Enters(i, c, w)
  BY <1>5 DEF Moves
<1>6. CASE /\ live' = Filled({c}) /\ UNCHANGED <<handle, rows, insts>> /\ Fewer
           /\ reported' = reported \cup {c}
  <2>1. reported' \subseteq Channels
    BY <1>6 DEF Base, TypeOK
  <2>2. Fills({c})
    BY <1>1, <1>6, <2>1 DEF Fills, Running
  <2>. QED BY <2>2 DEF Moves
<1>. QED BY <1>4, <1>5, <1>6

LEMMA AdmitMoves ==
  ASSUME Base, NEW m \in Models, Admit(m)
  PROVE  Moves
<1>. DEFINE c == joining[m]
<1>1. /\ Running /\ Active(m) /\ Otherwise /\ m \in Actors
      /\ UNCHANGED <<gen, ended>>
      /\ joining' = [joining EXCEPT ![m] = NoChannel]
      /\ \/ JoinAs(m, c, TRUE, TRUE)
         \/ live' = Filled({c}) /\ UNCHANGED <<handle, rows, insts, fails, reported>>
  BY DEF Admit, Otherwise, Actors
<1>2. c \in Channels
  BY DEF Admit, Base, TypeOK, Actors
<1>3. CASE JoinAs(m, c, TRUE, TRUE)
  <2>1. \E w \in Window : Enters(m, c, w)
    BY <1>1, <1>2, <1>3, JoinCases DEF Otherwise
  <2>. QED BY <1>1, <1>2, <2>1 DEF Moves
<1>4. CASE live' = Filled({c}) /\ UNCHANGED <<handle, rows, insts, fails, reported>>
  <2>1. reported' \subseteq Channels /\ fails \in Nat
    BY <1>4 DEF Base, TypeOK
  <2>2. Fewer
    BY <1>4, <2>1 DEF Fewer
  <2>3. Fills({c})
    BY <1>1, <1>4, <2>1, <2>2 DEF Fills, Running
  <2>. QED BY <1>2, <2>3 DEF Moves
<1>. QED BY <1>1, <1>3, <1>4

LEMMA DepartureMoves ==
  ASSUME Base, NEW i \in Actors, NEW c \in Channels,
         Running, Active(i), On(i, c), CommitDeparture(i, c), Otherwise, UNCHANGED joining
  PROVE  Moves
<1>1. PICK ok \in BOOLEAN :
        LET w == Without(Loaded(c), i)
            left == Departed(i, c)
            after == IF Emptied(w) THEN NoChannel ELSE w
            ends == IF ok /\ Emptied(w) THEN 1 ELSE 0
        IN /\ Write(ok) /\ Reported(ok, {c})
           /\ gen' = [gen EXCEPT ![c] = @ + ends]
           /\ ended' = [ended EXCEPT ![c] = @ + ends]
           /\ IF ok
              THEN /\ live' = [live EXCEPT ![c] = after]
                   /\ handle' = [handle EXCEPT ![i] = left]
                   /\ rows' = [rows EXCEPT ![c] = after]
                   /\ insts' = [insts EXCEPT ![i] = Upserted(i, left)]
              ELSE live' = Filled({c}) /\ UNCHANGED <<handle, rows, insts>>
  BY DEF CommitDeparture
<1>2. Fewer
  BY <1>1, WriteCases DEF Base
<1>3. CASE ok
  <2>1. Departs(i, c)
    BY <1>1, <1>2, <1>3 DEF Departs, Saves, Stores, Emptied, Reported
  <2>. QED BY <2>1 DEF Moves
<1>4. CASE ~ok
  <2>1. gen' = [gen EXCEPT ![c] = @ + 0] /\ ended' = [ended EXCEPT ![c] = @ + 0]
    BY <1>1, <1>4
  <2>2. gen' = gen /\ ended' = ended
    BY <2>1 DEF Base, TypeOK
  <2>3. reported \subseteq reported' /\ reported' \subseteq Channels
    BY <1>1, <1>4 DEF Base, TypeOK, Reported
  <2>4. Fills({c})
    BY <1>1, <1>2, <1>4, <2>2, <2>3 DEF Fills, Running
  <2>. QED BY <2>4 DEF Moves
<1>. QED BY <1>3, <1>4

LEMMA UpdateMoves ==
  ASSUME Base, NEW c \in Channels, NEW w \in Window, Running, Loaded(c) # NoChannel,
         w.nick = Loaded(c).nick, w.born = Loaded(c).born, PersistWindow(c, w)
  PROVE  Moves
<1>1. PICK ok \in BOOLEAN :
        /\ Write(ok) /\ Reported(ok, {c})
        /\ live' = [live EXCEPT ![c] = IF ok THEN w ELSE Loaded(c)]
        /\ rows' = IF ok THEN [rows EXCEPT ![c] = w] ELSE rows
        /\ UNCHANGED <<gen, handle, conn, joining, job, insts, marker, config, boot,
                       readFails, restarts, ended, unmarked>>
  BY DEF PersistWindow
<1>2. Fewer /\ Otherwise
  BY <1>1, WriteCases DEF Base, Otherwise
<1>3. CASE ok
  <2>1. Updates(c, w)
    BY <1>1, <1>2, <1>3 DEF Updates, Saves, Reported
  <2>. QED BY <2>1 DEF Moves
<1>4. CASE ~ok
  <2>1. live' = Filled({c})
    BY <1>1, <1>4 DEF Filled, Base, TypeOK
  <2>2. reported \subseteq reported' /\ reported' \subseteq Channels
    BY <1>1, <1>4 DEF Base, TypeOK, Reported
  <2>3. Fills({c})
    BY <1>1, <1>2, <1>4, <2>1, <2>2 DEF Fills, Running
  <2>. QED BY <2>3 DEF Moves
<1>. QED BY <1>3, <1>4

LEMMA InviteMoves ==
  ASSUME Base, NEW i \in Actors, NEW t \in Actors, NEW c \in Channels, Invite(i, t, c)
  PROVE  Moves
<1>1. Running /\ Loaded(c) # NoChannel
  BY DEF Invite, On, Members
<1>2. PICK w : w = Loaded(c)
  OBVIOUS
<1>3. w \in Window
  BY <1>1, <1>2, RecordTypes DEF Base
<1>9. PICK v : v = w.invites \cup {t}
  OBVIOUS
<1>4. PICK g : g = [nick |-> w.nick, ops |-> w.ops, invites |-> v,
                    closed |-> w.closed, born |-> w.born]
  OBVIOUS
<1>5. PersistWindow(c, [w EXCEPT !.invites = @ \cup {t}])
  BY <1>2 DEF Invite
<1>6. [w EXCEPT !.invites = @ \cup {t}] = g
  <2>1. [w EXCEPT !.invites = v] = g
    BY <1>3, <1>4, WindowFields
  <2>. QED BY <1>9, <2>1
<1>7. /\ w.nick \in [Members(w) -> Nicks] /\ Members(w) \in SUBSET Actors
      /\ w.ops \in SUBSET Members(w) /\ v \in SUBSET Actors
      /\ w.closed \in BOOLEAN /\ w.born \in Nat
  BY <1>3, <1>9, WindowFields
<1>8. g \in Window
  BY <1>4, <1>7, WindowMade
<1>. QED BY <1>1, <1>2, <1>4, <1>5, <1>6, <1>8, UpdateMoves

LEMMA ModeMoves ==
  ASSUME Base, NEW i \in Actors, NEW c \in Channels, SetInviteOnly(i, c)
  PROVE  Moves
<1>1. Running /\ Loaded(c) # NoChannel
  BY DEF SetInviteOnly
<1>2. PICK w : w = Loaded(c)
  OBVIOUS
<1>3. w \in Window
  BY <1>1, <1>2, RecordTypes DEF Base
<1>4. PICK closed \in BOOLEAN : PersistWindow(c, [w EXCEPT !.closed = closed])
  BY <1>2 DEF SetInviteOnly
<1>5. PICK g : g = [nick |-> w.nick, ops |-> w.ops, invites |-> w.invites,
                    closed |-> closed, born |-> w.born]
  OBVIOUS
<1>6. [w EXCEPT !.closed = closed] = g
  BY <1>3, <1>5, WindowFields
<1>7. /\ w.nick \in [Members(w) -> Nicks] /\ Members(w) \in SUBSET Actors
      /\ w.ops \in SUBSET Members(w) /\ w.invites \in SUBSET Actors /\ w.born \in Nat
  BY <1>3, WindowFields
<1>8. g \in Window
  BY <1>5, <1>7, WindowMade
<1>. QED BY <1>1, <1>2, <1>4, <1>5, <1>6, <1>8, UpdateMoves

LEMMA OperatorMoves ==
  ASSUME Base, NEW i \in Actors, NEW t \in Actors, NEW c \in Channels, SetOperator(i, t, c)
  PROVE  Moves
<1>1. Running /\ Loaded(c) # NoChannel
  BY DEF SetOperator
<1>2. PICK w : w = Loaded(c)
  OBVIOUS
<1>3. w \in Window
  BY <1>1, <1>2, RecordTypes DEF Base
<1>4. PICK add \in BOOLEAN :
        PersistWindow(c, [w EXCEPT !.ops = IF ~add THEN @ \ {t} ELSE @ \cup ({t} \cap DOMAIN w.nick)])
  BY <1>2 DEF SetOperator
<1>5. PICK o : o = IF ~add THEN w.ops \ {t} ELSE w.ops \cup ({t} \cap DOMAIN w.nick)
  OBVIOUS
<1>6. PICK g : g = [nick |-> w.nick, ops |-> o, invites |-> w.invites,
                    closed |-> w.closed, born |-> w.born]
  OBVIOUS
<1>7. [w EXCEPT !.ops = IF ~add THEN @ \ {t} ELSE @ \cup ({t} \cap DOMAIN w.nick)] = g
  <2>1. [w EXCEPT !.ops = o] = g
    BY <1>3, <1>6, WindowFields
  <2>. QED BY <1>5, <2>1
<1>8. /\ w.nick \in [Members(w) -> Nicks] /\ Members(w) \in SUBSET Actors
      /\ w.invites \in SUBSET Actors /\ w.closed \in BOOLEAN /\ w.born \in Nat
  BY <1>3, WindowFields
<1>9. o \in SUBSET Members(w)
  BY <1>3, <1>5, WindowFields
<1>10. g \in Window
  BY <1>6, <1>8, <1>9, WindowMade
<1>. QED BY <1>1, <1>2, <1>4, <1>6, <1>7, <1>10, UpdateMoves

LEMMA NickMoves ==
  ASSUME Base, NEW i \in Actors, NEW n \in Nicks, Nick(i, n)
  PROVE  Moves
<1>. DEFINE chans == handle[i].chans
            named == [handle[i] EXCEPT !.nick = n]
<1>1. PICK ok \in BOOLEAN :
        /\ Write(ok) /\ Reported(ok, chans)
        /\ IF ok
           THEN /\ handle' = [handle EXCEPT ![i] = named]
                /\ insts' = [insts EXCEPT ![i] = Upserted(i, named)]
                /\ rows' = [c \in Channels |-> IF c \in chans THEN Renamed(Loaded(c), i, n)
                                              ELSE rows[c]]
                /\ live' = [c \in Channels |-> IF c \in chans THEN Renamed(Loaded(c), i, n)
                                              ELSE live[c]]
           ELSE live' = Filled(chans) /\ UNCHANGED <<handle, insts, rows>>
  BY DEF Nick
<1>2. /\ Running /\ Active(i) /\ NickAvailable(n, {i})
      /\ \A c \in chans : Loaded(c) # NoChannel
      /\ Otherwise /\ UNCHANGED <<gen, joining, ended>>
  BY DEF Nick, Otherwise
<1>3. Fewer
  BY <1>1, WriteCases DEF Base
<1>4. chans \subseteq Channels
  BY ClientTypes
<1>5. CASE ok
  <2>1. Renames(i, n)
    BY <1>1, <1>2, <1>3, <1>5 DEF Renames, Stores, Reported
  <2>. QED BY <2>1 DEF Moves
<1>6. CASE ~ok
  <2>1. reported \subseteq reported' /\ reported' \subseteq Channels
    BY <1>1, <1>4, <1>6 DEF Base, TypeOK, Reported
  <2>2. Fills(chans)
    BY <1>1, <1>2, <1>3, <1>6, <2>1 DEF Fills, Running
  <2>. QED BY <1>4, <2>2 DEF Moves
<1>. QED BY <1>5, <1>6

LEMMA MarkerCleared ==
  ASSUME Base, NEW i \in Actors, NEW clean \in BOOLEAN, ClearMarker(i, clean)
  PROVE  /\ i # User => UNCHANGED marker
         /\ marker' \in BOOLEAN /\ Fewer
<1>1. CASE i = User /\ clean
  <2>1. PICK ok \in BOOLEAN : Write(ok) /\ marker' = (marker /\ ~ok)
    BY <1>1 DEF ClearMarker
  <2>. QED BY <1>1, <2>1, WriteCases DEF Base
<1>2. CASE ~(i = User /\ clean)
  <2>1. UNCHANGED <<fails, marker>>
    BY <1>2 DEF ClearMarker
  <2>. QED BY <2>1 DEF Fewer, Base, TypeOK
<1>. QED BY <1>1, <1>2

LEMMA QuitMoves ==
  ASSUME Base, NEW i \in Actors, Quit(i)
  PROVE  Moves
<1>1. /\ Running /\ Active(i)
      /\ \A c \in handle[i].chans : Loaded(c) # NoChannel
      /\ UNCHANGED <<joining, job, config, boot, restarts, unmarked, reported>>
  BY DEF Quit
<1>2. CASE InstanceDeleted(i, {}) /\ ClearMarker(i, readFails' = readFails)
  <2>1. {c \in handle[i].chans : Loaded(c) = NoChannel} = {}
    BY <1>1
  <2>2. (readFails' = readFails) \in BOOLEAN
    OBVIOUS
  <2>3. /\ i # User => UNCHANGED marker
        /\ marker' \in BOOLEAN /\ Fewer
    BY <1>2, <2>2, MarkerCleared
  <2>4. InstanceDeleted(i, {c \in handle[i].chans : Loaded(c) = NoChannel})
    BY <1>2, <2>1
  <2>5. Deletes(i)
    BY <1>1, <2>3, <2>4 DEF Deletes
  <2>. QED BY <2>5 DEF Moves
<1>3. CASE /\ Write(FALSE)
           /\ live' = Filled(handle[i].chans)
           /\ UNCHANGED <<gen, handle, conn, rows, insts, marker, readFails, ended>>
  <2>1. Fewer
    BY <1>3, WriteCases DEF Base
  <2>2. Fills(handle[i].chans)
    BY <1>1, <1>3, <2>1 DEF Fills, Running, Otherwise, Base, TypeOK
  <2>. QED BY <2>2, ClientTypes DEF Moves
<1>. QED BY <1>2, <1>3 DEF Quit

LEMMA ForceQuitMoves ==
  ASSUME Base, NEW i \in Actors, ForceQuit(i)
  PROVE  Moves
<1>. DEFINE unloaded == {c \in handle[i].chans : Loaded(c) = NoChannel}
<1>1. /\ Running /\ Active(i)
      /\ UNCHANGED <<joining, config, boot, restarts, reported>>
  BY DEF ForceQuit
<1>2. CASE /\ InstanceDeleted(i, unloaded)
           /\ ClearMarker(i, unloaded = {} /\ readFails' = readFails)
           /\ UNCHANGED <<job, unmarked>>
  <2>1. (unloaded = {} /\ readFails' = readFails) \in BOOLEAN
    OBVIOUS
  <2>2. /\ i # User => UNCHANGED marker
        /\ marker' \in BOOLEAN /\ Fewer
    BY <1>2, <2>1, MarkerCleared
  <2>3. Deletes(i)
    BY <1>1, <1>2, <2>2 DEF Deletes
  <2>. QED BY <2>3 DEF Moves
<1>3. CASE /\ Write(FALSE)
           /\ live' = Filled(handle[i].chans)
           /\ job' = [kind |-> IF i = User THEN "quit" ELSE "mark", who |-> i,
                      todo |-> handle[i].chans \ unloaded, clean |-> unloaded = {}]
           /\ conn' = [conn EXCEPT ![i] = Retired(i)]
           /\ unmarked' = IF i = User THEN unmarked \cup {i} ELSE unmarked
           /\ UNCHANGED <<gen, handle, rows, insts, marker, readFails, ended>>
  <2>1. Fewer
    BY <1>3, WriteCases DEF Base
  <2>2. Forced(i)
    BY <1>1, <1>3, <2>1 DEF Forced
  <2>. QED BY <2>2 DEF Moves
<1>. QED BY <1>2, <1>3 DEF ForceQuit

LEMMA RegisterMoves ==
  ASSUME Base, NEW m \in Models, NEW n \in Nicks, NEW c \in Channels, Register(m, n, c)
  PROVE  Moves
<1>1. PICK ok \in BOOLEAN :
        /\ Write(ok)
        /\ IF ok
           THEN /\ handle' = [handle EXCEPT ![m] = [nick |-> n, chans |-> {}]]
                /\ insts' = [insts EXCEPT ![m] = Row(handle'[m], FALSE)]
                /\ conn' = [conn EXCEPT ![m] = "registered"]
                /\ joining' = [joining EXCEPT ![m] = c]
           ELSE UNCHANGED <<handle, insts, conn, joining>>
  BY DEF Register
<1>2. /\ Running /\ conn[m] = "none" /\ NickAvailable(n, {})
      /\ live' = Filled({c})
      /\ UNCHANGED <<gen, job, rows, marker, config, boot, readFails, restarts,
                     ended, unmarked, reported>>
  BY DEF Register
<1>3. Fewer
  BY <1>1, WriteCases DEF Base
<1>4. CASE ok
  <2>1. handle'[m] = [nick |-> n, chans |-> {}]
    BY <1>1, <1>4 DEF Base, TypeOK, Actors
  <2>2. insts' = [insts EXCEPT ![m] = [nick |-> n, chans |-> {}, pending |-> FALSE]]
    BY <1>1, <1>4, <2>1 DEF Row
  <2>3. Registers(m, n, c)
    BY <1>1, <1>2, <1>3, <1>4, <2>2 DEF Registers
  <2>. QED BY <2>3 DEF Moves
<1>5. CASE ~ok
  <2>1. Fills({c})
    BY <1>1, <1>2, <1>3, <1>5 DEF Fills, Running, Otherwise, Base, TypeOK
  <2>. QED BY <2>1 DEF Moves
<1>. QED BY <1>4, <1>5

LEMMA ReadMoves ==
  ASSUME Base, NEW c \in Channels, Read(c)
  PROVE  Moves
<1>1. Fewer
  BY DEF Read, Fewer, budget, Base, TypeOK
<1>2. Fills({c})
  BY <1>1 DEF Read, Fills, Otherwise, Base, TypeOK, durable, budget
<1>. QED BY <1>2 DEF Moves

\* Every step is a move.
LEMMA NextMoves ==
  ASSUME Base, Next
  PROVE  Moves
<1>1. CASE Commands
  <2>1. ASSUME NEW i \in Actors, NEW c \in Channels, Join(i, c) \/ Part(i, c) \/ SetInviteOnly(i, c)
        PROVE  Moves
    <3>1. CASE Part(i, c)
      BY <3>1, DepartureMoves DEF Part, Otherwise
    <3>. QED BY <2>1, <3>1, JoinMoves, ModeMoves
  <2>2. ASSUME NEW i \in Actors, NEW t \in Actors, NEW c \in Channels,
               Kick(i, t, c) \/ Invite(i, t, c) \/ SetOperator(i, t, c)
        PROVE  Moves
    <3>1. CASE Kick(i, t, c)
      BY <3>1, DepartureMoves DEF Kick, Otherwise
    <3>. QED BY <2>2, <3>1, InviteMoves, OperatorMoves
  <2>3. ASSUME NEW n \in Nicks, SaveNick(n)
        PROVE  Moves
    BY <2>3 DEF Moves
  <2>. QED BY <1>1, <2>1, <2>2, <2>3, NickMoves, QuitMoves, ForceQuitMoves DEF Commands
<1>2. CASE AddModel
  <2>1. PICK m \in Models :
          \/ \E n \in Nicks, c \in Channels : Register(m, n, c)
          \/ Attach(m) \/ Admit(m) \/ Discard(m) \/ DiscardOnLoop(m)
    BY <1>2 DEF AddModel
  <2>2. CASE Attach(m) \/ Discard(m) \/ DiscardOnLoop(m)
    BY <2>2 DEF Moves
  <2>. QED BY <2>1, <2>2, RegisterMoves, AdmitMoves
<1>3. CASE JobSteps
  BY <1>3 DEF JobSteps, Moves
<1>4. CASE Boot \/ Stop
  BY <1>4 DEF Moves
<1>5. CASE \E c \in Channels : Read(c)
  BY <1>5, ReadMoves
<1>. QED BY <1>1, <1>2, <1>3, <1>4, <1>5 DEF Next

---------------------------------------------------------------------------
(* Types                                                                   *)

LEMMA SaveTypes ==
  ASSUME TypeOK, NEW c \in Channels, NEW w \in Window \cup {NoChannel}, Saves(c, w)
  PROVE  /\ live' \in [Channels -> Window \cup {NoChannel}]
         /\ rows' \in [Channels -> Window \cup {NoChannel}]
BY DEF Saves, TypeOK

LEMMA StoreTypes ==
  ASSUME Base, NEW i \in Actors, NEW h \in Instance, Stores(i, h)
  PROVE  /\ handle' \in [Actors -> Instance \cup {NoHandle}]
         /\ insts' \in [Actors -> InstanceRow \cup {NoRow}]
BY ClientTypes DEF Stores, Base, TypeOK

LEMMA InstanceMade ==
  ASSUME NEW n \in Nicks, NEW cs \in SUBSET Channels
  PROVE  [nick |-> n, chans |-> cs] \in Instance
BY DEF Instance

LEMMA HandleChanged ==
  ASSUME Base, NEW i \in Actors
  PROVE  /\ Connected(i) => \A cs \in SUBSET Channels :
              /\ [handle[i] EXCEPT !.chans = cs] \in Instance
              /\ [handle[i] EXCEPT !.chans = cs] = [nick |-> handle[i].nick, chans |-> cs]
         /\ Connected(i) => \A n \in Nicks :
              /\ [handle[i] EXCEPT !.nick = n] \in Instance
              /\ [handle[i] EXCEPT !.nick = n] = [nick |-> n, chans |-> handle[i].chans]
         /\ \A cs \in SUBSET Channels :
              cs \subseteq handle[i].chans =>
                 [handle[i] EXCEPT !.chans = cs] \in Instance \cup {NoHandle}
<1>1. handle[i] = [nick |-> handle[i].nick, chans |-> handle[i].chans]
  BY ClientTypes
<1>2. handle[i] \in Instance \cup {NoHandle}
  BY DEF Base, TypeOK
<1>3. \A cs : [handle[i] EXCEPT !.chans = cs] = [nick |-> handle[i].nick, chans |-> cs]
  BY <1>1
<1>4. \A n : [handle[i] EXCEPT !.nick = n] = [nick |-> n, chans |-> handle[i].chans]
  BY <1>1
<1>5. handle[i] = NoHandle => handle[i].chans = {} /\ handle[i].nick = NoNick
  BY DEF NoHandle
<1>6. ASSUME NEW cs \in SUBSET Channels, cs \subseteq handle[i].chans
      PROVE  [handle[i] EXCEPT !.chans = cs] \in Instance \cup {NoHandle}
  <2>1. CASE handle[i] \in Instance
    BY <1>3, <2>1, InstanceMade DEF Instance
  <2>2. CASE handle[i] = NoHandle
    BY <1>3, <1>5, <1>6, <2>2 DEF NoHandle
  <2>. QED BY <1>2, <2>1, <2>2
<1>. QED BY <1>3, <1>4, <1>6, ClientTypes, InstanceMade

LEMMA RecordMoveTypes ==
  ASSUME Base
  PROVE  /\ \A i \in Actors, c \in Channels, w \in Window : Enters(i, c, w) => TypeOK'
         /\ \A cs \in SUBSET Channels : Fills(cs) => TypeOK'
         /\ \A i \in Actors, c \in Channels : Departs(i, c) => TypeOK'
         /\ \A c \in Channels, w \in Window : Updates(c, w) => TypeOK'
         /\ \A i \in Actors, n \in Nicks : Renames(i, n) => TypeOK'
         /\ \A n \in Nicks : SaveNick(n) => TypeOK'
<1>1. TypeOK
  BY DEF Base
<1>2. Fewer => fails' \in 0 .. MaxFails
  BY <1>1, ChannelsAssumption DEF Fewer, TypeOK
<1>3. ASSUME NEW i \in Actors, NEW c \in Channels, NEW w \in Window, Enters(i, c, w)
      PROVE  TypeOK'
  <2>1. handle[i].chans \cup {c} \in SUBSET Channels
    BY ClientTypes
  <2>2. [handle[i] EXCEPT !.chans = @ \cup {c}] \in Instance
    BY <1>3, <2>1, HandleChanged DEF Enters, Active, Connected
  <2>3. /\ live' \in [Channels -> Window \cup {NoChannel}]
        /\ rows' \in [Channels -> Window \cup {NoChannel}]
    BY <1>1, <1>3, SaveTypes DEF Enters
  <2>4. /\ handle' \in [Actors -> Instance \cup {NoHandle}]
        /\ insts' \in [Actors -> InstanceRow \cup {NoRow}]
    BY <1>3, <2>2, StoreTypes DEF Enters
  <2>5. joining' \in [Actors -> Channels \cup {NoChannel}]
    BY <1>1, <1>3 DEF Enters, TypeOK
  <2>. QED BY <1>1, <1>2, <1>3, <2>3, <2>4, <2>5 DEF Enters, Otherwise, TypeOK
<1>4. ASSUME NEW cs \in SUBSET Channels, Fills(cs)
      PROVE  TypeOK'
  <2>1. joining' \in [Actors -> Channels \cup {NoChannel}]
    BY <1>1, <1>4 DEF Fills, TypeOK
  <2>. QED BY <1>1, <1>2, <1>4, <2>1, RecordTypes DEF Fills, Otherwise, TypeOK
<1>5. ASSUME NEW i \in Actors, NEW c \in Channels, Departs(i, c)
      PROVE  TypeOK'
  <2>1. PICK w : w = Without(Loaded(c), i)
    OBVIOUS
  <2>2. Loaded(c) \in Window
    BY <1>1, <1>5, RecordTypes DEF Departs, On, Members
  <2>3. w \in Window
    BY <2>1, <2>2, WithoutWindow
  <2>4. PICK after : after = IF Members(w) = {} THEN NoChannel ELSE w
    OBVIOUS
  <2>5. PICK ends \in {0, 1} : ends = IF Members(w) = {} THEN 1 ELSE 0
    OBVIOUS
  <2>6. /\ Saves(c, after) /\ after \in Window \cup {NoChannel}
        /\ gen' = [gen EXCEPT ![c] = @ + ends] /\ ended' = [ended EXCEPT ![c] = @ + ends]
    BY <1>5, <2>1, <2>3, <2>4, <2>5 DEF Departs
  <2>7. gen' \in [Channels -> Nat] /\ ended' \in [Channels -> Nat]
    BY <1>1, <2>6 DEF TypeOK
  <2>8. /\ live' \in [Channels -> Window \cup {NoChannel}]
        /\ rows' \in [Channels -> Window \cup {NoChannel}]
    BY <1>1, <2>6, SaveTypes
  <2>9. Departed(i, c) \in Instance
    <3>1. handle[i].chans \ {c} \in SUBSET Channels
      BY ClientTypes
    <3>. QED BY <1>5, <3>1, HandleChanged DEF Departs, Departed, Active, Connected
  <2>10. /\ handle' \in [Actors -> Instance \cup {NoHandle}]
         /\ insts' \in [Actors -> InstanceRow \cup {NoRow}]
    BY <1>5, <2>9, StoreTypes DEF Departs
  <2>. QED BY <1>1, <1>2, <1>5, <2>7, <2>8, <2>10 DEF Departs, Otherwise, TypeOK
<1>6. ASSUME NEW c \in Channels, NEW w \in Window, Updates(c, w)
      PROVE  TypeOK'
  <2>1. /\ live' \in [Channels -> Window \cup {NoChannel}]
        /\ rows' \in [Channels -> Window \cup {NoChannel}]
    BY <1>1, <1>6, SaveTypes DEF Updates
  <2>. QED BY <1>1, <1>2, <1>6, <2>1 DEF Updates, Otherwise, TypeOK
<1>7. ASSUME NEW i \in Actors, NEW n \in Nicks, Renames(i, n)
      PROVE  TypeOK'
  <2>1. [handle[i] EXCEPT !.nick = n] \in Instance
    BY <1>7, HandleChanged DEF Renames, Active, Connected
  <2>2. /\ handle' \in [Actors -> Instance \cup {NoHandle}]
        /\ insts' \in [Actors -> InstanceRow \cup {NoRow}]
    BY <1>7, <2>1, StoreTypes DEF Renames
  <2>3. \A c \in Channels : c \in handle[i].chans => Renamed(Loaded(c), i, n) \in Window
    BY <1>1, <1>7, RecordTypes, RenamedWindow DEF Renames
  <2>4. /\ live' \in [Channels -> Window \cup {NoChannel}]
        /\ rows' \in [Channels -> Window \cup {NoChannel}]
    BY <1>1, <1>7, <2>3, RecordTypes DEF Renames
  <2>. QED BY <1>1, <1>2, <1>7, <2>2, <2>4 DEF Renames, Otherwise, TypeOK
<1>8. ASSUME NEW n \in Nicks, SaveNick(n)
      PROVE  TypeOK'
  BY <1>1, <1>8 DEF SaveNick, TypeOK, memory, budget
<1>. QED BY <1>3, <1>4, <1>5, <1>6, <1>7, <1>8

LEMMA JobTypes ==
  ASSUME NEW k \in {"idle", "mark", "quit", "discard", "cleanup"}, NEW i \in Actors,
         NEW cs \in SUBSET Channels, NEW b \in BOOLEAN
  PROVE  [kind |-> k, who |-> i, todo |-> cs, clean |-> b]
           \in [kind : {"idle", "mark", "quit", "discard", "cleanup"},
                who : Actors, todo : SUBSET Channels, clean : BOOLEAN]
OBVIOUS

LEMMA IdleType == Idle \in [kind : {"idle", "mark", "quit", "discard", "cleanup"},
                            who : Actors, todo : SUBSET Channels, clean : BOOLEAN]
BY DEF Idle, Actors

LEMMA DeleteTypes ==
  ASSUME Base, NEW i \in Actors, NEW unloaded,
         InstanceDeleted(i, unloaded)
  PROVE  /\ live' \in [Channels -> Window \cup {NoChannel}]
         /\ gen' \in [Channels -> Nat] /\ ended' \in [Channels -> Nat]
         /\ handle' \in [Actors -> Instance \cup {NoHandle}]
         /\ conn' \in [Actors -> ConnStates]
         /\ rows' \in [Channels -> Window \cup {NoChannel}]
         /\ insts' \in [Actors -> InstanceRow \cup {NoRow}]
         /\ readFails' \in 0 .. readFails
<1>1. PICK failed \in SUBSET handle[i].chans :
        LET chans == handle[i].chans
            destroyed == {c \in chans : DestroyedByReload(i, unloaded, failed, c)}
        IN /\ Cardinality(failed) <= readFails
           /\ readFails' = readFails - Cardinality(failed)
           /\ rows' = RowsWithout(i)
           /\ insts' = [insts EXCEPT ![i] = NoRow]
           /\ live' = [c \in Channels |->
                         IF c \notin chans THEN live[c]
                         ELSE IF c \in failed THEN NoChannel
                         ELSE FromStore(RowsWithout(i)[c])]
           /\ gen' = [c \in Channels |-> IF c \in destroyed THEN gen[c] + 1
                                         ELSE gen[c]]
           /\ ended' = [c \in Channels |-> IF c \in chans /\ Ends(i, c)
                                           THEN ended[c] + 1 ELSE ended[c]]
           /\ handle' = [handle EXCEPT ![i].chans = {}]
           /\ conn' = [conn EXCEPT ![i] = Retired(i)]
  BY DEF InstanceDeleted
<1>2. TypeOK
  BY DEF Base
<1>3. Cardinality(failed) \in Nat
  <2>1. IsFiniteSet(failed)
    BY ClientTypes, ChannelsAssumption, FS_Subset
  <2>. QED BY <2>1, FS_CardinalityType
<1>4. readFails' \in 0 .. readFails
  BY <1>1, <1>2, <1>3 DEF TypeOK
<1>5. \A c \in Channels : FromStore(RowsWithout(i)[c]) \in Window \cup {NoChannel}
  <2>1. \A w \in Window \cup {NoChannel} : FromStore(w) \in Window \cup {NoChannel}
    BY FromStoreWindow DEF FromStore
  <2>2. \A c \in Channels : RowsWithout(i)[c] \in Window \cup {NoChannel}
    BY <1>2, RecordTypes
  <2>. QED BY <2>1, <2>2
<1>6. live' \in [Channels -> Window \cup {NoChannel}]
  BY <1>1, <1>2, <1>5, RecordTypes
<1>7. gen' \in [Channels -> Nat] /\ ended' \in [Channels -> Nat]
  BY <1>1, <1>2 DEF TypeOK
<1>8. [handle[i] EXCEPT !.chans = {}] \in Instance \cup {NoHandle}
  BY HandleChanged
<1>9. handle' \in [Actors -> Instance \cup {NoHandle}]
  BY <1>1, <1>2, <1>8 DEF TypeOK
<1>10. conn' \in [Actors -> ConnStates]
  BY <1>1, <1>2 DEF TypeOK, ConnStates, Retired
<1>11. insts' \in [Actors -> InstanceRow \cup {NoRow}]
  BY <1>1, <1>2 DEF TypeOK
<1>. QED BY <1>1, <1>2, <1>4, <1>6, <1>7, <1>9, <1>10, <1>11, RecordTypes

LEMMA Marked ==
  ASSUME TypeOK, NEW i \in Actors, NEW ok \in BOOLEAN, Mark(i, ok)
  PROVE  /\ insts' \in [Actors -> InstanceRow \cup {NoRow}]
         /\ \A j \in Actors \ {i} : insts'[j] = insts[j]
         /\ insts'[i] # NoRow <=> insts[i] # NoRow
         /\ insts[i] # NoRow => /\ insts'[i].nick = insts[i].nick
                                /\ insts'[i].chans = insts[i].chans
                                /\ ok => insts'[i].pending
                                /\ ~ok => (insts'[i].pending <=> insts[i].pending)
<1>1. insts[i] \in InstanceRow \cup {NoRow}
  BY DEF TypeOK
<1>2. CASE ok /\ insts[i] # NoRow
  <2>1. PICK r : r = [insts[i] EXCEPT !.pending = TRUE]
    OBVIOUS
  <2>2. insts[i] \in InstanceRow
    BY <1>1, <1>2
  <2>3. r = [nick |-> insts[i].nick, chans |-> insts[i].chans, pending |-> TRUE]
    BY <2>1, <2>2 DEF InstanceRow
  <2>4. r \in InstanceRow
    BY <2>2, <2>3 DEF InstanceRow
  <2>5. insts' = [insts EXCEPT ![i] = r]
    BY <1>2, <2>1 DEF Mark
  <2>6. r # NoRow
    BY <2>4, ChannelsAssumption
  <2>. QED BY <1>2, <2>3, <2>4, <2>5, <2>6 DEF TypeOK
<1>3. CASE ~(ok /\ insts[i] # NoRow)
  <2>1. insts' = insts
    BY <1>3 DEF Mark
  <2>. QED BY <1>3, <2>1 DEF TypeOK
<1>. QED BY <1>2, <1>3

LEMMA ClientMoveTypes ==
  ASSUME Base
  PROVE  /\ \A i \in Actors : Deletes(i) => TypeOK'
         /\ \A i \in Actors : Forced(i) => TypeOK'
         /\ \A m \in Models, n \in Nicks, c \in Channels : Registers(m, n, c) => TypeOK'
         /\ \A m \in Models : Attach(m) \/ Discard(m) \/ DiscardOnLoop(m) => TypeOK'
<1>1. TypeOK
  BY DEF Base
<1>2. Fewer => fails' \in 0 .. MaxFails
  BY <1>1, ChannelsAssumption DEF Fewer, TypeOK
<1>3. ASSUME NEW i \in Actors, Deletes(i)
      PROVE  TypeOK'
  <2>1. InstanceDeleted(i, {c \in handle[i].chans : Loaded(c) = NoChannel})
    BY <1>3 DEF Deletes
  <2>2. readFails' \in 0 .. MaxReadFails
    BY <1>1, <2>1, DeleteTypes, ChannelsAssumption DEF TypeOK
  <2>. QED BY <1>1, <1>2, <1>3, <2>1, <2>2, DeleteTypes DEF Deletes, TypeOK
<1>4. ASSUME NEW i \in Actors, Forced(i)
      PROVE  TypeOK'
  <2>1. PICK unloaded : unloaded = {c \in handle[i].chans : Loaded(c) = NoChannel}
    OBVIOUS
  <2>2. PICK k \in {"quit", "mark"} : k = IF i = User THEN "quit" ELSE "mark"
    OBVIOUS
  <2>3. PICK b \in BOOLEAN : b <=> (unloaded = {})
    OBVIOUS
  <2>4. job' = [kind |-> k, who |-> i, todo |-> handle[i].chans \ unloaded, clean |-> b]
    BY <1>4, <2>1, <2>2, <2>3 DEF Forced
  <2>5. handle[i].chans \ unloaded \in SUBSET Channels
    BY ClientTypes
  <2>6. job' \in [kind : {"idle", "mark", "quit", "discard", "cleanup"},
                  who : Actors, todo : SUBSET Channels, clean : BOOLEAN]
    BY <2>4, <2>5
  <2>7. conn' \in [Actors -> ConnStates]
    BY <1>1, <1>4 DEF TypeOK, ConnStates, Retired, Forced
  <2>8. unmarked' \subseteq Actors
    BY <1>1, <1>4 DEF TypeOK, Forced
  <2>. QED BY <1>1, <1>2, <1>4, <2>6, <2>7, <2>8, RecordTypes DEF Forced, TypeOK
<1>5. ASSUME NEW m \in Models, NEW n \in Nicks, NEW c \in Channels, Registers(m, n, c)
      PROVE  TypeOK'
  <2>1. [nick |-> n, chans |-> {}, pending |-> FALSE] \in InstanceRow
    BY DEF InstanceRow
  <2>2. [nick |-> n, chans |-> {}] \in Instance
    BY DEF Instance
  <2>3. handle' \in [Actors -> Instance \cup {NoHandle}] /\ insts' \in [Actors -> InstanceRow \cup {NoRow}]
    BY <1>1, <1>5, <2>1, <2>2 DEF Registers, TypeOK
  <2>4. conn' \in [Actors -> ConnStates] /\ joining' \in [Actors -> Channels \cup {NoChannel}]
    BY <1>1, <1>5 DEF Registers, TypeOK, ConnStates
  <2>. QED BY <1>1, <1>2, <1>5, <2>3, <2>4, RecordTypes DEF Registers, TypeOK
<1>6. ASSUME NEW m \in Models, Attach(m)
      PROVE  TypeOK'
  BY <1>1, <1>6 DEF Attach, TypeOK, ConnStates, durable, budget
<1>7. ASSUME NEW m \in Models, Discard(m)
      PROVE  TypeOK'
  <2>1. PICK ok \in BOOLEAN : Write(ok) /\ MarkOrRemember(m, ok)
    BY <1>7 DEF Discard
  <2>2. Fewer
    BY <1>1, <2>1, WriteCases
  <2>3. conn' \in [Actors -> ConnStates]
    BY <1>1, <1>7 DEF Discard, TypeOK, ConnStates
  <2>4. m \in Actors
    BY DEF Actors
  <2>5. insts' \in [Actors -> InstanceRow \cup {NoRow}] /\ unmarked' \subseteq Actors
    BY <1>1, <2>1, <2>4, Marked DEF MarkOrRemember, TypeOK
  <2>. QED BY <1>1, <1>2, <1>7, <2>2, <2>3, <2>5 DEF Discard, TypeOK
<1>8. ASSUME NEW m \in Models, DiscardOnLoop(m)
      PROVE  TypeOK'
  <2>1. m \in Actors /\ {c \in handle[m].chans : Loaded(c) # NoChannel} \in SUBSET Channels
    BY ClientTypes DEF Actors
  <2>2. job' \in [kind : {"idle", "mark", "quit", "discard", "cleanup"},
                  who : Actors, todo : SUBSET Channels, clean : BOOLEAN]
    BY <1>8, <2>1 DEF DiscardOnLoop
  <2>. QED BY <1>1, <1>8, <2>2, RecordTypes DEF DiscardOnLoop, TypeOK, durable, budget
<1>. QED BY <1>3, <1>4, <1>5, <1>6, <1>7, <1>8

LEMMA JobMoveTypes ==
  ASSUME Base
  PROVE  /\ MarkPending => TypeOK'
         /\ \A c \in Channels : Leave(c) \/ CleanupStops(c) => TypeOK'
         /\ FinishDeparture => TypeOK'
<1>1. TypeOK
  BY DEF Base
<1>2. Fewer => fails' \in 0 .. MaxFails
  BY <1>1, ChannelsAssumption DEF Fewer, TypeOK
<1>3. job.who \in Actors /\ job.todo \in SUBSET Channels /\ job.clean \in BOOLEAN
  BY <1>1 DEF TypeOK
<1>4. /\ job = [kind |-> job.kind, who |-> job.who, todo |-> job.todo, clean |-> job.clean]
      /\ job.kind \in {"idle", "mark", "quit", "discard", "cleanup"}
  BY <1>1 DEF TypeOK
<1>5. Aborted \in [Actors -> ConnStates]
  BY <1>1 DEF Aborted, TypeOK, ConnStates
<1>6. ASSUME MarkPending
      PROVE  TypeOK'
  <2>1. PICK ok \in BOOLEAN : Write(ok) /\ MarkOrRemember(job.who, ok)
    BY <1>6 DEF MarkPending
  <2>2. Fewer
    BY <1>1, <2>1, WriteCases
  <2>3. insts' \in [Actors -> InstanceRow \cup {NoRow}] /\ unmarked' \subseteq Actors
    BY <1>1, <1>3, <2>1, Marked DEF MarkOrRemember, TypeOK
  <2>4. job' = [kind |-> "quit", who |-> job.who, todo |-> job.todo, clean |-> job.clean]
    BY <1>4, <1>6 DEF MarkPending
  <2>5. job' \in [kind : {"idle", "mark", "quit", "discard", "cleanup"},
                  who : Actors, todo : SUBSET Channels, clean : BOOLEAN]
    BY <1>3, <2>4, JobTypes
  <2>. QED BY <1>1, <1>2, <1>6, <2>2, <2>3, <2>5 DEF MarkPending, TypeOK, memory
<1>7. ASSUME NEW c \in Channels, Leave(c)
      PROVE  TypeOK'
  <2>1. PICK w : w = Without(Loaded(c), job.who)
    OBVIOUS
  <2>2. w \in Window
    BY <1>1, <1>7, <2>1, RecordTypes, WithoutWindow DEF Leave
  <2>3. PICK after \in Window \cup {NoChannel} : after = IF Emptied(w) THEN NoChannel ELSE w
    BY <2>2
  <2>4. PICK ends \in {0, 1} : ends = IF Emptied(w) THEN 1 ELSE 0
    OBVIOUS
  <2>5. PICK ok \in BOOLEAN :
          /\ Write(ok) /\ Reported(ok, {c})
          /\ live' = [live EXCEPT ![c] = after]
          /\ rows' = IF ok THEN [rows EXCEPT ![c] = after] ELSE rows
          /\ IF job.kind = "cleanup" /\ ~ok
             THEN job' = Idle /\ conn' = Aborted
             ELSE /\ job' = [job EXCEPT !.todo = @ \ {c}, !.clean = @ /\ ok]
                  /\ UNCHANGED conn
    BY <1>7, <2>1, <2>3 DEF Leave
  <2>6. gen' = [gen EXCEPT ![c] = @ + ends] /\ ended' = [ended EXCEPT ![c] = @ + ends]
    BY <1>7, <2>1, <2>4 DEF Leave
  <2>7. gen' \in [Channels -> Nat] /\ ended' \in [Channels -> Nat]
    BY <1>1, <2>6 DEF TypeOK
  <2>8. live' \in [Channels -> Window \cup {NoChannel}] /\ rows' \in [Channels -> Window \cup {NoChannel}]
    BY <1>1, <2>5 DEF TypeOK
  <2>9. Departed(job.who, c) \in Instance \cup {NoHandle}
    <3>1. handle[job.who].chans \ {c} \in SUBSET Channels
      BY <1>3, ClientTypes
    <3>. QED BY <1>3, <3>1, HandleChanged DEF Departed
  <2>10. handle' \in [Actors -> Instance \cup {NoHandle}]
    BY <1>1, <1>7, <2>9 DEF Leave, TypeOK
  <2>11. /\ job' \in [kind : {"idle", "mark", "quit", "discard", "cleanup"},
                       who : Actors, todo : SUBSET Channels, clean : BOOLEAN]
         /\ conn' \in [Actors -> ConnStates]
    <3>1. CASE job.kind = "cleanup" /\ ~ok
      BY <1>5, <2>5, <3>1, IdleType
    <3>2. CASE ~(job.kind = "cleanup" /\ ~ok)
      <4>1. PICK b \in BOOLEAN : b <=> (job.clean /\ ok)
        OBVIOUS
      <4>2. job' = [job EXCEPT !.todo = @ \ {c}, !.clean = b]
        BY <1>3, <2>5, <3>2, <4>1
      <4>3. job' = [kind |-> job.kind, who |-> job.who, todo |-> job.todo \ {c}, clean |-> b]
        BY <1>4, <4>2
      <4>4. job.todo \ {c} \in SUBSET Channels
        BY <1>3
      <4>. QED BY <1>1, <1>3, <1>4, <2>5, <3>2, <4>3, <4>4 DEF TypeOK
    <3>. QED BY <3>1, <3>2
  <2>12. Fewer /\ reported' \subseteq Channels
    BY <1>1, <2>5, WriteCases DEF Reported, TypeOK
  <2>. QED BY <1>1, <1>2, <1>7, <2>7, <2>8, <2>10, <2>11, <2>12 DEF Leave, TypeOK
<1>8. ASSUME NEW c \in Channels, CleanupStops(c)
      PROVE  TypeOK'
  BY <1>1, <1>5, <1>8, IdleType DEF CleanupStops, TypeOK, durable, budget
<1>9. ASSUME FinishDeparture
      PROVE  TypeOK'
  <2>. DEFINE i == job.who
  <2>1. handle' = [handle EXCEPT ![i].chans = {}] /\ conn' = [conn EXCEPT ![i] = Retired(i)]
    BY <1>9 DEF FinishDeparture
  <2>2. [handle[i] EXCEPT !.chans = {}] \in Instance \cup {NoHandle}
    BY <1>3, HandleChanged
  <2>3. handle' \in [Actors -> Instance \cup {NoHandle}] /\ conn' \in [Actors -> ConnStates]
    BY <1>1, <1>3, <2>1, <2>2 DEF TypeOK, ConnStates, Retired
  <2>4. joining' \in [Actors -> Channels \cup {NoChannel}]
    BY <1>1, <1>9 DEF FinishDeparture, TypeOK
  <2>5. DoneAfterAll(i) \subseteq Actors
    BY <1>1 DEF DoneAfterAll, TypeOK
  <2>6. Fewer /\ marker' \in BOOLEAN /\ rows' \in [Channels -> Window \cup {NoChannel}]
        /\ insts' \in [Actors -> InstanceRow \cup {NoRow}] /\ unmarked' \subseteq Actors
    <3>1. CASE /\ ClearMarker(i, job.clean)
               /\ rows' = RowsWithout(i)
               /\ insts' = [insts EXCEPT ![i] = NoRow]
               /\ unmarked' = DoneAfterAll(i)
      <4>1. Fewer /\ marker' \in BOOLEAN
        BY <1>3, <3>1, MarkerCleared
      <4>. QED BY <1>1, <2>5, <3>1, <4>1, RecordTypes DEF TypeOK
    <3>2. CASE Write(FALSE) /\ UNCHANGED <<rows, insts, marker, unmarked>>
      BY <1>1, <3>2, WriteCases DEF TypeOK
    <3>3. CASE /\ \E ok \in BOOLEAN :
                    /\ fails >= IF ok THEN 1 ELSE 2
                    /\ fails' = fails - IF ok THEN 1 ELSE 2
                    /\ Mark(i, ok)
                    /\ unmarked' = IF ok THEN DoneAfterAll(i) ELSE unmarked
               /\ UNCHANGED <<rows, marker>>
      <4>1. PICK ok \in BOOLEAN :
              /\ fails >= IF ok THEN 1 ELSE 2
              /\ fails' = fails - IF ok THEN 1 ELSE 2
              /\ Mark(i, ok)
              /\ unmarked' = IF ok THEN DoneAfterAll(i) ELSE unmarked
        BY <3>3
      <4>2. Fewer
        BY <1>1, <4>1 DEF Fewer, TypeOK
      <4>3. insts' \in [Actors -> InstanceRow \cup {NoRow}]
        BY <1>1, <1>3, <4>1, Marked
      <4>. QED BY <1>1, <2>5, <3>3, <4>1, <4>2, <4>3 DEF TypeOK
    <3>. QED BY <1>9, <3>1, <3>2, <3>3 DEF FinishDeparture
  <2>. QED BY <1>1, <1>2, <1>9, <2>3, <2>4, <2>6, IdleType DEF FinishDeparture, TypeOK
<1>. QED BY <1>6, <1>7, <1>8, <1>9

LEMMA BootMoveTypes ==
  ASSUME Base
  PROVE  Boot \/ Stop => TypeOK'
<1>1. TypeOK
  BY DEF Base
<1>2. Fewer => fails' \in 0 .. MaxFails
  BY <1>1, ChannelsAssumption DEF Fewer, TypeOK
<1>3. User \in Actors
  BY DEF Actors
<1>4. Aborted \in [Actors -> ConnStates]
  BY <1>1 DEF Aborted, TypeOK, ConnStates
<1>5. ASSUME AttachUser
      PROVE  TypeOK'
  <2>1. handle' = [handle EXCEPT ![User] = [nick |-> config, chans |-> {}]]
    BY <1>5 DEF AttachUser
  <2>2. handle'[User] = [nick |-> config, chans |-> {}]
    BY <1>1, <1>3, <2>1 DEF TypeOK
  <2>3. [nick |-> config, chans |-> {}] \in Instance
    BY <1>1 DEF TypeOK, Instance
  <2>4. Row(handle'[User], FALSE) \in InstanceRow
    BY <1>1, <2>2 DEF TypeOK, Row, InstanceRow
  <2>5. handle' \in [Actors -> Instance \cup {NoHandle}]
    BY <1>1, <2>1, <2>3 DEF TypeOK
  <2>6. insts' \in [Actors -> InstanceRow \cup {NoRow}]
    BY <1>1, <1>5, <2>4 DEF AttachUser, TypeOK
  <2>7. conn' \in [Actors -> ConnStates]
    BY <1>1, <1>5 DEF AttachUser, TypeOK, ConnStates
  <2>. QED BY <1>1, <1>5, <2>5, <2>6, <2>7 DEF AttachUser, TypeOK, budget
<1>6. ASSUME NEW m \in Models, PurgePending(m)
      PROVE  TypeOK'
  BY <1>1, <1>6, RecordTypes DEF PurgePending, TypeOK, ConnStates, budget
<1>7. ASSUME StartModels
      PROVE  TypeOK'
  <2>1. PICK left : left = {m \in Models : insts[m] # NoRow /\ insts[m].pending}
    OBVIOUS
  <2>2. Cardinality(left) \in Nat
    BY <2>1, ChannelsAssumption, FS_Subset, FS_CardinalityType
  <2>7. Cardinality(left) <= fails /\ fails' = fails - Cardinality(left)
    BY <1>7, <2>1 DEF StartModels
  <2>3. fails' \in 0 .. MaxFails
    BY <1>1, <2>2, <2>7, ChannelsAssumption DEF TypeOK
  <2>4. \A m \in Models : Resolves(m) => [nick |-> insts[m].nick, chans |-> insts[m].chans] \in Instance
    BY <1>1 DEF Resolves, TypeOK, InstanceRow, Instance, Actors
  <2>5. handle' \in [Actors -> Instance \cup {NoHandle}]
    BY <1>1, <1>7, <2>4 DEF StartModels, TypeOK
  <2>6. conn' \in [Actors -> ConnStates]
    BY <1>1, <1>7 DEF StartModels, TypeOK, ConnStates
  <2>. QED BY <1>1, <1>7, <2>3, <2>5, <2>6 DEF StartModels, TypeOK, durable
<1>8. ASSUME Cleanup
      PROVE  TypeOK'
  <2>1. StaleMemberships \in SUBSET Channels
    BY DEF StaleMemberships
  <2>2. job' \in [kind : {"idle", "mark", "quit", "discard", "cleanup"},
                  who : Actors, todo : SUBSET Channels, clean : BOOLEAN]
    BY <1>3, <1>8, <2>1 DEF Cleanup
  <2>. QED BY <1>1, <1>8, <2>2, RecordTypes DEF Cleanup, TypeOK, durable, budget
<1>9. ASSUME Reconciled
      PROVE  TypeOK'
  BY <1>1, <1>9, IdleType DEF Reconciled, TypeOK, ConnStates, durable, budget
<1>10. ASSUME Reactivate
       PROVE  TypeOK'
  <2>1. PICK ok \in BOOLEAN :
          /\ Write(ok)
          /\ insts' = [insts EXCEPT ![User] = IF ok THEN Row(handle[User], FALSE) ELSE NoRow]
          /\ conn' = [conn EXCEPT ![User] = IF ok THEN "registered" ELSE @]
    BY <1>10 DEF Reactivate
  <2>2. handle[User].nick \in Nicks /\ handle[User].chans \in SUBSET Channels
    BY <1>3, <1>10, ClientTypes DEF Reactivate, Base, RowInv
  <2>3. handle[User] \in Instance
    BY <1>3, <2>2, ClientTypes, InstanceMade
  <2>4. Row(handle[User], FALSE) \in InstanceRow
    BY <2>2 DEF Row, InstanceRow
  <2>5. insts' \in [Actors -> InstanceRow \cup {NoRow}]
    BY <1>1, <2>1, <2>4 DEF TypeOK
  <2>6. conn' \in [Actors -> ConnStates]
    BY <1>1, <2>1 DEF TypeOK, ConnStates
  <2>7. Fewer
    BY <1>1, <2>1, WriteCases
  <2>. QED BY <1>1, <1>2, <1>10, <2>5, <2>6, <2>7, RecordTypes DEF Reactivate, TypeOK
<1>11. ASSUME Activate
       PROVE  TypeOK'
  <2>1. PICK ok \in BOOLEAN :
          /\ Write(ok)
          /\ marker' = (marker \/ ok)
          /\ boot' = IF ok THEN "connected" ELSE boot
          /\ conn' = IF ok THEN [conn EXCEPT ![User] = "active"] ELSE Aborted
    BY <1>11 DEF Activate
  <2>2. conn' \in [Actors -> ConnStates]
    BY <1>1, <1>4, <2>1 DEF TypeOK, ConnStates
  <2>3. boot' \in {"down", "starting", "running", "connected"}
    BY <1>1, <2>1 DEF TypeOK
  <2>4. Fewer /\ marker' \in BOOLEAN
    BY <1>1, <2>1, WriteCases
  <2>. QED BY <1>1, <1>2, <1>11, <2>2, <2>3, <2>4 DEF Activate, TypeOK
<1>12. ASSUME Stop
       PROVE  TypeOK'
  <2>1. ended' \in [Channels -> Nat]
    BY <1>1, <1>12, RecordTypes, WindowFields DEF Stop, TypeOK
  <2>2. conn' \in [Actors -> ConnStates]
    BY <1>1, <1>12 DEF Stop, TypeOK, ConnStates
  <2>3. restarts' \in 0 .. MaxRestarts
    BY <1>1, <1>12, ChannelsAssumption DEF Stop, TypeOK
  <2>. QED BY <1>1, <1>12, <2>1, <2>2, <2>3, IdleType DEF Stop, TypeOK, durable
<1>. QED BY <1>5, <1>6, <1>7, <1>8, <1>9, <1>10, <1>11, <1>12 DEF Boot

LEMMA TypeStep ==
  ASSUME Base, Moves
  PROVE  TypeOK'
BY RecordMoveTypes, ClientMoveTypes, JobMoveTypes, BootMoveTypes DEF Moves

---------------------------------------------------------------------------
(* Clients, jobs and rows                                                  *)

LEMMA Stored ==
  ASSUME Base, NEW i \in Actors, NEW h \in Instance, Stores(i, h)
  PROVE  /\ handle'[i] = h /\ insts'[i] # NoRow
         /\ insts'[i].nick = h.nick /\ insts'[i].chans = h.chans
         /\ Resolves(i) => Resolves(i)'
         /\ \A j \in Actors \ {i} :
              handle'[j] = handle[j] /\ insts'[j] = insts[j] /\ (Resolves(j)' <=> Resolves(j))
<1>1. PICK b \in BOOLEAN : b <=> (insts[i] # NoRow /\ insts[i].pending)
  OBVIOUS
<1>2. PICK r : r = [nick |-> h.nick, chans |-> h.chans, pending |-> b]
  OBVIOUS
<1>3. Upserted(i, h) = r
  BY <1>1, <1>2 DEF Upserted, Row
<1>4. r # NoRow
  BY <1>3, ClientTypes, ChannelsAssumption
<1>5. handle' = [handle EXCEPT ![i] = h] /\ insts' = [insts EXCEPT ![i] = r]
  BY <1>3 DEF Stores
<1>6. handle \in [Actors -> Instance \cup {NoHandle}] /\ insts \in [Actors -> InstanceRow \cup {NoRow}]
  BY DEF Base, TypeOK
<1>7. insts'[i] = r /\ handle'[i] = h
  BY <1>5, <1>6
<1>8. \A j \in Actors \ {i} : handle'[j] = handle[j] /\ insts'[j] = insts[j]
  BY <1>5, <1>6
<1>9. Resolves(i) => Resolves(i)'
  BY <1>1, <1>2, <1>4, <1>7 DEF Resolves
<1>. QED BY <1>2, <1>4, <1>7, <1>8, <1>9 DEF Resolves

LEMMA Deleted ==
  ASSUME Base, NEW i \in Actors, Deletes(i)
  PROVE  /\ conn' = [conn EXCEPT ![i] = Retired(i)]
         /\ handle'[i] = [nick |-> handle[i].nick, chans |-> {}]
         /\ \A j \in Actors \ {i} : handle'[j] = handle[j]
         /\ insts' = [insts EXCEPT ![i] = NoRow]
         /\ rows' = RowsWithout(i)
<1>1. /\ conn' = [conn EXCEPT ![i] = Retired(i)]
      /\ handle' = [handle EXCEPT ![i].chans = {}]
      /\ insts' = [insts EXCEPT ![i] = NoRow]
      /\ rows' = RowsWithout(i)
  BY DEF Deletes, InstanceDeleted
<1>2. handle'[i] = [handle[i] EXCEPT !.chans = {}] /\ (\A j \in Actors \ {i} : handle'[j] = handle[j])
  BY <1>1 DEF Base, TypeOK
<1>3. [handle[i] EXCEPT !.chans = {}] = [nick |-> handle[i].nick, chans |-> {}]
  BY HandleChanged DEF Deletes, Active, Connected
<1>. QED BY <1>1, <1>2, <1>3

LEMMA BootKept ==
  ASSUME Base, Up, boot' = boot,
         \A m \in Models :
           conn'[m] \in {"none", "stored", "registered", "active", "discarded", "gone"},
         boot = "running" => conn'[User] \in {"attached", "reconciled"},
         boot = "connected" => conn'[User] \in {"registered", "reconciled", "active", "retired"}
  PROVE  BootInv'
BY DEF BootInv, Up

LEMMA BootStep ==
  ASSUME Base, Moves
  PROVE  BootInv'
<1>. User \in Actors /\ Models \subseteq Actors /\ (\A m \in Models : m # User)
  BY ChannelsAssumption DEF Actors
<1>. conn \in [Actors -> ConnStates] /\ BootInv /\ JobInv
  BY DEF Base, TypeOK
<1>1. ASSUME NEW i \in Actors, NEW c \in Channels, NEW w \in Window, Enters(i, c, w)
      PROVE  BootInv'
  BY <1>1 DEF Enters, Otherwise, Running, Up, BootInv, JobInv
<1>2. ASSUME NEW cs \in SUBSET Channels, Fills(cs)
      PROVE  BootInv'
  BY <1>2 DEF Fills, Otherwise, Up, BootInv, JobInv
<1>3. ASSUME NEW i \in Actors, NEW c \in Channels, Departs(i, c)
      PROVE  BootInv'
  BY <1>3 DEF Departs, Otherwise, Running, Up, BootInv, JobInv
<1>4. ASSUME NEW c \in Channels, NEW w \in Window, Updates(c, w)
      PROVE  BootInv'
  BY <1>4 DEF Updates, Otherwise, Running, Up, BootInv, JobInv
<1>5. ASSUME NEW i \in Actors, NEW n \in Nicks, Renames(i, n)
      PROVE  BootInv'
  BY <1>5 DEF Renames, Otherwise, Running, Up, BootInv, JobInv
<1>6. ASSUME NEW n \in Nicks, SaveNick(n)
      PROVE  BootInv'
  BY <1>6 DEF SaveNick, Running, Up, memory, budget, BootInv, JobInv
<1>7. ASSUME NEW i \in Actors, Deletes(i)
      PROVE  BootInv'
  <2>1. Up /\ boot' = boot
    BY <1>7, Deleted DEF Deletes, Running, Up
  <2>2. \A j \in Actors : conn'[j] = conn[j] \/ (j = i /\ conn'[j] = Retired(i))
    BY <1>7, Deleted DEF Deletes, Running, Up
  <2>. QED BY <1>7, <2>1, <2>2, BootKept DEF BootInv, Retired, Up, Deletes, Active
<1>8. ASSUME NEW i \in Actors, Forced(i)
      PROVE  BootInv'
  <2>1. Up /\ boot' = boot
    BY <1>8 DEF Forced, Running, Up
  <2>2. \A j \in Actors : conn'[j] = conn[j] \/ (j = i /\ conn'[j] = Retired(i))
    BY <1>8 DEF Forced, Running, Up
  <2>. QED BY <1>8, <2>1, <2>2, BootKept DEF BootInv, Retired, Up, Forced, Active
<1>9. ASSUME NEW m \in Models, NEW n \in Nicks, NEW c \in Channels, Registers(m, n, c)
      PROVE  BootInv'
  BY <1>9 DEF Registers, Running, Up, BootInv, JobInv
<1>10. ASSUME NEW m \in Models, Attach(m)
       PROVE  BootInv'
  BY <1>10 DEF Attach, Up, durable, budget, BootInv, JobInv
<1>11. ASSUME NEW m \in Models, Discard(m)
       PROVE  BootInv'
  BY <1>11 DEF Discard, MarkOrRemember, Up, BootInv, JobInv
<1>12. ASSUME NEW m \in Models, DiscardOnLoop(m)
       PROVE  BootInv'
  BY <1>12 DEF DiscardOnLoop, Running, Up, durable, budget, BootInv, JobInv
<1>13. ASSUME MarkPending
       PROVE  BootInv'
  <2>1. Up /\ boot' = boot /\ conn' = conn
    BY <1>13 DEF MarkPending, memory, JobInv, Idle
  <2>. QED BY <2>1, BootKept DEF BootInv, Up
<1>14. ASSUME NEW c \in Channels, Leave(c)
       PROVE  BootInv'
  <2>1. Up /\ boot' = boot
    BY <1>14 DEF Leave, JobInv, Idle
  <2>2. conn' = conn \/ (conn' = Aborted)
    BY <1>14 DEF Leave
  <2>. QED BY <2>1, <2>2, BootKept DEF BootInv, Up, Aborted
<1>15. ASSUME NEW c \in Channels, CleanupStops(c)
       PROVE  BootInv'
  <2>1. Up /\ boot' = boot
    BY <1>15 DEF CleanupStops, JobInv, Idle
  <2>2. conn' = Aborted
    BY <1>15 DEF CleanupStops
  <2>. QED BY <2>1, <2>2, BootKept DEF BootInv, Up, Aborted
<1>16. ASSUME FinishDeparture
       PROVE  BootInv'
  <2>1. Up /\ boot' = boot
    BY <1>16 DEF FinishDeparture, JobInv, Idle
  <2>2. conn' = [conn EXCEPT ![job.who] = Retired(job.who)]
    BY <1>16 DEF FinishDeparture
  <2>3. job.who = User => conn[User] = "retired"
    BY <1>16 DEF FinishDeparture, JobInv, Idle, Retired
  <2>. QED BY <2>1, <2>2, <2>3, BootKept DEF BootInv, Up, Retired
<1>17. ASSUME AttachUser
       PROVE  BootInv'
  <2>1. conn' = [conn EXCEPT ![User] = "attached"] /\ boot = "down" /\ boot' = "starting"
        /\ UNCHANGED <<live, gen, joining, job>>
    BY <1>17 DEF AttachUser
  <2>2. \A m \in Models : insts'[m] = insts[m]
    BY <1>17 DEF AttachUser, Base, TypeOK
  <2>. QED BY <2>1, <2>2 DEF BootInv
<1>18. ASSUME NEW m \in Models, PurgePending(m)
       PROVE  BootInv'
  <2>1. conn' = [conn EXCEPT ![m] = "gone"] /\ boot = "starting" /\ boot' = "starting"
        /\ UNCHANGED <<live, gen, joining, job, handle>> /\ insts' = [insts EXCEPT ![m] = NoRow]
    BY <1>18 DEF PurgePending
  <2>2. insts \in [Actors -> InstanceRow \cup {NoRow}]
    BY DEF Base, TypeOK
  <2>. QED BY <2>1, <2>2 DEF BootInv
<1>19. ASSUME StartModels
       PROVE  BootInv'
  BY <1>19 DEF StartModels, durable, BootInv, JobInv, Resolves
<1>20. ASSUME Cleanup
       PROVE  BootInv'
  BY <1>20 DEF Cleanup, Running, Up, durable, budget, BootInv, JobInv
<1>21. ASSUME Reconciled
       PROVE  BootInv'
  <2>1. Up /\ boot' = boot
    BY <1>21 DEF Reconciled, JobInv, Idle, Up
  <2>2. conn' = [conn EXCEPT ![User] = "reconciled"]
    BY <1>21 DEF Reconciled
  <2>. QED BY <2>1, <2>2, BootKept DEF BootInv, Up
<1>22. ASSUME Reactivate
       PROVE  BootInv'
  BY <1>22 DEF Reactivate, Running, Up, BootInv, JobInv
<1>23. ASSUME Activate
       PROVE  BootInv'
  BY <1>23 DEF Activate, Up, BootInv, JobInv, Aborted
<1>24. ASSUME Stop
       PROVE  BootInv'
  BY <1>24 DEF Stop, durable, BootInv, JobInv
<1>. QED BY <1>1, <1>2, <1>3, <1>4, <1>5, <1>6, <1>7, <1>8, <1>9, <1>10, <1>11, <1>12, <1>13, <1>14, <1>15, <1>16, <1>17, <1>18, <1>19, <1>20, <1>21, <1>22, <1>23, <1>24 DEF Moves, Boot

LEMMA JobStep ==
  ASSUME Base, Moves
  PROVE  JobInv'
<1>. User \in Actors /\ Models \subseteq Actors /\ (\A m \in Models : m # User)
  BY ChannelsAssumption DEF Actors
<1>. conn \in [Actors -> ConnStates] /\ BootInv /\ JobInv
  BY DEF Base, TypeOK
<1>1. ASSUME NEW i \in Actors, NEW c \in Channels, NEW w \in Window, Enters(i, c, w)
      PROVE  JobInv'
  BY <1>1 DEF Enters, Otherwise, Running, Up, JobInv
<1>2. ASSUME NEW cs \in SUBSET Channels, Fills(cs)
      PROVE  JobInv'
  BY <1>2 DEF Fills, Otherwise, Up, BootInv, JobInv, Unclean, Idle, Retired
<1>3. ASSUME NEW i \in Actors, NEW c \in Channels, Departs(i, c)
      PROVE  JobInv'
  BY <1>3 DEF Departs, Otherwise, Running, Up, JobInv
<1>4. ASSUME NEW c \in Channels, NEW w \in Window, Updates(c, w)
      PROVE  JobInv'
  BY <1>4 DEF Updates, Otherwise, Running, Up, JobInv
<1>5. ASSUME NEW i \in Actors, NEW n \in Nicks, Renames(i, n)
      PROVE  JobInv'
  BY <1>5 DEF Renames, Otherwise, Running, Up, JobInv
<1>6. ASSUME NEW n \in Nicks, SaveNick(n)
      PROVE  JobInv'
  BY <1>6 DEF SaveNick, Running, Up, memory, budget, JobInv
<1>7. ASSUME NEW i \in Actors, Deletes(i)
      PROVE  JobInv'
  BY <1>7 DEF Deletes, Running, Up, JobInv
<1>8. ASSUME NEW i \in Actors, Forced(i)
      PROVE  JobInv'
  <2>1. PICK k \in {"quit", "mark"} : k = IF i = User THEN "quit" ELSE "mark"
    OBVIOUS
  <2>2. PICK cs : cs = handle[i].chans \ {c \in handle[i].chans : Loaded(c) = NoChannel}
    OBVIOUS
  <2>3. /\ job'.kind = k /\ job'.who = i /\ job'.todo = cs /\ cs \subseteq handle[i].chans
        /\ conn' = [conn EXCEPT ![i] = Retired(i)]
        /\ unmarked' = IF i = User THEN unmarked \cup {i} ELSE unmarked
        /\ Up' /\ handle' = handle
    BY <1>8, <2>1, <2>2 DEF Forced, Running, Up
  <2>. QED BY <2>1, <2>3 DEF JobInv, Retired, Actors
<1>9. ASSUME NEW m \in Models, NEW n \in Nicks, NEW c \in Channels, Registers(m, n, c)
      PROVE  JobInv'
  BY <1>9 DEF Registers, Running, Up, JobInv
<1>10. ASSUME NEW m \in Models, Attach(m)
       PROVE  JobInv'
  BY <1>10 DEF Attach, Up, durable, budget, BootInv, JobInv, Unclean, Idle, Retired
<1>11. ASSUME NEW m \in Models, Discard(m)
       PROVE  JobInv'
  BY <1>11 DEF Discard, MarkOrRemember, Up, BootInv, JobInv, Unclean, Idle, Retired
<1>12. ASSUME NEW m \in Models, DiscardOnLoop(m)
       PROVE  JobInv'
  BY <1>12 DEF DiscardOnLoop, Running, Up, durable, budget, BootInv, JobInv, Unclean, Idle, Retired
<1>13. ASSUME MarkPending
       PROVE  JobInv'
  <2>1. /\ job'.kind = "quit" /\ job'.who = job.who /\ job'.todo = job.todo
        /\ job.kind = "mark" /\ conn' = conn /\ handle' = handle /\ boot' = boot
    BY <1>13 DEF MarkPending, memory, Base, TypeOK
  <2>2. Up /\ job.who \in Models /\ conn[job.who] = "gone" /\ job.todo \subseteq handle[job.who].chans
    BY <2>1 DEF JobInv, Idle
  <2>. QED BY <2>1, <2>2 DEF JobInv, Retired, Up
<1>14. ASSUME NEW c \in Channels, Leave(c)
       PROVE  JobInv'
  <2>1. job.who \in Actors /\ job # Idle
    BY <1>14 DEF Leave, Idle, Base, TypeOK
  <2>2. /\ boot' = boot /\ UNCHANGED <<insts, marker, unmarked>>
        /\ handle' = [handle EXCEPT ![job.who] = Departed(job.who, c)]
    BY <1>14 DEF Leave
  <2>3. handle'[job.who].chans = handle[job.who].chans \ {c}
    <3>1. Departed(job.who, c).chans = handle[job.who].chans \ {c}
      BY <2>1, ClientTypes DEF Departed
    <3>. QED BY <2>1, <2>2, <3>1 DEF Base, TypeOK
  <2>4. CASE job' = Idle
    BY <2>4 DEF JobInv
  <2>5. CASE job' # Idle
    <3>1. PICK ok \in BOOLEAN :
            job' = [job EXCEPT !.todo = @ \ {c}, !.clean = @ /\ ok] /\ UNCHANGED conn
      BY <1>14, <2>5 DEF Leave
    <3>2. job'.kind = job.kind /\ job'.who = job.who /\ job'.todo = job.todo \ {c}
      BY <3>1 DEF Base, TypeOK
    <3>. QED BY <2>1, <2>2, <2>3, <3>1, <3>2 DEF JobInv, Up, Unclean, Retired
  <2>. QED BY <2>4, <2>5
<1>15. ASSUME NEW c \in Channels, CleanupStops(c)
       PROVE  JobInv'
  BY <1>15 DEF CleanupStops, durable, budget, BootInv, JobInv, Unclean, Idle, Retired
<1>16. ASSUME FinishDeparture
       PROVE  JobInv'
  BY <1>16 DEF FinishDeparture, BootInv, JobInv, Unclean, Idle, Retired
<1>17. ASSUME AttachUser
       PROVE  JobInv'
  BY <1>17 DEF AttachUser, budget, BootInv, JobInv, Unclean, Idle, Retired
<1>18. ASSUME NEW m \in Models, PurgePending(m)
       PROVE  JobInv'
  BY <1>18 DEF PurgePending, budget, BootInv, JobInv, Unclean, Idle, Retired
<1>19. ASSUME StartModels
       PROVE  JobInv'
  BY <1>19 DEF StartModels, durable, BootInv, JobInv, Unclean, Idle, Retired
<1>20. ASSUME Cleanup
       PROVE  JobInv'
  BY <1>20 DEF Cleanup, Running, Up, durable, budget, BootInv, JobInv, Unclean, Idle, Retired
<1>21. ASSUME Reconciled
       PROVE  JobInv'
  BY <1>21 DEF Reconciled, Up, durable, budget, BootInv, JobInv, Unclean, Idle, Retired
<1>22. ASSUME Reactivate
       PROVE  JobInv'
  BY <1>22 DEF Reactivate, Running, Up, JobInv
<1>23. ASSUME Activate
       PROVE  JobInv'
  <2>1. /\ UNCHANGED <<handle, job, unmarked>> /\ Up /\ Up' /\ conn[User] = "reconciled"
        /\ boot = "connected" => job = Idle
    BY <1>23 DEF Activate, Up
  <2>2. \A m \in Models : conn'[m] = conn[m]
    BY <1>23 DEF Activate, Aborted
  <2>3. job = Idle \/ (job.who \in Models /\ job.kind # "cleanup")
    BY <2>1 DEF JobInv, Retired, Base, TypeOK, Actors
  <2>4. CASE job = Idle
    BY <2>1, <2>4 DEF JobInv
  <2>5. CASE job.who \in Models /\ job.kind # "cleanup"
    BY <2>1, <2>2, <2>5 DEF JobInv, Retired
  <2>. QED BY <2>3, <2>4, <2>5
<1>24. ASSUME Stop
       PROVE  JobInv'
  BY <1>24 DEF Stop, durable, BootInv, JobInv, Unclean, Idle, Retired
<1>. QED BY <1>1, <1>2, <1>3, <1>4, <1>5, <1>6, <1>7, <1>8, <1>9, <1>10, <1>11, <1>12, <1>13, <1>14, <1>15, <1>16, <1>17, <1>18, <1>19, <1>20, <1>21, <1>22, <1>23, <1>24 DEF Moves, Boot

LEMMA UserRows ==
  ASSUME RowInv,
         \A m \in Models : conn'[m] = conn[m] /\ handle'[m] = handle[m] /\ insts'[m] = insts[m],
         Connected(User)' => /\ Resolves(User)'
                             /\ handle'[User].nick = insts'[User].nick
                             /\ handle'[User].chans = insts'[User].chans,
         conn'[User] = "retired" => handle'[User].nick \in Nicks,
         conn'[User] # "active" /\ ~Leaving(User)' => handle'[User].chans = {}
  PROVE  RowInv'
<1>1. \A m \in Models : (Connected(m)' <=> Connected(m)) /\ (Resolves(m)' <=> Resolves(m))
  BY DEF Connected, Resolves
<1>. QED BY <1>1 DEF RowInv, Actors

LEMMA RowStep ==
  ASSUME Base, Moves
  PROVE  RowInv'
<1>. User \in Actors /\ Models \subseteq Actors /\ (\A m \in Models : m # User)
  BY ChannelsAssumption DEF Actors
<1>. conn \in [Actors -> ConnStates] /\ BootInv /\ JobInv /\ RowInv
  BY DEF Base, TypeOK
<1>1. ASSUME NEW i \in Actors, NEW c \in Channels, NEW w \in Window, Enters(i, c, w)
      PROVE  RowInv'
  <2>1. PICK h : h = [nick |-> handle[i].nick, chans |-> handle[i].chans \cup {c}]
    OBVIOUS
  <2>2. h \in Instance /\ h = [handle[i] EXCEPT !.chans = @ \cup {c}]
    <3>1. PICK cs \in SUBSET Channels : cs = handle[i].chans \cup {c}
      BY ClientTypes
    <3>2. Connected(i)
      BY <1>1 DEF Enters, Active, Connected
    <3>3. /\ [handle[i] EXCEPT !.chans = cs] = [nick |-> handle[i].nick, chans |-> cs]
          /\ [handle[i] EXCEPT !.chans = cs] \in Instance
      BY <3>2, HandleChanged
    <3>4. h = [nick |-> handle[i].nick, chans |-> cs]
      BY <2>1, <3>1
    <3>5. h = [handle[i] EXCEPT !.chans = cs] /\ h \in Instance
      BY <3>3, <3>4
    <3>. QED BY <3>1, <3>5
  <2>3. /\ handle'[i] = h /\ Resolves(i)'
        /\ insts'[i].nick = h.nick /\ insts'[i].chans = h.chans
        /\ \A j \in Actors \ {i} :
             handle'[j] = handle[j] /\ insts'[j] = insts[j] /\ (Resolves(j)' <=> Resolves(j))
    BY <1>1, <2>2, Stored DEF Enters, RowInv, Active, Connected
  <2>4. UNCHANGED <<conn, job>> /\ conn[i] = "active"
    BY <1>1 DEF Enters, Otherwise, Active
  <2>. QED BY <2>1, <2>3, <2>4 DEF RowInv, Connected, Leaving
<1>2. ASSUME NEW cs \in SUBSET Channels, Fills(cs)
      PROVE  RowInv'
  BY <1>2 DEF Fills, Otherwise, Up, RowInv, Connected, Resolves, Leaving, Idle, JobInv
<1>3. ASSUME NEW i \in Actors, NEW c \in Channels, Departs(i, c)
      PROVE  RowInv'
  <2>1. PICK h : h = [nick |-> handle[i].nick, chans |-> handle[i].chans \ {c}]
    OBVIOUS
  <2>2. h \in Instance /\ h = Departed(i, c)
    <3>1. PICK cs \in SUBSET Channels : cs = handle[i].chans \ {c}
      BY ClientTypes
    <3>2. Connected(i)
      BY <1>3 DEF Departs, Active, Connected
    <3>3. /\ [handle[i] EXCEPT !.chans = cs] = [nick |-> handle[i].nick, chans |-> cs]
          /\ [handle[i] EXCEPT !.chans = cs] \in Instance
      BY <3>2, HandleChanged
    <3>4. h = [nick |-> handle[i].nick, chans |-> cs]
      BY <2>1, <3>1
    <3>5. h = [handle[i] EXCEPT !.chans = cs] /\ h \in Instance
      BY <3>3, <3>4
    <3>. QED BY <3>1, <3>5 DEF Departed
  <2>3. /\ handle'[i] = h /\ Resolves(i)'
        /\ insts'[i].nick = h.nick /\ insts'[i].chans = h.chans
        /\ \A j \in Actors \ {i} :
             handle'[j] = handle[j] /\ insts'[j] = insts[j] /\ (Resolves(j)' <=> Resolves(j))
    BY <1>3, <2>2, Stored DEF Departs, RowInv, Active, Connected
  <2>4. UNCHANGED <<conn, job>> /\ conn[i] = "active"
    BY <1>3 DEF Departs, Otherwise, Active
  <2>. QED BY <2>1, <2>3, <2>4 DEF RowInv, Connected, Leaving
<1>4. ASSUME NEW c \in Channels, NEW w \in Window, Updates(c, w)
      PROVE  RowInv'
  BY <1>4 DEF Updates, Otherwise, Running, Up, RowInv, Connected, Resolves, Leaving, Idle, JobInv
<1>5. ASSUME NEW i \in Actors, NEW n \in Nicks, Renames(i, n)
      PROVE  RowInv'
  <2>1. PICK h : h = [nick |-> n, chans |-> handle[i].chans]
    OBVIOUS
  <2>2. h \in Instance /\ h = [handle[i] EXCEPT !.nick = n]
    BY <1>5, <2>1, HandleChanged DEF Renames, Active, Connected
  <2>3. /\ handle'[i] = h /\ Resolves(i)'
        /\ insts'[i].nick = h.nick /\ insts'[i].chans = h.chans
        /\ \A j \in Actors \ {i} :
             handle'[j] = handle[j] /\ insts'[j] = insts[j] /\ (Resolves(j)' <=> Resolves(j))
    BY <1>5, <2>2, Stored DEF Renames, RowInv, Active, Connected
  <2>4. UNCHANGED <<conn, job>> /\ conn[i] = "active"
    BY <1>5 DEF Renames, Otherwise, Active
  <2>. QED BY <2>1, <2>3, <2>4 DEF RowInv, Connected, Leaving
<1>6. ASSUME NEW n \in Nicks, SaveNick(n)
      PROVE  RowInv'
  BY <1>6 DEF SaveNick, Running, Up, memory, budget, RowInv, Connected, Resolves, Leaving, Idle, JobInv
<1>7. ASSUME NEW i \in Actors, Deletes(i)
      PROVE  RowInv'
  <2>1. /\ conn' = [conn EXCEPT ![i] = Retired(i)]
        /\ handle'[i].nick = handle[i].nick /\ handle'[i].chans = {}
        /\ \A j \in Actors \ {i} : handle'[j] = handle[j]
        /\ insts' = [insts EXCEPT ![i] = NoRow]
        /\ conn[i] = "active" /\ job' = job /\ job = Idle
    <3>1. /\ conn' = [conn EXCEPT ![i] = Retired(i)]
          /\ handle'[i] = [nick |-> handle[i].nick, chans |-> {}]
          /\ \A j \in Actors \ {i} : handle'[j] = handle[j]
          /\ insts' = [insts EXCEPT ![i] = NoRow]
      BY <1>7, Deleted
    <3>2. conn[i] = "active" /\ job' = job /\ job = Idle
      BY <1>7 DEF Deletes, Active, Running
    <3>. QED BY <3>1, <3>2
  <2>2. \A j \in Actors \ {i} : conn'[j] = conn[j] /\ (Resolves(j)' <=> Resolves(j))
    BY <2>1 DEF Resolves, Base, TypeOK
  <2>3. conn'[i] = Retired(i)
    BY <2>1
  <2>4. handle[i].nick \in Nicks
    BY <2>1, ClientTypes DEF Connected
  <2>. QED BY <2>1, <2>2, <2>3, <2>4 DEF RowInv, Connected, Leaving, Retired, Idle
<1>8. ASSUME NEW i \in Actors, Forced(i)
      PROVE  RowInv'
  <2>1. /\ conn' = [conn EXCEPT ![i] = Retired(i)] /\ UNCHANGED <<handle, insts>>
        /\ conn[i] = "active" /\ job = Idle /\ job'.who = i
        /\ job'.kind \in {"mark", "quit"}
    BY <1>8 DEF Forced, Active, Running
  <2>2. handle[i].nick \in Nicks
    BY <2>1, ClientTypes DEF Connected
  <2>3. \A j \in Actors \ {i} : conn'[j] = conn[j]
    BY <2>1
  <2>4. conn'[i] \in {"retired", "gone"} /\ Leaving(i)'
    BY <2>1 DEF Leaving, Retired
  <2>5. i # User => conn'[i] = "gone" /\ ~Leaving(User)
    BY <2>1 DEF Leaving, Retired, Idle
  <2>6. \A j \in Actors : Resolves(j)' <=> Resolves(j)
    BY <2>1 DEF Resolves
  <2>. QED BY <2>1, <2>2, <2>3, <2>4, <2>5, <2>6 DEF RowInv, Connected
<1>9. ASSUME NEW m \in Models, NEW n \in Nicks, NEW c \in Channels, Registers(m, n, c)
      PROVE  RowInv'
  <2>1. /\ handle' = [handle EXCEPT ![m] = [nick |-> n, chans |-> {}]]
        /\ insts' = [insts EXCEPT ![m] = [nick |-> n, chans |-> {}, pending |-> FALSE]]
        /\ conn' = [conn EXCEPT ![m] = "registered"] /\ job' = job
    BY <1>9 DEF Registers
  <2>2. PICK r : r = [nick |-> n, chans |-> {}, pending |-> FALSE]
    OBVIOUS
  <2>3. r \in InstanceRow
    BY <2>2 DEF InstanceRow
  <2>4. r # NoRow
    BY <2>3, ChannelsAssumption
  <2>5. handle'[m] = [nick |-> n, chans |-> {}] /\ insts'[m] = r
    BY <2>1, <2>2 DEF Base, TypeOK
  <2>6. \A j \in Actors \ {m} : insts'[j] = insts[j] /\ handle'[j] = handle[j] /\ conn'[j] = conn[j]
    BY <2>1 DEF Base, TypeOK
  <2>7. /\ Resolves(m)' /\ handle'[m].nick = insts'[m].nick
        /\ handle'[m].chans = insts'[m].chans /\ handle'[m].chans = {}
    BY <2>2, <2>4, <2>5 DEF Resolves
  <2>8. \A j \in Actors \ {m} : Resolves(j)' <=> Resolves(j)
    BY <2>6 DEF Resolves
  <2>9. Leaving(User)' <=> Leaving(User)
    BY <2>1 DEF Leaving
  <2>10. \A j \in Actors \ {m} : Connected(j)' <=> Connected(j)
    BY <2>6 DEF Connected
  <2>. QED BY <2>6, <2>7, <2>8, <2>9, <2>10 DEF RowInv
<1>10. ASSUME NEW m \in Models, Attach(m)
       PROVE  RowInv'
  BY <1>10 DEF Attach, Up, durable, budget, RowInv, Connected, Resolves, Leaving, Idle, JobInv
<1>11. ASSUME NEW m \in Models, Discard(m)
       PROVE  RowInv'
  <2>1. conn' = [conn EXCEPT ![m] = "discarded"] /\ UNCHANGED <<handle, job>>
    BY <1>11 DEF Discard
  <2>2. \A j \in Actors \ {m} : insts'[j] = insts[j] /\ (Resolves(j)' <=> Resolves(j))
    BY <1>11, Marked DEF Discard, MarkOrRemember, Base, Resolves
  <2>. QED BY <2>1, <2>2 DEF RowInv, Connected, Leaving
<1>12. ASSUME NEW m \in Models, DiscardOnLoop(m)
       PROVE  RowInv'
  BY <1>12 DEF DiscardOnLoop, Running, Up, durable, budget, RowInv, Connected, Resolves, Leaving, Idle, JobInv
<1>13. ASSUME MarkPending
       PROVE  RowInv'
  <2>1. /\ UNCHANGED <<conn, handle>> /\ job.kind = "mark" /\ job.who \in Models
        /\ conn[job.who] = "gone" /\ job'.who = job.who
    BY <1>13 DEF MarkPending, memory, JobInv, Idle, Base, TypeOK
  <2>2. \A j \in Actors \ {job.who} : insts'[j] = insts[j] /\ (Resolves(j)' <=> Resolves(j))
    BY <1>13, <2>1, Marked DEF MarkPending, MarkOrRemember, Base, Resolves
  <2>. QED BY <2>1, <2>2 DEF RowInv, Connected, Leaving
<1>14. ASSUME NEW c \in Channels, Leave(c)
       PROVE  RowInv'
  <2>1. job.who \in Actors /\ job.kind \in {"quit", "discard", "cleanup"}
    BY <1>14 DEF Leave, Base, TypeOK
  <2>2. /\ UNCHANGED <<insts, boot>> /\ handle' = [handle EXCEPT ![job.who] = Departed(job.who, c)]
        /\ \/ conn' = conn /\ job'.kind = job.kind /\ job'.who = job.who
           \/ conn' = Aborted /\ job' = Idle /\ job.kind = "cleanup"
    <3>1. PICK ok \in BOOLEAN :
            IF job.kind = "cleanup" /\ ~ok
            THEN job' = Idle /\ conn' = Aborted
            ELSE /\ job' = [job EXCEPT !.todo = @ \ {c}, !.clean = @ /\ ok]
                 /\ UNCHANGED conn
      BY <1>14 DEF Leave
    <3>. QED BY <1>14, <3>1 DEF Leave, Base, TypeOK
  <2>3. /\ handle'[job.who].chans = handle[job.who].chans \ {c}
        /\ handle'[job.who].nick = handle[job.who].nick
        /\ \A j \in Actors \ {job.who} : handle'[j] = handle[j]
    <3>1. /\ Departed(job.who, c).chans = handle[job.who].chans \ {c}
          /\ Departed(job.who, c).nick = handle[job.who].nick
      BY <2>1, ClientTypes DEF Departed
    <3>. QED BY <2>1, <2>2, <3>1 DEF Base, TypeOK
  <2>4. \A j \in Actors : Resolves(j)' <=> Resolves(j)
    BY <2>2 DEF Resolves
  <2>5. CASE job.kind = "cleanup"
    <3>1. /\ job.who = User /\ handle[User].chans = {} /\ conn[User] \in {"attached", "registered"}
          /\ handle[User].nick \in Nicks
      BY <2>5, ClientTypes DEF JobInv, RowInv, Leaving, Idle, Connected
    <3>2. boot = "connected" \/ conn[User] = "attached"
      BY <2>5 DEF JobInv, Idle
    <3>3. \A m \in Models : conn'[m] = conn[m]
      BY <2>2 DEF Aborted
    <3>4. \/ conn'[User] = conn[User]
          \/ conn'[User] = "retired"
      BY <2>2, <3>2 DEF Aborted
    <3>5. handle'[User].chans = {} /\ handle'[User].nick = handle[User].nick
      BY <2>3, <3>1
    <3>6. Connected(User) /\ UNCHANGED insts
      BY <2>2, <3>1 DEF Connected
    <3>7. \A m \in Models : handle'[m] = handle[m]
      BY <2>3, <3>1
    <3>8. handle'[User].chans = insts'[User].chans
      BY <3>1, <3>5, <3>6 DEF RowInv
    <3>9. Resolves(User)' /\ handle'[User].nick = insts'[User].nick
      BY <2>4, <3>1, <3>5, <3>6 DEF RowInv
    <3>. QED BY <3>1, <3>3, <3>5, <3>6, <3>7, <3>8, <3>9, UserRows
  <2>6. CASE job.kind \in {"quit", "discard"}
    <3>1. conn' = conn /\ conn[job.who] \in {"gone", "retired", "discarded"}
      BY <2>2, <2>6 DEF JobInv, Idle, Retired
    <3>. QED BY <2>1, <2>2, <2>3, <2>4, <2>6, <3>1 DEF RowInv, Connected, Leaving
  <2>. QED BY <2>1, <2>5, <2>6
<1>15. ASSUME NEW c \in Channels, CleanupStops(c)
       PROVE  RowInv'
  <2>1. /\ UNCHANGED <<insts, handle, boot>> /\ conn' = Aborted /\ job.kind = "cleanup" /\ job' = Idle
    BY <1>15 DEF CleanupStops, durable
  <2>2. \A m \in Models : conn'[m] = conn[m]
    BY <2>1 DEF Aborted
  <2>3. conn[User] = "registered" \/ conn[User] = "attached"
    BY <2>1 DEF JobInv, Idle
  <2>4. conn'[User] = "retired" \/ conn'[User] = conn[User]
    BY <2>1, <2>3 DEF Aborted, JobInv, Idle
  <2>5. handle[User].nick \in Nicks /\ handle[User].chans = {}
    BY <2>1, <2>3, ClientTypes DEF RowInv, Connected, Leaving
  <2>. QED BY <2>1, <2>2, <2>4, <2>5 DEF RowInv, Connected, Leaving, Resolves, Actors
<1>16. ASSUME FinishDeparture
       PROVE  RowInv'
  <2>1. /\ job.who \in Actors /\ job.kind \in {"quit", "discard"} /\ job' = Idle
        /\ handle' = [handle EXCEPT ![job.who].chans = {}]
        /\ conn' = [conn EXCEPT ![job.who] = Retired(job.who)]
    BY <1>16 DEF FinishDeparture, Base, TypeOK
  <2>2. \A j \in Actors \ {job.who} : insts'[j] = insts[j] /\ (Resolves(j)' <=> Resolves(j))
    <3>1. \/ insts' = [insts EXCEPT ![job.who] = NoRow]
          \/ insts' = insts
          \/ \E ok \in BOOLEAN : Mark(job.who, ok)
      BY <1>16 DEF FinishDeparture
    <3>. QED BY <2>1, <3>1, Marked DEF Base, TypeOK, Resolves
  <2>3. /\ handle'[job.who].chans = {} /\ handle'[job.who].nick = handle[job.who].nick
        /\ \A j \in Actors \ {job.who} : handle'[j] = handle[j] /\ conn'[j] = conn[j]
        /\ conn'[job.who] = Retired(job.who)
    <3>1. PICK h : h = [handle[job.who] EXCEPT !.chans = {}]
      OBVIOUS
    <3>2. h.chans = {} /\ h.nick = handle[job.who].nick
      BY <2>1, <3>1, ClientTypes
    <3>. QED BY <2>1, <3>1, <3>2 DEF Base, TypeOK
  <2>4. job.who = User => handle[User].nick \in Nicks
    BY <2>1 DEF RowInv, JobInv, Idle, Retired
  <2>. QED BY <2>1, <2>2, <2>3, <2>4 DEF RowInv, Connected, Leaving, Retired, Idle
<1>17. ASSUME AttachUser
       PROVE  RowInv'
  <2>1. /\ handle' = [handle EXCEPT ![User] = [nick |-> config, chans |-> {}]]
        /\ insts' = [insts EXCEPT ![User] = Row(handle'[User], FALSE)]
        /\ conn' = [conn EXCEPT ![User] = "attached"] /\ job' = job
        /\ conn[User] = "stored"
    BY <1>17 DEF AttachUser, BootInv
  <2>2. handle'[User] = [nick |-> config, chans |-> {}]
    BY <2>1 DEF Base, TypeOK
  <2>3. PICK r : r = [nick |-> config, chans |-> {}, pending |-> FALSE]
    OBVIOUS
  <2>4. insts'[User] = r
    BY <2>1, <2>2, <2>3 DEF Row, Base, TypeOK
  <2>5. r \in InstanceRow
    BY <2>3 DEF InstanceRow, Base, TypeOK
  <2>6. r # NoRow
    BY <2>5, ChannelsAssumption
  <2>7. \A m \in Models : insts'[m] = insts[m] /\ handle'[m] = handle[m] /\ conn'[m] = conn[m]
    BY <2>1 DEF Base, TypeOK
  <2>8. Resolves(User)'
    BY <2>3, <2>4, <2>6 DEF Resolves
  <2>9. conn'[User] = "attached"
    BY <2>1
  <2>. QED BY <2>2, <2>3, <2>4, <2>7, <2>8, <2>9, UserRows
<1>18. ASSUME NEW m \in Models, PurgePending(m)
       PROVE  RowInv'
  <2>1. /\ conn' = [conn EXCEPT ![m] = "gone"] /\ insts' = [insts EXCEPT ![m] = NoRow]
        /\ UNCHANGED <<handle, job>>
    BY <1>18 DEF PurgePending
  <2>2. \A j \in Actors \ {m} : insts'[j] = insts[j] /\ conn'[j] = conn[j]
    BY <2>1 DEF Base, TypeOK
  <2>. QED BY <2>1, <2>2 DEF RowInv, Connected, Leaving, Resolves
<1>19. ASSUME StartModels
       PROVE  RowInv'
  <2>1. \A m \in Models : IF Resolves(m)
          THEN /\ handle'[m] = [nick |-> insts[m].nick, chans |-> insts[m].chans]
               /\ conn'[m] = "active"
          ELSE handle'[m] = handle[m] /\ conn'[m] = conn[m]
    BY <1>19 DEF StartModels
  <2>2. handle'[User] = handle[User] /\ conn'[User] = conn[User]
    BY <1>19 DEF StartModels
  <2>3. UNCHANGED <<insts, job>> /\ boot = "starting"
    BY <1>19 DEF StartModels, durable
  <2>4. \A m \in Models : conn[m] \in {"none", "stored", "gone"}
    BY <2>3 DEF BootInv
  <2>5. \A i \in Actors : Resolves(i)' <=> Resolves(i)
    BY <2>3 DEF Resolves
  <2>6. \A m \in Models : Connected(m)' =>
          /\ Resolves(m) /\ handle'[m].nick = insts[m].nick /\ handle'[m].chans = insts[m].chans
    <3>1. ASSUME NEW m \in Models, Connected(m)'
          PROVE  Resolves(m)
      BY <2>1, <2>4, <3>1 DEF Connected
    <3>2. ASSUME NEW m \in Models, Resolves(m)
          PROVE  handle'[m].nick = insts[m].nick /\ handle'[m].chans = insts[m].chans
      <4>1. handle'[m] = [nick |-> insts[m].nick, chans |-> insts[m].chans]
        BY <2>1, <3>2
      <4>. QED BY <4>1
    <3>. QED BY <3>1, <3>2
  <2>7. \A m \in Models : conn'[m] # "registered"
    BY <2>1, <2>4
  <2>. QED BY <2>2, <2>3, <2>5, <2>6, <2>7 DEF RowInv, Connected, Leaving, Actors
<1>20. ASSUME Cleanup
       PROVE  RowInv'
  BY <1>20 DEF Cleanup, Running, Up, durable, budget, RowInv, Connected, Resolves, Leaving, Idle, JobInv
<1>21. ASSUME Reconciled
       PROVE  RowInv'
  BY <1>21 DEF Reconciled, Up, durable, budget, RowInv, Connected, Resolves, Leaving, Idle, JobInv
<1>22. ASSUME Reactivate
       PROVE  RowInv'
  <2>1. PICK ok \in BOOLEAN :
          /\ insts' = [insts EXCEPT ![User] = IF ok THEN Row(handle[User], FALSE) ELSE NoRow]
          /\ conn' = [conn EXCEPT ![User] = IF ok THEN "registered" ELSE @]
    BY <1>22 DEF Reactivate
  <2>2. conn[User] = "retired" /\ UNCHANGED <<handle, job>> /\ job = Idle
    BY <1>22 DEF Reactivate, Running
  <2>3. handle[User].nick \in Nicks /\ handle[User].chans = {}
    BY <2>2 DEF RowInv, Leaving, Idle
  <2>4. PICK r : r = [nick |-> handle[User].nick, chans |-> {}, pending |-> FALSE]
    OBVIOUS
  <2>5. r = Row(handle[User], FALSE)
    BY <2>3, <2>4 DEF Row
  <2>6. r \in InstanceRow
    BY <2>3, <2>4 DEF InstanceRow
  <2>7. r # NoRow
    BY <2>6, ChannelsAssumption
  <2>8. ok => insts'[User] = r
    BY <2>1, <2>5 DEF Base, TypeOK
  <2>9. \A m \in Models : insts'[m] = insts[m] /\ conn'[m] = conn[m]
    BY <2>1 DEF Base, TypeOK
  <2>10. conn'[User] = "retired" \/ (ok /\ conn'[User] = "registered")
    BY <2>1, <2>2
  <2>11. ok => Resolves(User)'
    BY <2>4, <2>7, <2>8 DEF Resolves
  <2>12. Connected(User)' => ok
    BY <2>10 DEF Connected
  <2>. QED BY <2>2, <2>3, <2>4, <2>8, <2>9, <2>11, <2>12, UserRows
<1>23. ASSUME Activate
       PROVE  RowInv'
  <2>1. UNCHANGED <<handle, job, insts>> /\ conn[User] = "reconciled"
    BY <1>23 DEF Activate
  <2>2. \A m \in Models : conn'[m] = conn[m]
    BY <1>23 DEF Activate, Aborted
  <2>3. conn'[User] \in {"active", "attached", "retired"}
    BY <1>23 DEF Activate, Aborted
  <2>4. handle[User].nick \in Nicks /\ handle[User].chans = {}
    BY <2>1, ClientTypes DEF RowInv, Connected, Leaving, JobInv, Idle, Retired
  <2>. QED BY <2>1, <2>2, <2>3, <2>4 DEF RowInv, Connected, Leaving, Resolves, Actors
<1>24. ASSUME Stop
       PROVE  RowInv'
  <2>1. /\ \A i \in Actors : conn'[i] \in {"stored", "none", "gone"} /\ handle'[i] = NoHandle
        /\ job' = Idle
    BY <1>24 DEF Stop
  <2>. QED BY <2>1 DEF RowInv, Connected, NoHandle
<1>. QED BY <1>1, <1>2, <1>3, <1>4, <1>5, <1>6, <1>7, <1>8, <1>9, <1>10, <1>11, <1>12, <1>13, <1>14, <1>15, <1>16, <1>17, <1>18, <1>19, <1>20, <1>21, <1>22, <1>23, <1>24 DEF Moves, Boot

LEMMA Started == Init => Base
<1>. SUFFICES ASSUME Init PROVE Base
  OBVIOUS
<1>. User \in Actors /\ Models \subseteq Actors /\ (\A m \in Models : m # User)
  BY ChannelsAssumption DEF Actors
<1>1. TypeOK
  <2>1. NoHandle \in Instance \cup {NoHandle} /\ NoHandle.chans = {}
    BY DEF NoHandle
  <2>2. handle \in [Actors -> Instance \cup {NoHandle}] /\ conn \in [Actors -> ConnStates]
    BY <2>1 DEF Init, ConnStates
  <2>3. job \in [kind : {"idle", "mark", "quit", "discard", "cleanup"},
                 who : Actors, todo : SUBSET Channels, clean : BOOLEAN]
    BY IdleType DEF Init
  <2>4. /\ MaxFails \in 0..MaxFails /\ MaxReadFails \in 0..MaxReadFails
        /\ MaxRestarts \in 0..MaxRestarts
    BY ChannelsAssumption
  <2>5. /\ live \in [Channels -> Window \cup {NoChannel}] /\ gen \in [Channels -> Nat]
        /\ ended \in [Channels -> Nat] /\ rows \in [Channels -> Window \cup {NoChannel}]
        /\ joining \in [Actors -> Channels \cup {NoChannel}]
        /\ insts \in [Actors -> InstanceRow \cup {NoRow}]
    BY DEF Init
  <2>. QED BY <2>2, <2>3, <2>4, <2>5 DEF Init, TypeOK
<1>2. BootInv
  BY DEF Init, BootInv
<1>3. JobInv
  BY DEF Init, JobInv
<1>4. RowInv
  <2>1. \A i \in Actors : conn[i] \in {"stored", "none"}
    BY DEF Init
  <2>2. handle[User].chans = {}
    BY DEF Init, NoHandle
  <2>. QED BY <2>1, <2>2 DEF RowInv, Connected
<1>. QED BY <1>1, <1>2, <1>3, <1>4 DEF Base

LEMMA Stuttered == Base /\ UNCHANGED vars => Base'
<1>. SUFFICES ASSUME Base, UNCHANGED vars PROVE Base'
  OBVIOUS
<1>1. UNCHANGED <<live, gen, handle, conn, joining, job, rows, insts, marker, config,
                  boot, fails, readFails, restarts, ended, unmarked, reported>>
  BY DEF vars, memory, durable, budget
<1>2. TypeOK'
  BY <1>1 DEF Base, TypeOK
<1>3. BootInv'
  BY <1>1 DEF Base, BootInv
<1>4. JobInv'
  BY <1>1 DEF Base, JobInv, Up, Unclean, Retired
<1>5. RowInv'
  BY <1>1 DEF Base, RowInv, Connected, Resolves, Leaving
<1>. QED BY <1>2, <1>3, <1>4, <1>5 DEF Base

LEMMA BaseCorrect == Spec => []Base
<1>1. Base /\ [Next]_vars => Base'
  <2>. SUFFICES ASSUME Base, [Next]_vars PROVE Base'
    OBVIOUS
  <2>1. CASE Next
    <3>1. Moves
      BY <2>1, NextMoves
    <3>. QED BY <3>1, TypeStep, BootStep, JobStep, RowStep DEF Base
  <2>. QED BY <2>1, Stuttered
<1>. QED BY <1>1, Started, PTL DEF Spec

\* The records keep their types: whatever the store refuses, and however often
\* the process stops, a channel record is a member list with a nick for each
\* member and operators that are members, and every departure the loop holds is
\* of an instance the session knows.
THEOREM TypeCorrect == Spec => []TypeOK
BY BaseCorrect, PTL DEF Base

---------------------------------------------------------------------------
(* One connected client for a nick                                         *)

\* In the first run of the process no two rows that resolve have one nick.
FirstInv ==
  restarts = MaxRestarts =>
    /\ boot = "down" => \A i \in Actors : insts[i] = NoRow
    /\ \A i, j \in Actors :
         i # j /\ Resolves(i) /\ Resolves(j) => insts[i].nick # insts[j].nick

LEMMA RowsLeave ==
  ASSUME FirstInv, UNCHANGED restarts, boot' = "down" => FALSE,
         \A i \in Actors : Resolves(i)' => Resolves(i) /\ insts'[i].nick = insts[i].nick
  PROVE  FirstInv'
BY DEF FirstInv

LEMMA RowTaken ==
  ASSUME FirstInv, UNCHANGED restarts, boot' = "down" => FALSE,
         NEW i \in Actors, NEW n \in Nicks, insts'[i].nick = n,
         NickRows(n) = {} \/ NickRows(n) \cap {i} # {},
         \A j \in Actors \ {i} : Resolves(j)' => Resolves(j) /\ insts'[j].nick = insts[j].nick
  PROVE  FirstInv'
<1>1. restarts = MaxRestarts => \A j \in Actors \ {i} : Resolves(j) => insts[j].nick # n
  BY DEF FirstInv, NickRows
<1>. QED BY <1>1 DEF FirstInv

LEMMA MarkedRows ==
  ASSUME TypeOK, NEW i \in Actors, NEW ok \in BOOLEAN, Mark(i, ok)
  PROVE  \A j \in Actors : Resolves(j)' => Resolves(j) /\ insts'[j].nick = insts[j].nick
<1>1. \A j \in Actors \ {i} : Resolves(j)' => Resolves(j) /\ insts'[j].nick = insts[j].nick
  BY Marked DEF Resolves
<1>2. insts'[i] # NoRow => insts[i] # NoRow
  BY Marked
<1>3. insts[i] # NoRow => insts'[i].nick = insts[i].nick
  BY Marked
<1>4. insts[i] # NoRow => (insts'[i].pending <=> (ok \/ insts[i].pending))
  BY Marked
<1>5. Resolves(i)' => Resolves(i)
  BY <1>2, <1>4 DEF Resolves
<1>6. Resolves(i) => insts'[i].nick = insts[i].nick
  BY <1>3 DEF Resolves
<1>. QED BY <1>1, <1>5, <1>6

LEMMA FirstStep ==
  ASSUME Base, FirstInv, Moves
  PROVE  FirstInv'
<1>. User \in Actors /\ Models \subseteq Actors
  BY ChannelsAssumption DEF Actors
<1>. BootInv /\ JobInv /\ RowInv /\ insts \in [Actors -> InstanceRow \cup {NoRow}]
  BY DEF Base, TypeOK
<1>1. ASSUME NEW i \in Actors, NEW c \in Channels, NEW w \in Window, Enters(i, c, w)
      PROVE  FirstInv'
  <2>1. PICK cs \in SUBSET Channels : cs = handle[i].chans \cup {c}
    BY ClientTypes
  <2>2. PICK h \in Instance : h.nick = handle[i].nick /\ Stores(i, h)
    <3>1. /\ [handle[i] EXCEPT !.chans = cs] = [nick |-> handle[i].nick, chans |-> cs]
          /\ [handle[i] EXCEPT !.chans = cs] \in Instance
      BY <1>1, HandleChanged DEF Enters, Active, Connected
    <3>. QED BY <1>1, <2>1, <3>1 DEF Enters
  <2>3. Resolves(i) /\ handle[i].nick = insts[i].nick
    BY <1>1 DEF Enters, Active, Connected, RowInv
  <2>4. UNCHANGED <<boot, restarts>> /\ boot # "down"
    BY <1>1 DEF Enters, Otherwise, Running, Up
  <2>5. insts'[i].nick = insts[i].nick /\ (\A j \in Actors \ {i} : insts'[j] = insts[j])
    BY <2>2, <2>3, Stored
  <2>. QED BY <2>3, <2>4, <2>5, RowsLeave DEF Resolves
<1>2. ASSUME NEW cs \in SUBSET Channels, Fills(cs)
      PROVE  FirstInv'
  <2>1. UNCHANGED <<insts, boot, restarts>> /\ boot # "down"
    BY <1>2 DEF Fills, Otherwise, Up, BootInv, Idle
  <2>. QED BY <2>1, RowsLeave DEF Resolves
<1>3. ASSUME NEW i \in Actors, NEW c \in Channels, Departs(i, c)
      PROVE  FirstInv'
  <2>1. PICK cs \in SUBSET Channels : cs = handle[i].chans \ {c}
    BY ClientTypes
  <2>2. PICK h \in Instance : h.nick = handle[i].nick /\ Stores(i, h)
    <3>1. /\ [handle[i] EXCEPT !.chans = cs] = [nick |-> handle[i].nick, chans |-> cs]
          /\ [handle[i] EXCEPT !.chans = cs] \in Instance
      BY <1>3, HandleChanged DEF Departs, Active, Connected
    <3>. QED BY <1>3, <2>1, <3>1 DEF Departs, Departed
  <2>3. Resolves(i) /\ handle[i].nick = insts[i].nick
    BY <1>3 DEF Departs, Active, Connected, RowInv
  <2>4. UNCHANGED <<boot, restarts>> /\ boot # "down"
    BY <1>3 DEF Departs, Otherwise, Running, Up
  <2>5. insts'[i].nick = insts[i].nick /\ (\A j \in Actors \ {i} : insts'[j] = insts[j])
    BY <2>2, <2>3, Stored
  <2>. QED BY <2>3, <2>4, <2>5, RowsLeave DEF Resolves
<1>4. ASSUME NEW c \in Channels, NEW w \in Window, Updates(c, w)
      PROVE  FirstInv'
  <2>1. UNCHANGED <<insts, boot, restarts>> /\ boot # "down"
    BY <1>4 DEF Updates, Otherwise, Running, Up, BootInv, Idle
  <2>. QED BY <2>1, RowsLeave DEF Resolves
<1>5. ASSUME NEW i \in Actors, NEW n \in Nicks, Renames(i, n)
      PROVE  FirstInv'
  <2>1. PICK h \in Instance : h.nick = n /\ Stores(i, h)
    <3>1. /\ [handle[i] EXCEPT !.nick = n] = [nick |-> n, chans |-> handle[i].chans]
          /\ [handle[i] EXCEPT !.nick = n] \in Instance
      BY <1>5, HandleChanged DEF Renames, Active, Connected
    <3>. QED BY <1>5, <3>1 DEF Renames
  <2>2. UNCHANGED <<boot, restarts>> /\ boot # "down"
    BY <1>5 DEF Renames, Otherwise, Running, Up
  <2>3. insts'[i].nick = n /\ (\A j \in Actors \ {i} : insts'[j] = insts[j])
    BY <2>1, Stored
  <2>4. NickRows(n) = {} \/ NickRows(n) \cap {i} # {}
    BY <1>5 DEF Renames, NickAvailable
  <2>. QED BY <2>2, <2>3, <2>4, RowTaken DEF Resolves
<1>6. ASSUME NEW n \in Nicks, SaveNick(n)
      PROVE  FirstInv'
  <2>1. UNCHANGED <<insts, boot, restarts>> /\ boot # "down"
    BY <1>6 DEF SaveNick, Running, Up, memory, budget, BootInv, Idle
  <2>. QED BY <2>1, RowsLeave DEF Resolves
<1>7. ASSUME NEW i \in Actors, Deletes(i)
      PROVE  FirstInv'
  <2>1. insts' = [insts EXCEPT ![i] = NoRow]
    BY <1>7, Deleted
  <2>2. UNCHANGED <<boot, restarts>> /\ boot # "down"
    BY <1>7 DEF Deletes, Running, Up
  <2>. QED BY <2>1, <2>2, RowsLeave DEF Resolves
<1>8. ASSUME NEW i \in Actors, Forced(i)
      PROVE  FirstInv'
  <2>1. UNCHANGED <<insts, boot, restarts>> /\ boot # "down"
    BY <1>8 DEF Forced, Running, Up, BootInv, Idle
  <2>. QED BY <2>1, RowsLeave DEF Resolves
<1>9. ASSUME NEW m \in Models, NEW n \in Nicks, NEW c \in Channels, Registers(m, n, c)
      PROVE  FirstInv'
  <2>1. insts' = [insts EXCEPT ![m] = [nick |-> n, chans |-> {}, pending |-> FALSE]]
    BY <1>9 DEF Registers
  <2>2. UNCHANGED <<boot, restarts>> /\ boot # "down"
    BY <1>9 DEF Registers, Running, Up
  <2>3. insts'[m].nick = n /\ (\A j \in Actors \ {m} : insts'[j] = insts[j])
    BY <2>1
  <2>4. NickRows(n) = {}
    BY <1>9 DEF Registers, NickAvailable
  <2>. QED BY <2>2, <2>3, <2>4, RowTaken DEF Resolves
<1>10. ASSUME NEW m \in Models, Attach(m)
       PROVE  FirstInv'
  <2>1. UNCHANGED <<insts, boot, restarts>> /\ boot # "down"
    BY <1>10 DEF Attach, Up, durable, budget, BootInv, Idle
  <2>. QED BY <2>1, RowsLeave DEF Resolves
<1>11. ASSUME NEW m \in Models, Discard(m)
       PROVE  FirstInv'
  <2>1. UNCHANGED <<boot, restarts>> /\ boot # "down" /\ m \in Actors
    BY <1>11 DEF Discard, Up
  <2>2. \A j \in Actors : Resolves(j)' => Resolves(j) /\ insts'[j].nick = insts[j].nick
    BY <1>11, <2>1, MarkedRows DEF Discard, MarkOrRemember, Base
  <2>. QED BY <2>1, <2>2, RowsLeave
<1>12. ASSUME NEW m \in Models, DiscardOnLoop(m)
       PROVE  FirstInv'
  <2>1. UNCHANGED <<insts, boot, restarts>> /\ boot # "down"
    BY <1>12 DEF DiscardOnLoop, Running, Up, durable, budget, BootInv, Idle
  <2>. QED BY <2>1, RowsLeave DEF Resolves
<1>13. ASSUME MarkPending
       PROVE  FirstInv'
  <2>1. UNCHANGED <<boot, restarts>> /\ boot # "down" /\ job.who \in Actors
    BY <1>13 DEF MarkPending, BootInv, Idle, Base, TypeOK
  <2>2. \A j \in Actors : Resolves(j)' => Resolves(j) /\ insts'[j].nick = insts[j].nick
    BY <1>13, <2>1, MarkedRows DEF MarkPending, MarkOrRemember, Base
  <2>. QED BY <2>1, <2>2, RowsLeave
<1>14. ASSUME NEW c \in Channels, Leave(c)
       PROVE  FirstInv'
  <2>1. UNCHANGED <<insts, boot, restarts>> /\ boot # "down"
    BY <1>14 DEF Leave, BootInv, Idle
  <2>. QED BY <2>1, RowsLeave DEF Resolves
<1>15. ASSUME NEW c \in Channels, CleanupStops(c)
       PROVE  FirstInv'
  <2>1. UNCHANGED <<insts, boot, restarts>> /\ boot # "down"
    BY <1>15 DEF CleanupStops, durable, budget, BootInv, Idle
  <2>. QED BY <2>1, RowsLeave DEF Resolves
<1>16. ASSUME FinishDeparture
       PROVE  FirstInv'
  <2>1. UNCHANGED <<boot, restarts>> /\ boot # "down" /\ job.who \in Actors
    BY <1>16 DEF FinishDeparture, BootInv, Idle, Base, TypeOK
  <2>2. \/ insts' = [insts EXCEPT ![job.who] = NoRow]
        \/ insts' = insts
        \/ \E ok \in BOOLEAN : Mark(job.who, ok)
    BY <1>16 DEF FinishDeparture
  <2>3. \A j \in Actors : Resolves(j)' => Resolves(j) /\ insts'[j].nick = insts[j].nick
    BY <2>1, <2>2, MarkedRows DEF Resolves, Base
  <2>. QED BY <2>1, <2>3, RowsLeave
<1>17. ASSUME AttachUser
       PROVE  FirstInv'
  <2>1. boot = "down" /\ boot' = "starting" /\ UNCHANGED restarts
        /\ (\A m \in Models : insts'[m] = insts[m])
    BY <1>17, ChannelsAssumption DEF AttachUser, budget
  <2>2. restarts = MaxRestarts => \A m \in Models : ~Resolves(m)'
    BY <2>1 DEF FirstInv, Resolves
  <2>. QED BY <2>1, <2>2 DEF FirstInv, Actors
<1>18. ASSUME NEW m \in Models, PurgePending(m)
       PROVE  FirstInv'
  <2>1. insts' = [insts EXCEPT ![m] = NoRow]
    BY <1>18 DEF PurgePending
  <2>2. UNCHANGED <<boot, restarts>> /\ boot # "down"
    BY <1>18 DEF PurgePending, budget
  <2>. QED BY <2>1, <2>2, RowsLeave DEF Resolves
<1>19. ASSUME StartModels
       PROVE  FirstInv'
  <2>1. UNCHANGED <<insts, restarts>> /\ boot' = "running"
    BY <1>19 DEF StartModels, durable
  <2>. QED BY <2>1, RowsLeave DEF Resolves
<1>20. ASSUME Cleanup
       PROVE  FirstInv'
  <2>1. UNCHANGED <<insts, boot, restarts>> /\ boot # "down"
    BY <1>20 DEF Cleanup, Running, Up, durable, budget, BootInv, Idle
  <2>. QED BY <2>1, RowsLeave DEF Resolves
<1>21. ASSUME Reconciled
       PROVE  FirstInv'
  <2>1. UNCHANGED <<insts, boot, restarts>> /\ boot # "down"
    BY <1>21 DEF Reconciled, Up, durable, budget, BootInv, Idle
  <2>. QED BY <2>1, RowsLeave DEF Resolves
<1>22. ASSUME Reactivate
       PROVE  FirstInv'
  <2>1. PICK n : n = handle[User].nick
    OBVIOUS
  <2>2. UNCHANGED <<boot, restarts>> /\ boot # "down" /\ n \in Nicks
    BY <1>22, <2>1 DEF Reactivate, Running, Up, RowInv
  <2>3. NickRows(n) = {} \/ NickRows(n) \cap {User} # {}
    BY <1>22, <2>1 DEF Reactivate, NickAvailable
  <2>4. PICK ok \in BOOLEAN :
          insts' = [insts EXCEPT ![User] = IF ok THEN Row(handle[User], FALSE) ELSE NoRow]
    BY <1>22 DEF Reactivate
  <2>5. CASE ok
    <3>1. insts'[User].nick = n /\ (\A j \in Actors \ {User} : insts'[j] = insts[j])
      BY <2>1, <2>4, <2>5 DEF Row
    <3>. QED BY <2>2, <2>3, <3>1, RowTaken DEF Resolves
  <2>6. CASE ~ok
    BY <2>2, <2>4, <2>6, RowsLeave DEF Resolves
  <2>. QED BY <2>5, <2>6
<1>23. ASSUME Activate
       PROVE  FirstInv'
  <2>1. UNCHANGED <<insts, restarts>> /\ boot' # "down"
    BY <1>23 DEF Activate, Up
  <2>. QED BY <2>1, RowsLeave DEF Resolves
<1>24. ASSUME Stop
       PROVE  FirstInv'
  <2>1. restarts' = restarts - 1 /\ restarts \in 0..MaxRestarts
    BY <1>24 DEF Stop, Base, TypeOK
  <2>. QED BY <2>1, ChannelsAssumption DEF FirstInv
<1>. QED BY <1>1, <1>2, <1>3, <1>4, <1>5, <1>6, <1>7, <1>8, <1>9, <1>10, <1>11, <1>12, <1>13, <1>14, <1>15, <1>16, <1>17, <1>18, <1>19, <1>20, <1>21, <1>22, <1>23, <1>24 DEF Moves, Boot

LEMMA FirstCorrect == Spec => []FirstInv
<1>1. Init => FirstInv
  <2>. SUFFICES ASSUME Init PROVE FirstInv
    OBVIOUS
  <2>1. \A i \in Actors : insts[i] = NoRow
    BY DEF Init
  <2>. QED BY <2>1 DEF FirstInv, Resolves
<1>2. Base /\ FirstInv /\ [Next]_vars => FirstInv'
  <2>. SUFFICES ASSUME Base, FirstInv, [Next]_vars PROVE FirstInv'
    OBVIOUS
  <2>1. CASE Next
    BY <2>1, NextMoves, FirstStep
  <2>2. CASE UNCHANGED vars
    BY <2>2 DEF FirstInv, Resolves, vars, durable, budget
  <2>. QED BY <2>1, <2>2
<1>. QED BY <1>1, <1>2, BaseCorrect, PTL DEF Spec

\* A nick names one connected client for as long as the process runs: each claim
\* is checked against the rows of the store and takes the loop with the row it
\* writes, so that KILLs that fail, returns of the user and ADDMODELs that race
\* with a NICK leave no two clients with one nick.
THEOREM NicksApart == Spec => []NickUnique
<1>1. Base /\ FirstInv => NickUnique
  BY DEF Base, RowInv, FirstInv, NickUnique, OneHolderPerNick, Active, Connected
<1>. QED BY <1>1, BaseCorrect, FirstCorrect, PTL

---------------------------------------------------------------------------
(* The records of a membership, while the store answers every read         *)

\* No read of the store has failed.
Unfailed == readFails = MaxReadFails

\* The instances whose records agree: a departure of the user's ends the
\* agreement until the next connection.
Tracked(i) == i \notin unmarked /\ (i = User => conn[User] = "active")

\* The stored copies, for an instance whose row resolves.
Durable(i, c) ==
  Resolves(i) =>
    /\ c \in insts[i].chans <=> i \in Members(rows[c])
    /\ i \in Members(rows[c]) => rows[c].nick[i] = insts[i].nick

\* A live member is a client on that channel, or one whose departure has not
\* come to it.
OnLive(i, c) ==
  i \in Members(live[c]) =>
    /\ c \in handle[i].chans /\ live[c].nick[i] = handle[i].nick
    /\ conn[i] \in {"active", "discarded"} \/ Leaving(i)
    /\ Leaving(i) => c \in job.todo

\* A client's channel is live with the client on it, or can be loaded.
Reached(i, c) ==
  conn[i] = "active" /\ c \in handle[i].chans =>
    IF live[c] # NoChannel THEN i \in Members(live[c]) ELSE gen[c] = 0

\* The row of a client that left resolves only until it is marked.
Known(i) ==
  Up /\ Resolves(i) =>
    conn[i] \in {"registered", "active"} \/ (job.kind = "mark" /\ job.who = i)

Marking(i) ==
  job.kind = "mark" /\ job.who = i =>
    /\ job.todo = handle[i].chans /\ handle[i].chans = insts[i].chans
    /\ handle[i].nick = insts[i].nick

Right(i) ==
  Tracked(i) =>
    /\ \A c \in Channels : Durable(i, c) /\ OnLive(i, c) /\ Reached(i, c)
    /\ Known(i) /\ Marking(i)

\* No record names i.
Away(i) == \A c \in Channels : i \notin Members(rows[c]) /\ i \notin Members(live[c])

\* An id that was not used yet names nobody.
Fresh == \A m \in Models : conn[m] = "none" => m \notin unmarked /\ insts[m] = NoRow /\ Away(m)

\* The user is on a live list only if it is on the stored one.
Backed(c) == User \in Members(live[c]) => User \in Members(rows[c])

\* Between its connections the user is on no record, except what the last run
\* left for the reconciliation to take away.
UserInv ==
  /\ conn[User] = "active" => marker
  /\ User \notin unmarked =>
       /\ \/ conn[User] = "active" \/ Away(User)
          \/ boot # "connected" /\ marker /\ conn[User] \in {"stored", "attached"}
       /\ conn[User] = "attached" => \A c \in Channels : Backed(c)
       /\ job.kind = "cleanup" =>
            \A c \in Channels : User \in Members(rows[c]) => c \in job.todo

AgreeInv == Unfailed => (\A i \in Actors : Right(i)) /\ UserInv

LEMMA LeavingClients ==
  ASSUME JobInv, NEW i \in Actors, Leaving(i)
  PROVE  conn[i] \in {"gone", "retired", "discarded"} /\ job # Idle
BY DEF JobInv, Leaving, Idle, Retired

LEMMA LoadedMembers ==
  ASSUME Base, NEW c \in Channels, NEW i
  PROVE  /\ i \in Members(live[c]) => Loaded(c) = live[c]
         /\ i \in Members(Loaded(c)) => i \in Members(live[c]) \/ i \in Members(rows[c])
         /\ i \in Members(Loaded(c)) => Loaded(c) \in Window
<1>1. i \in Members(live[c]) => Loaded(c) = live[c]
  BY DEF Loaded, Members
<1>2. i \in Members(Loaded(c)) => Loaded(c) \in Window
  BY RecordTypes DEF Base, Members
<1>3. ASSUME i \in Members(Loaded(c)), i \notin Members(live[c])
      PROVE  i \in Members(rows[c])
  <2>1. Loaded(c) = FromStore(rows[c])
    BY <1>3 DEF Loaded, Members
  <2>2. rows[c] \in Window
    BY <1>3, <2>1, RecordTypes DEF Base, FromStore, Members
  <2>. QED BY <1>3, <2>1, <2>2, FromStoreWindow
<1>. QED BY <1>1, <1>2, <1>3

\* What loading a record shows of a client.
LEMMA Loading ==
  ASSUME Base, NEW i \in Actors, Right(i), Tracked(i), Up, NEW c \in Channels
  PROVE  /\ i \in Members(Loaded(c)) =>
              /\ c \in handle[i].chans /\ Loaded(c).nick[i] = handle[i].nick
              /\ conn[i] \in {"active", "discarded"} \/ Leaving(i)
              /\ Leaving(i) => c \in job.todo
         /\ conn[i] = "active" /\ c \in handle[i].chans => i \in Members(Loaded(c))
<1>. Durable(i, c) /\ OnLive(i, c) /\ Reached(i, c) /\ Known(i) /\ Marking(i)
  BY DEF Right
<1>. conn[i] = "active" => Resolves(i) /\ handle[i].nick = insts[i].nick /\ handle[i].chans = insts[i].chans
  BY DEF Base, RowInv, Connected
<1>1. CASE live[c] # NoChannel
  BY <1>1 DEF Loaded, OnLive, Reached
<1>2. CASE live[c] = NoChannel /\ gen[c] > 0
  <2>1. gen[c] # 0
    BY <1>2
  <2>. QED BY <1>2, <2>1 DEF Loaded, Reached, Members
<1>3. CASE live[c] = NoChannel /\ ~(gen[c] > 0)
  <2>1. Loaded(c) = FromStore(rows[c])
    BY <1>3 DEF Loaded
  <2>2. CASE rows[c] = NoChannel
    BY <2>1, <2>2 DEF FromStore, Members, Durable
  <2>3. CASE rows[c] # NoChannel
    <3>1. rows[c] \in Window
      BY <2>3, RecordTypes DEF Base
    <3>2. /\ Members(Loaded(c)) = {j \in Members(rows[c]) : Resolves(j)}
          /\ \A j \in Members(Loaded(c)) : Loaded(c).nick[j] = rows[c].nick[j]
      BY <2>1, <3>1, FromStoreWindow
    <3>3. conn[i] = "active" /\ c \in handle[i].chans => i \in Members(Loaded(c))
      BY <3>2 DEF Durable
    <3>4. ASSUME i \in Members(Loaded(c))
          PROVE  /\ c \in handle[i].chans /\ Loaded(c).nick[i] = handle[i].nick
                 /\ conn[i] \in {"active", "discarded"} \/ Leaving(i)
                 /\ Leaving(i) => c \in job.todo
      <4>1. /\ Resolves(i) /\ c \in insts[i].chans
            /\ Loaded(c).nick[i] = insts[i].nick
        BY <3>2, <3>4 DEF Durable
      <4>2. CASE conn[i] \in {"registered", "active"}
        <5>1. handle[i].chans = insts[i].chans /\ handle[i].nick = insts[i].nick
          BY <4>2 DEF Base, RowInv, Connected
        <5>2. conn[i] = "active"
          <6>1. i # User => conn[i] # "registered"
            BY <4>1, <5>1 DEF Base, RowInv, Actors
          <6>. QED BY <4>2, <6>1 DEF Tracked
        <5>3. ~Leaving(i)
          BY <5>2, LeavingClients DEF Base
        <5>. QED BY <4>1, <5>1, <5>2, <5>3
      <4>3. CASE job.kind = "mark" /\ job.who = i
        BY <4>1, <4>3 DEF Marking, Leaving
      <4>. QED BY <4>1, <4>2, <4>3 DEF Known
    <3>. QED BY <3>3, <3>4
  <2>. QED BY <2>2, <2>3
<1>. QED BY <1>1, <1>2, <1>3

\* Two records say the same of i.
SameFor(i, v, w) ==
  /\ i \in Members(v) <=> i \in Members(w)
  /\ i \in Members(w) => v.nick[i] = w.nick[i]

LEMMA Agreeing ==
  ASSUME Base, NEW i \in Actors, Right(i), Tracked(i), Up, Resolves(i), ~Leaving(i),
         NEW c \in Channels
  PROVE  /\ conn[i] \in {"registered", "active"}
         /\ handle[i].chans = insts[i].chans /\ handle[i].nick = insts[i].nick
         /\ i \in Members(rows[c]) <=> c \in handle[i].chans
         /\ SameFor(i, rows[c], Loaded(c))
<1>1. conn[i] \in {"registered", "active"}
  BY DEF Right, Known, Leaving
<1>2. handle[i].chans = insts[i].chans /\ handle[i].nick = insts[i].nick
  BY <1>1 DEF Base, RowInv, Connected
<1>3. /\ i \in Members(rows[c]) <=> c \in handle[i].chans
      /\ i \in Members(rows[c]) => rows[c].nick[i] = handle[i].nick
  BY <1>2 DEF Right, Durable
<1>4. c \in handle[i].chans => conn[i] = "active"
  BY <1>1 DEF Base, RowInv, Tracked, Actors
<1>5. /\ i \in Members(Loaded(c)) => c \in handle[i].chans /\ Loaded(c).nick[i] = handle[i].nick
      /\ conn[i] = "active" /\ c \in handle[i].chans => i \in Members(Loaded(c))
  BY Loading
<1>. QED BY <1>1, <1>2, <1>3, <1>4, <1>5 DEF SameFor

\* The live record of c after the step shows of i what loading it showed.
Lively(i, c) ==
  \/ live'[c] = live[c] /\ gen'[c] = gen[c]
  \/ /\ i \in Members(live'[c]) =>
          i \in Members(Loaded(c)) /\ live'[c].nick[i] = Loaded(c).nick[i]
     /\ conn[i] = "active" /\ i \in Members(Loaded(c)) => i \in Members(live'[c])

\* So does its row, or it is what it was.
Lasting(i, c) == SameFor(i, rows'[c], rows[c]) \/ SameFor(i, rows'[c], Loaded(c))

\* A client that a step is not about.
LEMMA Bystander ==
  ASSUME Base, NEW i \in Actors, Right(i), Tracked(i)' => Tracked(i), Up,
         conn'[i] = conn[i], handle'[i] = handle[i], insts'[i] = insts[i],
         Leaving(i)' => Leaving(i), Leaving(i) => job' = job,
         \A c \in Channels : Lively(i, c),
         \A c \in Channels : SameFor(i, rows'[c], rows[c]) \/ (~Leaving(i) /\ Lasting(i, c))
  PROVE  Right(i)'
<1>. SUFFICES ASSUME Tracked(i)' PROVE Right(i)'
  BY DEF Right
<1>. Tracked(i) /\ Known(i) /\ Marking(i) /\ (Resolves(i)' <=> Resolves(i))
  BY DEF Right, Resolves
<1>1. ASSUME NEW c \in Channels PROVE Durable(i, c)'
  <2>1. CASE SameFor(i, rows'[c], rows[c])
    <3>1. Durable(i, c)
      BY DEF Right
    <3>. QED BY <2>1, <3>1 DEF Durable, SameFor
  <2>2. CASE ~Leaving(i) /\ SameFor(i, rows'[c], Loaded(c))
    <3>1. Resolves(i) => /\ handle[i].chans = insts[i].chans
                         /\ i \in Members(rows[c]) <=> c \in handle[i].chans
                         /\ SameFor(i, rows[c], Loaded(c))
      BY <2>2, Agreeing
    <3>2. Durable(i, c)
      BY DEF Right
    <3>3. Resolves(i) => SameFor(i, rows'[c], rows[c])
      BY <2>2, <3>1 DEF SameFor
    <3>. QED BY <3>2, <3>3 DEF Durable, SameFor
  <2>. QED BY <2>1, <2>2 DEF Lasting
<1>2. ASSUME NEW c \in Channels PROVE OnLive(i, c)'
  <2>1. i \in Members(live'[c]) =>
          /\ c \in handle[i].chans /\ live'[c].nick[i] = handle[i].nick
          /\ conn[i] \in {"active", "discarded"} \/ Leaving(i)
          /\ Leaving(i) => c \in job.todo
    BY Loading DEF Lively, Right, OnLive
  <2>2. Leaving(i) => Leaving(i)'
    BY DEF Leaving
  <2>. QED BY <2>1, <2>2 DEF OnLive
<1>3. ASSUME NEW c \in Channels PROVE Reached(i, c)'
  <2>1. Reached(i, c) /\ Lively(i, c)
    BY DEF Right
  <2>2. conn[i] = "active" /\ c \in handle[i].chans => i \in Members(Loaded(c))
    BY Loading
  <2>3. i \in Members(live'[c]) => live'[c] # NoChannel
    BY DEF Members
  <2>4. CASE live'[c] = live[c] /\ gen'[c] = gen[c]
    BY <2>1, <2>4 DEF Reached
  <2>5. CASE conn[i] = "active" /\ i \in Members(Loaded(c)) => i \in Members(live'[c])
    BY <2>2, <2>3, <2>5 DEF Reached
  <2>. QED BY <2>1, <2>4, <2>5 DEF Lively
<1>4. Known(i)'
  BY LeavingClients DEF Known, Leaving, Base
<1>5. Marking(i)'
  <2>1. job'.kind = "mark" /\ job'.who = i => job' = job
    BY DEF Leaving
  <2>. QED BY <2>1 DEF Marking
<1>. QED BY <1>1, <1>2, <1>3, <1>4, <1>5 DEF Right

\* A client that a step is about and leaves connected.
LEMMA Settling ==
  ASSUME NEW i \in Actors, conn'[i] = "active", ~Leaving(i)',
         handle'[i].chans = insts'[i].chans, handle'[i].nick = insts'[i].nick,
         \A c \in Channels :
           /\ i \in Members(rows'[c]) <=> c \in handle'[i].chans
           /\ i \in Members(rows'[c]) => rows'[c].nick[i] = handle'[i].nick
           /\ i \in Members(live'[c]) => c \in handle'[i].chans
           /\ i \in Members(live'[c]) => live'[c].nick[i] = handle'[i].nick
           /\ c \in handle'[i].chans => i \in Members(live'[c])
  PROVE  Right(i)'
<1>1. \A c \in Channels : i \in Members(live'[c]) => live'[c] # NoChannel
  BY DEF Members
<1>. QED BY <1>1 DEF Right, Durable, OnLive, Reached, Known, Marking, Leaving

\* A client that a step takes away.
LEMMA Going ==
  ASSUME NEW i \in Actors, conn'[i] # "active", ~Resolves(i)' \/ ~Up',
         \A c \in Channels : OnLive(i, c)' /\ Durable(i, c)', Marking(i)'
  PROVE  Right(i)'
BY DEF Right, Reached, Known

\* The records of c show of i what they did, or what the loaded one does.
Shows(i, c) ==
  /\ \/ live'[c] = live[c] /\ gen'[c] = gen[c]
     \/ SameFor(i, live'[c], Loaded(c))
  /\ Lasting(i, c)

LEMMA FilledShows ==
  ASSUME Base, NEW cs \in SUBSET Channels, live' = Filled(cs), UNCHANGED <<gen, rows>>
  PROVE  \A i \in Actors, c \in Channels : Shows(i, c)
<1>1. \A c \in Channels : live'[c] = live[c] \/ live'[c] = Loaded(c)
  BY DEF Filled
<1>. QED BY <1>1 DEF Shows, Lasting, SameFor

LEMMA SavedShows ==
  ASSUME Base, NEW i \in Actors, NEW c \in Channels, NEW w,
         Saves(c, w), SameFor(i, w, Loaded(c)),
         \A d \in Channels \ {c} : gen'[d] = gen[d]
  PROVE  \A d \in Channels : Shows(i, d)
<1>1. live'[c] = w /\ rows'[c] = w
  BY DEF Saves, Base, TypeOK
<1>2. \A d \in Channels \ {c} : live'[d] = live[d] /\ rows'[d] = rows[d]
  BY DEF Saves, Base, TypeOK
<1>. QED BY <1>1, <1>2 DEF Shows, Lasting, SameFor

LEMMA LeftShows ==
  ASSUME Base, NEW i \in Actors, NEW c \in Channels, Loaded(c) # NoChannel
  PROVE  LET w == Without(Loaded(c), i)
         IN /\ \A j \in Actors \ {i} :
                 SameFor(j, IF Members(w) = {} THEN NoChannel ELSE w, Loaded(c))
            /\ i \notin Members(IF Members(w) = {} THEN NoChannel ELSE w)
<1>1. Loaded(c) \in Window
  BY RecordTypes DEF Base
<1>2. /\ Members(Without(Loaded(c), i)) = Members(Loaded(c)) \ {i}
      /\ \A k \in Members(Loaded(c)) \ {i} : Without(Loaded(c), i).nick[k] = Loaded(c).nick[k]
  BY <1>1, WithoutWindow
<1>3. Members(NoChannel) = {}
  BY DEF Members
<1>. QED BY <1>2, <1>3 DEF SameFor

LEMMA RowsWithoutShows ==
  ASSUME Base, NEW i \in Actors, NEW c \in Channels
  PROVE  /\ \A j \in Actors \ {i} : SameFor(j, RowsWithout(i)[c], rows[c])
         /\ i \notin Members(RowsWithout(i)[c])
<1>1. RowsWithout(i)[c] = IF i \notin Members(rows[c]) THEN rows[c]
                          ELSE IF Members(rows[c]) = {i} THEN NoChannel
                          ELSE Without(rows[c], i)
  BY DEF RowsWithout
<1>2. Members(NoChannel) = {}
  BY DEF Members
<1>3. CASE i \notin Members(rows[c])
  BY <1>1, <1>3 DEF SameFor
<1>4. CASE i \in Members(rows[c])
  <2>1. rows[c] \in Window
    BY <1>4, <1>2, RecordTypes DEF Base
  <2>2. /\ Members(Without(rows[c], i)) = Members(rows[c]) \ {i}
        /\ \A k \in Members(rows[c]) \ {i} : Without(rows[c], i).nick[k] = rows[c].nick[k]
    BY <2>1, WithoutWindow
  <2>. QED BY <1>1, <1>2, <1>4, <2>2 DEF SameFor
<1>. QED BY <1>3, <1>4

LEMMA RenamedShows ==
  ASSUME Base, NEW i \in Actors, NEW n \in Nicks, Renames(i, n),
         NEW j \in Actors \ {i}
  PROVE  \A c \in Channels : Shows(j, c)
<1>. SUFFICES ASSUME NEW c \in Channels PROVE Shows(j, c)
  OBVIOUS
<1>1. CASE c \in handle[i].chans
  <2>1. live'[c] = Renamed(Loaded(c), i, n) /\ rows'[c] = Renamed(Loaded(c), i, n)
    BY <1>1 DEF Renames
  <2>2. Loaded(c) \in Window
    BY <1>1, RecordTypes DEF Renames, Base
  <2>3. SameFor(j, Renamed(Loaded(c), i, n), Loaded(c))
    BY <2>2, RenamedWindow DEF SameFor
  <2>. QED BY <2>1, <2>3 DEF Shows, Lasting
<1>2. CASE c \notin handle[i].chans
  BY <1>2 DEF Renames, Shows, Lasting, SameFor
<1>. QED BY <1>1, <1>2

LEMMA LeaveShows ==
  ASSUME Base, NEW c \in Channels, Leave(c), NEW j \in Actors \ {job.who}
  PROVE  \A d \in Channels : Shows(j, d)
<1>. job.who \in Actors
  BY DEF Base, TypeOK
<1>. DEFINE w == Without(Loaded(c), job.who)
            after == IF Members(w) = {} THEN NoChannel ELSE w
<1>1. /\ live' = [live EXCEPT ![c] = after] /\ (rows' = rows \/ rows' = [rows EXCEPT ![c] = after])
      /\ \A d \in Channels \ {c} : gen'[d] = gen[d]
      /\ Loaded(c) # NoChannel
  BY DEF Leave, Emptied, Base, TypeOK
<1>2. SameFor(j, after, Loaded(c))
  BY <1>1, LeftShows
<1>. HIDE DEF after
<1>3. live'[c] = after /\ (rows'[c] = rows[c] \/ rows'[c] = after)
  BY <1>1 DEF Base, TypeOK
<1>4. \A d \in Channels \ {c} : live'[d] = live[d] /\ rows'[d] = rows[d]
  BY <1>1 DEF Base, TypeOK
<1>. QED BY <1>1, <1>2, <1>3, <1>4 DEF Shows, Lasting, SameFor

LEMMA DepartShows ==
  ASSUME Base, NEW i \in Actors, NEW c \in Channels, Departs(i, c)
  PROVE  /\ \A j \in Actors \ {i}, d \in Channels : Shows(j, d)
         /\ i \notin Members(live'[c]) /\ i \notin Members(rows'[c])
         /\ \A d \in Channels \ {c} : live'[d] = live[d] /\ rows'[d] = rows[d]
<1>. DEFINE w == Without(Loaded(c), i)
            after == IF Members(w) = {} THEN NoChannel ELSE w
<1>1. Saves(c, after) /\ (\A d \in Channels \ {c} : gen'[d] = gen[d])
  BY DEF Departs, Base, TypeOK
<1>2. Loaded(c) # NoChannel
  BY DEF Departs, On, Members
<1>3. (\A j \in Actors \ {i} : SameFor(j, after, Loaded(c))) /\ i \notin Members(after)
  BY <1>2, LeftShows
<1>. HIDE DEF after
<1>4. \A j \in Actors \ {i}, d \in Channels : Shows(j, d)
  BY <1>1, <1>3, SavedShows
<1>. QED BY <1>1, <1>3, <1>4 DEF Saves, Base, TypeOK

LEMMA EnterShows ==
  ASSUME Base, NEW i \in Actors, NEW c \in Channels, NEW w \in Window, Enters(i, c, w)
  PROVE  \A j \in Actors \ {i}, d \in Channels : Shows(j, d)
<1>1. \A j \in Actors \ {i} : SameFor(j, w, Loaded(c))
  BY DEF Enters, SameFor
<1>. QED BY <1>1, SavedShows DEF Enters

LEMMA UpdateShows ==
  ASSUME Base, NEW c \in Channels, NEW w \in Window, Updates(c, w)
  PROVE  \A j \in Actors, d \in Channels : Shows(j, d)
<1>1. Members(w) = Members(Loaded(c))
  BY WindowFields, RecordTypes DEF Updates, Base, Members
<1>2. \A j \in Actors : SameFor(j, w, Loaded(c))
  BY <1>1 DEF Updates, SameFor
<1>. QED BY <1>2, SavedShows DEF Updates

\* The member that Leave is about.
LEMMA LeaveTakes ==
  ASSUME Base, NEW c \in Channels, Leave(c)
  PROVE  /\ job.who \notin Members(live'[c])
         /\ rows'[c] = rows[c] \/ job.who \notin Members(rows'[c])
         /\ \A d \in Channels \ {c} : live'[d] = live[d] /\ rows'[d] = rows[d]
<1>. job.who \in Actors
  BY DEF Base, TypeOK
<1>. DEFINE w == Without(Loaded(c), job.who)
            after == IF Members(w) = {} THEN NoChannel ELSE w
<1>1. /\ live' = [live EXCEPT ![c] = after] /\ (rows' = rows \/ rows' = [rows EXCEPT ![c] = after])
      /\ Loaded(c) # NoChannel
  BY DEF Leave, Emptied
<1>2. job.who \notin Members(after)
  BY <1>1, LeftShows
<1>. HIDE DEF after
<1>. QED BY <1>1, <1>2 DEF Base, TypeOK

\* A QUIT or KILL whose reloads succeed shows of the others what their rows do.
LEMMA DeleteShows ==
  ASSUME Base, NEW i \in Actors, Deletes(i), readFails' = readFails
  PROVE  \A c \in Channels :
           /\ rows'[c] = RowsWithout(i)[c]
           /\ c \notin handle[i].chans => live'[c] = live[c] /\ gen'[c] = gen[c]
           /\ c \in handle[i].chans => live'[c] = FromStore(RowsWithout(i)[c])
<1>1. PICK failed \in SUBSET handle[i].chans :
        LET chans == handle[i].chans
            unloaded == {c \in handle[i].chans : Loaded(c) = NoChannel}
            destroyed == {c \in chans : DestroyedByReload(i, unloaded, failed, c)}
        IN /\ Cardinality(failed) <= readFails
           /\ readFails' = readFails - Cardinality(failed)
           /\ rows' = RowsWithout(i)
           /\ live' = [c \in Channels |->
                         IF c \notin chans THEN live[c]
                         ELSE IF c \in failed THEN NoChannel
                         ELSE FromStore(RowsWithout(i)[c])]
           /\ gen' = [c \in Channels |-> IF c \in destroyed THEN gen[c] + 1 ELSE gen[c]]
  BY DEF Deletes, InstanceDeleted
<1>2. failed = {}
  <2>1. IsFiniteSet(failed)
    BY ClientTypes, ChannelsAssumption, FS_Subset
  <2>2. readFails \in Nat /\ Cardinality(failed) \in Nat
    BY <2>1, FS_CardinalityType, ChannelsAssumption DEF Base, TypeOK
  <2>3. Cardinality(failed) = 0
    BY <1>1, <2>2
  <2>. QED BY <2>1, <2>3, FS_EmptySet
<1>. QED BY <1>1, <1>2

\* Nobody who is not connected comes onto a record.
LEMMA NobodyComes ==
  ASSUME Base, NEW i \in Actors, \A c \in Channels : Shows(i, c)
  PROVE  \A c \in Channels :
           /\ i \in Members(live'[c]) => i \in Members(live[c]) \/ i \in Members(rows[c])
           /\ i \in Members(rows'[c]) => i \in Members(live[c]) \/ i \in Members(rows[c])
BY LoadedMembers DEF Shows, Lasting, SameFor

LEMMA DeleteComers ==
  ASSUME Base, NEW i \in Actors, Deletes(i), NEW j \in Actors
  PROVE  \A c \in Channels :
           /\ j \in Members(live'[c]) => j \in Members(live[c]) \/ j \in Members(rows[c])
           /\ j \in Members(rows'[c]) => j \in Members(rows[c])
<1>1. \A c \in Channels :
        /\ rows'[c] = RowsWithout(i)[c]
        /\ \/ live'[c] = live[c] \/ live'[c] = NoChannel
           \/ live'[c] = FromStore(RowsWithout(i)[c])
  BY DEF Deletes, InstanceDeleted
<1>2. \A c \in Channels : j \in Members(RowsWithout(i)[c]) => j \in Members(rows[c])
  BY RowsWithoutShows DEF SameFor
<1>3. \A c \in Channels :
        j \in Members(FromStore(RowsWithout(i)[c])) => j \in Members(RowsWithout(i)[c])
  <2>. TAKE c \in Channels
  <2>1. RowsWithout(i)[c] \in Window \cup {NoChannel}
    BY RecordTypes DEF Base
  <2>. QED BY <2>1, FromStoreWindow DEF FromStore, Members
<1>4. Members(NoChannel) = {}
  BY DEF Members
<1>. QED BY <1>1, <1>2, <1>3, <1>4

LEMMA Comers ==
  ASSUME Base, Moves, NEW j \in Actors, conn[j] # "active"
  PROVE  \A c \in Channels :
           /\ j \in Members(live'[c]) => j \in Members(live[c]) \/ j \in Members(rows[c])
           /\ j \in Members(rows'[c]) => j \in Members(live[c]) \/ j \in Members(rows[c])
<1>. DEFINE Coming == \A c \in Channels :
           /\ j \in Members(live'[c]) => j \in Members(live[c]) \/ j \in Members(rows[c])
           /\ j \in Members(rows'[c]) => j \in Members(live[c]) \/ j \in Members(rows[c])
<1>. User \in Actors /\ Models \subseteq Actors
  BY ChannelsAssumption DEF Actors
<1>. HIDE DEF Coming
<1>0. (\A c \in Channels : Shows(j, c)) => Coming
  BY NobodyComes DEF Coming
<1>. USE <1>0
<1>1. ASSUME NEW i \in Actors, NEW c \in Channels, NEW w \in Window, Enters(i, c, w)
      PROVE  Coming
  <2>1. j # i
    BY <1>1 DEF Enters, Active
  <2>. QED BY <1>1, <2>1, EnterShows
<1>2. ASSUME NEW cs \in SUBSET Channels, Fills(cs)
      PROVE  Coming
  <2>1. \E ds \in SUBSET Channels : live' = Filled(ds)
    BY <1>2, ClientTypes DEF Fills, Otherwise, Up
  <2>2. UNCHANGED <<gen, rows>>
    BY <1>2 DEF Fills, Otherwise, Up
  <2>. QED BY <2>1, <2>2, FilledShows
<1>3. ASSUME NEW i \in Actors, NEW c \in Channels, Departs(i, c)
      PROVE  Coming
  <2>1. j # i
    BY <1>3 DEF Departs, Active
  <2>. QED BY <1>3, <2>1, DepartShows
<1>4. ASSUME NEW c \in Channels, NEW w \in Window, Updates(c, w)
      PROVE  Coming
  BY <1>4, UpdateShows
<1>5. ASSUME NEW i \in Actors, NEW n \in Nicks, Renames(i, n)
      PROVE  Coming
  <2>1. j # i
    BY <1>5 DEF Renames, Active
  <2>. QED BY <1>5, <2>1, RenamedShows
<1>6. ASSUME NEW n \in Nicks, SaveNick(n)
      PROVE  Coming
  <2>1. UNCHANGED <<live, rows>>
    BY <1>6 DEF SaveNick, Running, Up, memory, budget
  <2>. QED BY <2>1 DEF Coming
<1>7. ASSUME NEW i \in Actors, Deletes(i)
      PROVE  Coming
  BY <1>7, DeleteComers DEF Coming
<1>8. ASSUME NEW i \in Actors, Forced(i)
      PROVE  Coming
  <2>1. \E cs \in SUBSET Channels : live' = Filled(cs)
    BY <1>8, ClientTypes DEF Forced, Running, Up
  <2>2. UNCHANGED <<gen, rows>>
    BY <1>8 DEF Forced, Running, Up
  <2>. QED BY <2>1, <2>2, FilledShows
<1>9. ASSUME NEW m \in Models, NEW n \in Nicks, NEW c \in Channels, Registers(m, n, c)
      PROVE  Coming
  <2>1. \E cs \in SUBSET Channels : live' = Filled(cs)
    BY <1>9, ClientTypes DEF Registers, Running, Up
  <2>2. UNCHANGED <<gen, rows>>
    BY <1>9 DEF Registers, Running, Up
  <2>. QED BY <2>1, <2>2, FilledShows
<1>10. ASSUME NEW m \in Models, Attach(m)
       PROVE  Coming
  <2>1. UNCHANGED <<live, rows>>
    BY <1>10 DEF Attach, Up, durable, budget
  <2>. QED BY <2>1 DEF Coming
<1>11. ASSUME NEW m \in Models, Discard(m)
       PROVE  Coming
  <2>1. UNCHANGED <<live, rows>>
    BY <1>11 DEF Discard, MarkOrRemember, Up
  <2>. QED BY <2>1 DEF Coming
<1>12. ASSUME NEW m \in Models, DiscardOnLoop(m)
       PROVE  Coming
  <2>1. \E cs \in SUBSET Channels : live' = Filled(cs)
    BY <1>12, ClientTypes DEF DiscardOnLoop, Running, Up, durable, budget
  <2>2. UNCHANGED <<gen, rows>>
    BY <1>12 DEF DiscardOnLoop, Running, Up, durable, budget
  <2>. QED BY <2>1, <2>2, FilledShows
<1>13. ASSUME MarkPending
       PROVE  Coming
  <2>1. UNCHANGED <<live, rows>>
    BY <1>13 DEF MarkPending, MarkOrRemember, memory
  <2>. QED BY <2>1 DEF Coming
<1>14. ASSUME NEW c \in Channels, Leave(c)
       PROVE  Coming
  <2>1. CASE j # job.who
    BY <1>14, <2>1, LeaveShows
  <2>2. CASE j = job.who
    BY <1>14, <2>2, LeaveTakes DEF Coming
  <2>. QED BY <2>1, <2>2
<1>15. ASSUME NEW c \in Channels, CleanupStops(c)
       PROVE  Coming
  <2>1. UNCHANGED <<live, rows>>
    BY <1>15 DEF CleanupStops, durable, budget
  <2>. QED BY <2>1 DEF Coming
<1>16. ASSUME FinishDeparture
       PROVE  Coming
  <2>1. live' = live /\ (rows' = rows \/ \E i \in Actors : rows' = RowsWithout(i))
    BY <1>16 DEF FinishDeparture, Base, TypeOK
  <2>2. \A i \in Actors, c \in Channels : j \in Members(RowsWithout(i)[c]) => j \in Members(rows[c])
    BY RowsWithoutShows DEF SameFor
  <2>. QED BY <2>1, <2>2 DEF Coming
<1>17. ASSUME AttachUser
       PROVE  Coming
  <2>1. UNCHANGED <<live, rows>>
    BY <1>17 DEF AttachUser, budget
  <2>. QED BY <2>1 DEF Coming
<1>18. ASSUME NEW m \in Models, PurgePending(m)
       PROVE  Coming
  <2>1. live' = live /\ (rows' = rows \/ \E i \in Actors : rows' = RowsWithout(i))
    BY <1>18 DEF PurgePending
  <2>2. \A i \in Actors, c \in Channels : j \in Members(RowsWithout(i)[c]) => j \in Members(rows[c])
    BY RowsWithoutShows DEF SameFor
  <2>. QED BY <2>1, <2>2 DEF Coming
<1>19. ASSUME StartModels
       PROVE  Coming
  <2>1. UNCHANGED <<live, rows>>
    BY <1>19 DEF StartModels, durable
  <2>. QED BY <2>1 DEF Coming
<1>20. ASSUME Cleanup
       PROVE  Coming
  <2>1. \E cs \in SUBSET Channels : live' = Filled(cs)
    BY <1>20, ClientTypes DEF Cleanup, Running, Up, durable, budget, StaleMemberships
  <2>2. UNCHANGED <<gen, rows>>
    BY <1>20 DEF Cleanup, Running, Up, durable, budget
  <2>. QED BY <2>1, <2>2, FilledShows
<1>21. ASSUME Reconciled
       PROVE  Coming
  <2>1. UNCHANGED <<live, rows>>
    BY <1>21 DEF Reconciled, Up, durable, budget
  <2>. QED BY <2>1 DEF Coming
<1>22. ASSUME Reactivate
       PROVE  Coming
  <2>1. live' = live /\ (rows' = rows \/ \E i \in Actors : rows' = RowsWithout(i))
    BY <1>22 DEF Reactivate
  <2>2. \A i \in Actors, c \in Channels : j \in Members(RowsWithout(i)[c]) => j \in Members(rows[c])
    BY RowsWithoutShows DEF SameFor
  <2>. QED BY <2>1, <2>2 DEF Coming
<1>23. ASSUME Activate
       PROVE  Coming
  <2>1. UNCHANGED <<live, rows>>
    BY <1>23 DEF Activate, Up
  <2>. QED BY <2>1 DEF Coming
<1>24. ASSUME Stop
       PROVE  Coming
  <2>1. UNCHANGED rows /\ (\A c \in Channels : live'[c] = NoChannel)
    BY <1>24 DEF Stop, durable
  <2>2. Members(NoChannel) = {}
    BY DEF Members
  <2>. QED BY <2>1, <2>2 DEF Coming
<1>. QED BY <1>1, <1>2, <1>3, <1>4, <1>5, <1>6, <1>7, <1>8, <1>9, <1>10, <1>11, <1>12, <1>13, <1>14, <1>15, <1>16, <1>17, <1>18, <1>19, <1>20, <1>21, <1>22, <1>23, <1>24 DEF Moves, Boot, Coming

LEMMA NoneKept ==
  ASSUME Base, Moves, NEW j \in Models, conn'[j] = "none"
  PROVE  conn[j] = "none" /\ insts'[j] = insts[j] /\ (j \in unmarked' => j \in unmarked)
<1>. DEFINE Kept == conn[j] = "none" /\ insts'[j] = insts[j] /\ (j \in unmarked' => j \in unmarked)
<1>. User \in Actors /\ Models \subseteq Actors /\ j # User
  BY ChannelsAssumption DEF Actors
<1>. conn \in [Actors -> ConnStates] /\ JobInv
  BY DEF Base, TypeOK
<1>1. ASSUME NEW i \in Actors, NEW c \in Channels, NEW w \in Window, Enters(i, c, w)
      PROVE  Kept
  <2>1. j # i /\ UNCHANGED <<conn, unmarked>>
    BY <1>1 DEF Enters, Otherwise, Active
  <2>. QED BY <1>1, <2>1 DEF Enters, Stores, Base, TypeOK
<1>2. ASSUME NEW cs \in SUBSET Channels, Fills(cs)
      PROVE  Kept
  BY <1>2 DEF Fills, Otherwise, Up, Otherwise, Kept
<1>3. ASSUME NEW i \in Actors, NEW c \in Channels, Departs(i, c)
      PROVE  Kept
  <2>1. j # i /\ UNCHANGED <<conn, unmarked>>
    BY <1>3 DEF Departs, Otherwise, Active
  <2>. QED BY <1>3, <2>1 DEF Departs, Stores, Base, TypeOK
<1>4. ASSUME NEW c \in Channels, NEW w \in Window, Updates(c, w)
      PROVE  Kept
  BY <1>4 DEF Updates, Otherwise, Running, Up, Otherwise, Kept
<1>5. ASSUME NEW i \in Actors, NEW n \in Nicks, Renames(i, n)
      PROVE  Kept
  <2>1. j # i /\ UNCHANGED <<conn, unmarked>>
    BY <1>5 DEF Renames, Otherwise, Active
  <2>. QED BY <1>5, <2>1 DEF Renames, Stores, Base, TypeOK
<1>6. ASSUME NEW n \in Nicks, SaveNick(n)
      PROVE  Kept
  BY <1>6 DEF SaveNick, Running, Up, memory, budget, Otherwise, Kept
<1>7. ASSUME NEW i \in Actors, Deletes(i)
      PROVE  Kept
  <2>1. conn' = [conn EXCEPT ![i] = Retired(i)] /\ insts' = [insts EXCEPT ![i] = NoRow] /\ UNCHANGED unmarked
    BY <1>7, Deleted DEF Deletes
  <2>. QED BY <2>1 DEF Retired, Base, TypeOK
<1>8. ASSUME NEW i \in Actors, Forced(i)
      PROVE  Kept
  <2>1. conn' = [conn EXCEPT ![i] = Retired(i)] /\ UNCHANGED insts /\ (unmarked' = unmarked \/ unmarked' = unmarked \cup {User})
    BY <1>8 DEF Forced
  <2>. QED BY <2>1 DEF Retired
<1>9. ASSUME NEW m \in Models, NEW n \in Nicks, NEW c \in Channels, Registers(m, n, c)
      PROVE  Kept
  <2>. QED BY <1>9 DEF Registers, Base, TypeOK
<1>10. ASSUME NEW m \in Models, Attach(m)
       PROVE  Kept
  BY <1>10 DEF Attach, Up, durable, budget, Otherwise, Kept
<1>11. ASSUME NEW m \in Models, Discard(m)
       PROVE  Kept
  <2>1. j # m /\ conn' = [conn EXCEPT ![m] = "discarded"]
    BY <1>11 DEF Discard
  <2>. QED BY <1>11, <2>1, Marked DEF Discard, MarkOrRemember, Base
<1>12. ASSUME NEW m \in Models, DiscardOnLoop(m)
       PROVE  Kept
  BY <1>12 DEF DiscardOnLoop, Running, Up, durable, budget, Otherwise, Kept
<1>13. ASSUME MarkPending
       PROVE  Kept
  <2>1. UNCHANGED conn /\ job.who # j /\ job.who \in Actors
    BY <1>13 DEF MarkPending, memory, JobInv, Idle, Base, TypeOK
  <2>. QED BY <1>13, <2>1, Marked DEF MarkPending, MarkOrRemember, Base
<1>14. ASSUME NEW c \in Channels, Leave(c)
       PROVE  Kept
  <2>1. UNCHANGED <<insts, unmarked>> /\ (conn' = conn \/ conn' = Aborted)
    BY <1>14 DEF Leave
  <2>. QED BY <2>1 DEF Aborted
<1>15. ASSUME NEW c \in Channels, CleanupStops(c)
       PROVE  Kept
  <2>1. UNCHANGED <<insts, unmarked>> /\ conn' = Aborted
    BY <1>15 DEF CleanupStops, durable
  <2>. QED BY <2>1 DEF Aborted
<1>16. ASSUME FinishDeparture
       PROVE  Kept
  <2>1. job.who \in Actors /\ conn' = [conn EXCEPT ![job.who] = Retired(job.who)]
    BY <1>16 DEF FinishDeparture, Base, TypeOK
  <2>2. job.who # j /\ conn[j] = "none"
    BY <2>1 DEF Retired
  <2>3. \/ insts' = [insts EXCEPT ![job.who] = NoRow]
        \/ insts' = insts
        \/ \E ok \in BOOLEAN : Mark(job.who, ok)
    BY <1>16 DEF FinishDeparture
  <2>4. insts'[j] = insts[j]
    BY <2>1, <2>2, <2>3, Marked DEF Base, TypeOK
  <2>5. unmarked' = unmarked \/ unmarked' = DoneAfterAll(job.who)
    BY <1>16 DEF FinishDeparture
  <2>. QED BY <2>2, <2>4, <2>5 DEF DoneAfterAll
<1>17. ASSUME AttachUser
       PROVE  Kept
  <2>. QED BY <1>17 DEF AttachUser, Base, TypeOK
<1>18. ASSUME NEW m \in Models, PurgePending(m)
       PROVE  Kept
  <2>. QED BY <1>18 DEF PurgePending, Base, TypeOK
<1>19. ASSUME StartModels
       PROVE  Kept
  <2>1. UNCHANGED <<insts, unmarked>> /\ (conn'[j] = "active" \/ conn'[j] = conn[j])
    BY <1>19 DEF StartModels, durable
  <2>. QED BY <2>1
<1>20. ASSUME Cleanup
       PROVE  Kept
  BY <1>20 DEF Cleanup, Running, Up, durable, budget, Otherwise, Kept
<1>21. ASSUME Reconciled
       PROVE  Kept
  BY <1>21 DEF Reconciled, Up, durable, budget, Otherwise, Kept
<1>22. ASSUME Reactivate
       PROVE  Kept
  <2>1. UNCHANGED unmarked /\ conn'[j] = conn[j] /\ insts'[j] = insts[j]
    BY <1>22 DEF Reactivate, Base, TypeOK
  <2>. QED BY <2>1
<1>23. ASSUME Activate
       PROVE  Kept
  <2>1. UNCHANGED <<insts, unmarked>> /\ conn'[j] = conn[j]
    BY <1>23 DEF Activate, Aborted
  <2>. QED BY <2>1
<1>24. ASSUME Stop
       PROVE  Kept
  <2>1. UNCHANGED <<insts, unmarked>> /\ conn[j] = "none"
    BY <1>24 DEF Stop, durable
  <2>. QED BY <2>1
<1>. QED BY <1>1, <1>2, <1>3, <1>4, <1>5, <1>6, <1>7, <1>8, <1>9, <1>10, <1>11, <1>12, <1>13, <1>14, <1>15, <1>16, <1>17, <1>18, <1>19, <1>20, <1>21, <1>22, <1>23, <1>24 DEF Moves, Boot

LEMMA FreshStep ==
  ASSUME Base, Fresh, Moves
  PROVE  Fresh'
<1>. SUFFICES ASSUME NEW m \in Models, conn'[m] = "none"
              PROVE  m \notin unmarked' /\ insts'[m] = NoRow /\ Away(m)'
  BY DEF Fresh
<1>1. /\ conn[m] = "none" /\ insts'[m] = insts[m]
      /\ m \in unmarked' => m \in unmarked
  BY NoneKept
<1>2. m \notin unmarked /\ insts[m] = NoRow /\ Away(m)
  BY <1>1 DEF Fresh
<1>3. Away(m)'
  BY <1>1, <1>2, Comers DEF Away, Actors
<1>. QED BY <1>1, <1>2, <1>3

LEMMA Onlooker ==
  ASSUME Base, NEW i \in Actors, Right(i), Tracked(i)' => Tracked(i), Up,
         conn'[i] = conn[i], handle'[i] = handle[i], insts'[i] = insts[i],
         job' = job \/ ~Leaving(i)', job' = job \/ ~Leaving(i),
         \A c \in Channels : Shows(i, c), rows' = rows \/ ~Leaving(i)
  PROVE  Right(i)'
<1>1. Leaving(i)' => Leaving(i)
  BY DEF Leaving
<1>2. \A c \in Channels : Lively(i, c)
  BY DEF Shows, Lively, SameFor
<1>3. \A c \in Channels : SameFor(i, rows'[c], rows[c]) \/ (~Leaving(i) /\ Lasting(i, c))
  BY DEF Shows, SameFor
<1>. QED BY <1>1, <1>2, <1>3, Bystander

LEMMA StillShows ==
  ASSUME UNCHANGED <<live, gen, rows>>
  PROVE  \A i \in Actors, c \in Channels : Shows(i, c)
BY DEF Shows, Lasting, SameFor

LEMMA RowlessShows ==
  ASSUME Base, NEW i \in Actors, rows' = RowsWithout(i), UNCHANGED <<live, gen>>
  PROVE  \A j \in Actors \ {i}, c \in Channels : Shows(j, c)
BY RowsWithoutShows DEF Shows, Lasting

\* Nothing of i changes before the models are started.
LEMMA Asleep ==
  ASSUME NEW i \in Actors, Right(i), Tracked(i)' => Tracked(i), Up' => Up,
         conn'[i] = conn[i], handle'[i] = handle[i], insts'[i] = insts[i],
         UNCHANGED <<job, live, gen>>, \A c \in Channels : SameFor(i, rows'[c], rows[c])
  PROVE  Right(i)'
<1>1. \A c \in Channels : Tracked(i) =>
        Durable(i, c) /\ OnLive(i, c) /\ Reached(i, c) /\ Known(i) /\ Marking(i)
  BY DEF Right
<1>2. (Resolves(i)' <=> Resolves(i)) /\ (Leaving(i)' <=> Leaving(i))
  BY DEF Resolves, Leaving
<1>3. \A c \in Channels : Durable(i, c) => Durable(i, c)'
  BY <1>2 DEF Durable, SameFor
<1>4. \A c \in Channels : OnLive(i, c) => OnLive(i, c)'
  BY <1>2 DEF OnLive
<1>5. \A c \in Channels : Reached(i, c) => Reached(i, c)'
  BY DEF Reached
<1>6. (Known(i) => Known(i)') /\ (Marking(i) => Marking(i)')
  BY <1>2 DEF Known, Marking
<1>. QED BY <1>1, <1>3, <1>4, <1>5, <1>6 DEF Right

\* The client a JOIN, PART, KICK or NICK is about.
LEMMA EnterRight ==
  ASSUME Base, NEW i \in Actors, NEW c \in Channels, NEW w \in Window, Enters(i, c, w), Right(i)
  PROVE  Right(i)'
<1>. SUFFICES ASSUME Tracked(i)' PROVE Right(i)'
  BY DEF Right
<1>1. /\ conn[i] = "active" /\ UNCHANGED <<conn, job, unmarked>> /\ job = Idle /\ Up
  BY DEF Enters, Otherwise, Running, Active
<1>2. Tracked(i) /\ ~Leaving(i) /\ ~Leaving(i)'
  BY <1>1 DEF Tracked, Leaving, Idle
<1>3. /\ Resolves(i) /\ handle[i].nick = insts[i].nick /\ handle[i].chans = insts[i].chans
  BY <1>1 DEF Base, RowInv, Connected
<1>4. PICK cs \in SUBSET Channels : cs = handle[i].chans \cup {c}
  BY ClientTypes
<1>5. PICK h \in Instance : h.nick = handle[i].nick /\ h.chans = cs /\ Stores(i, h)
  <2>1. /\ [handle[i] EXCEPT !.chans = cs] = [nick |-> handle[i].nick, chans |-> cs]
        /\ [handle[i] EXCEPT !.chans = cs] \in Instance
    BY <1>1, HandleChanged DEF Connected
  <2>. QED BY <1>4, <2>1 DEF Enters
<1>6. /\ handle'[i].chans = cs /\ insts'[i].chans = cs
      /\ handle'[i].nick = handle[i].nick /\ insts'[i].nick = handle[i].nick
  BY <1>5, Stored
<1>7. live'[c] = w /\ rows'[c] = w /\ i \in Members(w) /\ w.nick[i] = handle[i].nick
  BY DEF Enters, Saves, Base, TypeOK
<1>8. \A d \in Channels \ {c} : live'[d] = live[d] /\ rows'[d] = rows[d] /\ gen'[d] = gen[d]
  BY DEF Enters, Saves, Base, TypeOK
<1>9. ASSUME NEW d \in Channels \ {c}
      PROVE  Durable(i, d)' /\ OnLive(i, d)' /\ Reached(i, d)'
  <2>1. Durable(i, d) /\ OnLive(i, d) /\ Reached(i, d)
    BY <1>2 DEF Right
  <2>2. d \in cs <=> d \in handle[i].chans
    BY <1>4
  <2>3. Durable(i, d)'
    BY <1>3, <1>6, <1>8, <2>1, <2>2 DEF Durable
  <2>4. OnLive(i, d)'
    BY <1>1, <1>2, <1>6, <1>8, <2>1, <2>2 DEF OnLive
  <2>5. Reached(i, d)'
    BY <1>1, <1>6, <1>8, <2>1, <2>2 DEF Reached
  <2>. QED BY <2>3, <2>4, <2>5
<1>10. w # NoChannel
  BY WindowFields
<1>11. Durable(i, c)' /\ OnLive(i, c)' /\ Reached(i, c)'
  BY <1>1, <1>2, <1>4, <1>6, <1>7, <1>10 DEF Durable, OnLive, Reached
<1>12. Known(i)' /\ Marking(i)'
  BY <1>1, <1>2 DEF Known, Marking, Leaving
<1>. QED BY <1>9, <1>11, <1>12 DEF Right

LEMMA DepartRight ==
  ASSUME Base, NEW i \in Actors, NEW c \in Channels, Departs(i, c), Right(i)
  PROVE  Right(i)'
<1>. SUFFICES ASSUME Tracked(i)' PROVE Right(i)'
  BY DEF Right
<1>1. /\ conn[i] = "active" /\ UNCHANGED <<conn, job, unmarked>> /\ job = Idle /\ Up
  BY DEF Departs, Otherwise, Running, Active
<1>2. Tracked(i) /\ ~Leaving(i) /\ ~Leaving(i)'
  BY <1>1 DEF Tracked, Leaving, Idle
<1>3. /\ Resolves(i) /\ handle[i].nick = insts[i].nick /\ handle[i].chans = insts[i].chans
  BY <1>1 DEF Base, RowInv, Connected
<1>4. PICK cs \in SUBSET Channels : cs = handle[i].chans \ {c}
  BY ClientTypes
<1>5. PICK h \in Instance : h.nick = handle[i].nick /\ h.chans = cs /\ Stores(i, h)
  <2>1. /\ [handle[i] EXCEPT !.chans = cs] = [nick |-> handle[i].nick, chans |-> cs]
        /\ [handle[i] EXCEPT !.chans = cs] \in Instance
    BY <1>1, HandleChanged DEF Connected
  <2>. QED BY <1>4, <2>1 DEF Departs, Departed
<1>6. /\ handle'[i].chans = cs /\ insts'[i].chans = cs
      /\ handle'[i].nick = handle[i].nick /\ insts'[i].nick = handle[i].nick
  BY <1>5, Stored
<1>7. i \notin Members(live'[c]) /\ i \notin Members(rows'[c]) /\ c \notin cs
  BY <1>4, DepartShows
<1>8. \A d \in Channels \ {c} : live'[d] = live[d] /\ rows'[d] = rows[d] /\ gen'[d] = gen[d]
  BY DepartShows DEF Departs, Base, TypeOK
<1>9. ASSUME NEW d \in Channels \ {c}
      PROVE  Durable(i, d)' /\ OnLive(i, d)' /\ Reached(i, d)'
  <2>1. Durable(i, d) /\ OnLive(i, d) /\ Reached(i, d)
    BY <1>2 DEF Right
  <2>2. d \in cs <=> d \in handle[i].chans
    BY <1>4
  <2>3. Durable(i, d)'
    BY <1>3, <1>6, <1>8, <2>1, <2>2 DEF Durable
  <2>4. OnLive(i, d)'
    BY <1>1, <1>2, <1>6, <1>8, <2>1, <2>2 DEF OnLive
  <2>5. Reached(i, d)'
    BY <1>1, <1>6, <1>8, <2>1, <2>2 DEF Reached
  <2>. QED BY <2>3, <2>4, <2>5
<1>10. Durable(i, c)' /\ OnLive(i, c)' /\ Reached(i, c)'
  BY <1>6, <1>7 DEF Durable, OnLive, Reached
<1>11. Known(i)' /\ Marking(i)'
  BY <1>1, <1>2 DEF Known, Marking, Leaving
<1>. QED BY <1>9, <1>10, <1>11 DEF Right

LEMMA RenameRight ==
  ASSUME Base, NEW i \in Actors, NEW n \in Nicks, Renames(i, n), Right(i)
  PROVE  Right(i)'
<1>. SUFFICES ASSUME Tracked(i)' PROVE Right(i)'
  BY DEF Right
<1>1. /\ conn[i] = "active" /\ UNCHANGED <<conn, job, unmarked>> /\ job = Idle /\ Up
  BY DEF Renames, Otherwise, Running, Active
<1>2. Tracked(i) /\ ~Leaving(i) /\ ~Leaving(i)'
  BY <1>1 DEF Tracked, Leaving, Idle
<1>3. /\ Resolves(i) /\ handle[i].nick = insts[i].nick /\ handle[i].chans = insts[i].chans
  BY <1>1 DEF Base, RowInv, Connected
<1>4. PICK h \in Instance : h.nick = n /\ h.chans = handle[i].chans /\ Stores(i, h)
  <2>1. /\ [handle[i] EXCEPT !.nick = n] = [nick |-> n, chans |-> handle[i].chans]
        /\ [handle[i] EXCEPT !.nick = n] \in Instance
    BY <1>1, HandleChanged DEF Connected
  <2>. QED BY <2>1 DEF Renames
<1>5. /\ handle'[i].chans = handle[i].chans /\ insts'[i].chans = handle[i].chans
      /\ handle'[i].nick = n /\ insts'[i].nick = n
  BY <1>4, Stored
<1>6. ASSUME NEW c \in Channels, c \in handle[i].chans
      PROVE  /\ i \in Members(rows'[c]) /\ i \in Members(live'[c])
             /\ rows'[c].nick[i] = n /\ live'[c].nick[i] = n
  <2>1. i \in Members(Loaded(c))
    BY <1>1, <1>2, <1>6, Loading
  <2>2. Loaded(c) \in Window
    BY <2>1, LoadedMembers
  <2>3. live'[c] = Renamed(Loaded(c), i, n) /\ rows'[c] = Renamed(Loaded(c), i, n)
    BY <1>6 DEF Renames
  <2>. QED BY <2>1, <2>2, <2>3, RenamedWindow
<1>7. ASSUME NEW c \in Channels, c \notin handle[i].chans
      PROVE  i \notin Members(rows'[c]) /\ i \notin Members(live'[c])
  <2>1. live'[c] = live[c] /\ rows'[c] = rows[c]
    BY <1>7 DEF Renames
  <2>. QED BY <1>2, <1>3, <1>7, <2>1 DEF Right, Durable, OnLive
<1>. QED BY <1>1, <1>2, <1>5, <1>6, <1>7, Settling

\* The row of a model that was cut off does not resolve once it is marked.
LEMMA CutOff ==
  ASSUME Base, Up, NEW i \in Actors, Right(i), Tracked(i),
         conn[i] \notin {"registered", "active"}, ~(job.kind = "mark" /\ job.who = i)
  PROVE  ~Resolves(i)
BY DEF Right, Known

LEMMA DeleteRight ==
  ASSUME Base, NEW i \in Actors, Deletes(i), readFails' = readFails,
         NEW j \in Actors, Right(j)
  PROVE  Right(j)'
<1>. SUFFICES ASSUME Tracked(j)' PROVE Right(j)'
  BY DEF Right
<1>1. /\ conn' = [conn EXCEPT ![i] = Retired(i)] /\ insts' = [insts EXCEPT ![i] = NoRow]
      /\ \A k \in Actors \ {i} : handle'[k] = handle[k]
  BY Deleted
<1>2. Up /\ job = Idle /\ job' = job /\ unmarked' = unmarked /\ conn[i] = "active"
  BY DEF Deletes, Running, Active
<1>3. \A k : ~Leaving(k) /\ ~Leaving(k)'
  BY <1>2 DEF Leaving, Idle
<1>4. CASE j = i
  <2>1. conn'[i] = Retired(i) /\ ~Resolves(i)'
    BY <1>1 DEF Resolves, Base, TypeOK
  <2>2. Tracked(i)
    BY <1>2, <1>4, <2>1 DEF Tracked, Retired
  <2>3. ASSUME NEW c \in Channels PROVE i \notin Members(live'[c])
    <3>1. CASE c \in handle[i].chans
      <4>1. i \notin Members(RowsWithout(i)[c]) /\ RowsWithout(i)[c] \in Window \cup {NoChannel}
        BY RowsWithoutShows, RecordTypes DEF Base
      <4>2. i \notin Members(FromStore(RowsWithout(i)[c]))
        BY <4>1, FromStoreWindow DEF FromStore, Members
      <4>. QED BY <3>1, <4>2, DeleteShows
    <3>2. CASE c \notin handle[i].chans
      <4>1. i \notin Members(live[c])
        BY <1>4, <2>2, <3>2 DEF Right, OnLive
      <4>. QED BY <3>2, <4>1, DeleteShows
    <3>. QED BY <3>1, <3>2
  <2>4. conn'[i] # "active"
    BY <2>1 DEF Retired
  <2>5. Marking(i)'
    BY <1>3 DEF Marking, Leaving
  <2>. QED BY <1>4, <2>1, <2>3, <2>4, <2>5, Going DEF OnLive, Durable
<1>5. CASE j # i
  <2>1. conn'[j] = conn[j] /\ handle'[j] = handle[j] /\ insts'[j] = insts[j]
    BY <1>1, <1>5 DEF Base, TypeOK
  <2>2. Tracked(j)
    BY <1>2, <2>1 DEF Tracked
  <2>3. \A c \in Channels : SameFor(j, rows'[c], rows[c])
    BY <1>5, DeleteShows, RowsWithoutShows
  <2>4. ASSUME NEW c \in Channels PROVE Lively(j, c)
    <3>1. CASE c \notin handle[i].chans
      BY <3>1, DeleteShows DEF Lively
    <3>2. CASE c \in handle[i].chans
      <4>1. PICK r : r = RowsWithout(i)[c]
        OBVIOUS
      <4>2. live'[c] = FromStore(r) /\ SameFor(j, r, rows[c]) /\ r \in Window \cup {NoChannel}
        BY <1>5, <3>2, <4>1, DeleteShows, RowsWithoutShows, RecordTypes DEF Base
      <4>3. /\ j \in Members(FromStore(r)) <=> j \in Members(r) /\ Resolves(j)
            /\ j \in Members(FromStore(r)) => FromStore(r).nick[j] = r.nick[j]
        <5>1. CASE r = NoChannel
          BY <5>1 DEF FromStore, Members
        <5>2. CASE r \in Window
          BY <5>2, FromStoreWindow
        <5>. QED BY <4>2, <5>1, <5>2
      <4>4. Resolves(j) => SameFor(j, rows[c], Loaded(c))
        BY <1>2, <1>3, <2>2, Agreeing
      <4>5. conn[j] = "active" => Resolves(j)
        BY DEF Base, RowInv, Connected
      <4>6. j \in Members(live'[c]) =>
              j \in Members(Loaded(c)) /\ live'[c].nick[j] = Loaded(c).nick[j]
        BY <4>2, <4>3, <4>4 DEF SameFor
      <4>7. conn[j] = "active" /\ j \in Members(Loaded(c)) => j \in Members(live'[c])
        BY <4>2, <4>3, <4>4, <4>5 DEF SameFor
      <4>. QED BY <4>6, <4>7 DEF Lively
    <3>. QED BY <3>1, <3>2
  <2>. QED BY <1>2, <1>3, <2>1, <2>2, <2>3, <2>4, Bystander
<1>. QED BY <1>4, <1>5

LEMMA ForcedRight ==
  ASSUME Base, NEW i \in Actors, Forced(i), Right(i)
  PROVE  Right(i)'
<1>. SUFFICES ASSUME Tracked(i)' PROVE Right(i)'
  BY DEF Right
<1>1. /\ Up /\ job = Idle /\ conn[i] = "active" /\ live' = Filled(handle[i].chans)
      /\ conn' = [conn EXCEPT ![i] = Retired(i)]
      /\ UNCHANGED <<gen, handle, rows, insts, boot>>
  BY DEF Forced, Running, Active
<1>2. i # User /\ unmarked' = unmarked /\ Tracked(i)
  BY <1>1 DEF Forced, Tracked
<1>3. conn'[i] = "gone"
  BY <1>1, <1>2 DEF Retired, Base, TypeOK
<1>4. \A c \in handle[i].chans : Loaded(c) # NoChannel
  BY <1>1, <1>2, ClientTypes, Loading DEF Members
<1>5. /\ job'.kind = "mark" /\ job'.who = i
      /\ job'.todo = handle[i].chans \ {c \in handle[i].chans : Loaded(c) = NoChannel}
  BY <1>2 DEF Forced
<1>6. job'.todo = handle[i].chans
  BY <1>4, <1>5
<1>7. ~Leaving(i) /\ Leaving(i)'
  BY <1>1, <1>5 DEF Leaving, Idle
<1>8. handle[i].chans = insts[i].chans /\ handle[i].nick = insts[i].nick
  BY <1>1 DEF Base, RowInv, Connected
<1>9. ASSUME NEW c \in Channels PROVE OnLive(i, c)' /\ Durable(i, c)' /\ Reached(i, c)'
  <2>1. live'[c] = live[c] \/ live'[c] = Loaded(c)
    BY <1>1 DEF Filled
  <2>2. i \in Members(live'[c]) => live'[c] = Loaded(c)
    BY <2>1, LoadedMembers
  <2>3. i \in Members(Loaded(c)) => c \in handle[i].chans /\ Loaded(c).nick[i] = handle[i].nick
    BY <1>1, <1>2, Loading
  <2>4. Durable(i, c)
    BY <1>2 DEF Right
  <2>5. OnLive(i, c)'
    BY <1>1, <1>6, <1>7, <2>2, <2>3 DEF OnLive
  <2>6. Durable(i, c)'
    BY <1>1, <2>4 DEF Durable, Resolves
  <2>. QED BY <1>3, <2>5, <2>6 DEF Reached
<1>10. Known(i)' /\ Marking(i)'
  BY <1>1, <1>5, <1>6, <1>8 DEF Known, Marking
<1>. QED BY <1>9, <1>10 DEF Right

LEMMA RegisterRight ==
  ASSUME Base, Fresh, Moves, NEW m \in Models, NEW n \in Nicks, NEW c \in Channels,
         Registers(m, n, c)
  PROVE  Right(m)'
<1>. m \in Actors
  BY DEF Actors
<1>1. /\ conn[m] = "none" /\ job = Idle /\ job' = job
      /\ conn' = [conn EXCEPT ![m] = "registered"]
      /\ insts' = [insts EXCEPT ![m] = [nick |-> n, chans |-> {}, pending |-> FALSE]]
  BY DEF Registers, Running
<1>2. insts'[m].chans = {} /\ conn'[m] = "registered"
  <2>1. insts'[m] = [nick |-> n, chans |-> {}, pending |-> FALSE]
    BY <1>1 DEF Base, TypeOK
  <2>. QED BY <1>1, <2>1 DEF Base, TypeOK
<1>3. \A d \in Channels : m \notin Members(live'[d]) /\ m \notin Members(rows'[d])
  BY <1>1, Comers DEF Fresh, Away
<1>4. \A d \in Channels : Durable(m, d)' /\ OnLive(m, d)' /\ Reached(m, d)'
  BY <1>2, <1>3 DEF Durable, OnLive, Reached
<1>5. Known(m)' /\ Marking(m)'
  BY <1>1, <1>2 DEF Known, Marking, Idle
<1>. QED BY <1>4, <1>5 DEF Right

LEMMA AttachRight ==
  ASSUME Base, NEW m \in Models, Attach(m), Right(m)
  PROVE  Right(m)'
<1>. m \in Actors
  BY DEF Actors
<1>. SUFFICES ASSUME Tracked(m)' PROVE Right(m)'
  BY DEF Right
<1>1. /\ conn[m] = "registered" /\ conn' = [conn EXCEPT ![m] = "active"]
      /\ UNCHANGED <<live, gen, handle, job, rows, insts, boot, unmarked>>
  BY DEF Attach, durable
<1>2. Tracked(m) /\ conn'[m] = "active" /\ handle[m].chans = {}
  BY <1>1, ChannelsAssumption DEF Tracked, Base, TypeOK, RowInv
<1>3. ~Leaving(m) /\ ~Leaving(m)'
  BY <1>1, LeavingClients DEF Leaving, Base
<1>4. ASSUME NEW c \in Channels PROVE Durable(m, c)' /\ OnLive(m, c)' /\ Reached(m, c)'
  <2>1. Durable(m, c) /\ OnLive(m, c)
    BY <1>2 DEF Right
  <2>2. m \notin Members(live[c])
    BY <1>2, <2>1 DEF OnLive
  <2>. QED BY <1>1, <1>2, <2>1, <2>2 DEF Durable, Resolves, OnLive, Reached
<1>5. Known(m)' /\ Marking(m)'
  BY <1>2, <1>3 DEF Known, Marking, Leaving
<1>. QED BY <1>4, <1>5 DEF Right

LEMMA DiscardRight ==
  ASSUME Base, NEW m \in Models, Discard(m), Right(m)
  PROVE  Right(m)'
<1>. m \in Actors /\ m # User
  BY ChannelsAssumption DEF Actors
<1>. SUFFICES ASSUME Tracked(m)' PROVE Right(m)'
  BY DEF Right
<1>1. /\ conn' = [conn EXCEPT ![m] = "discarded"] /\ (job.who = m => job = Idle)
      /\ UNCHANGED <<live, handle, job>>
  BY DEF Discard
<1>2. PICK ok \in BOOLEAN : Mark(m, ok) /\ unmarked' = IF ok THEN unmarked ELSE unmarked \cup {m}
  BY DEF Discard, MarkOrRemember
<1>3. ok /\ Tracked(m)
  BY <1>2 DEF Tracked
<1>4. conn'[m] = "discarded" /\ ~Leaving(m)'
  BY <1>1 DEF Leaving, Idle, Base, TypeOK
<1>5. ~Resolves(m)'
  BY <1>2, <1>3, Marked DEF Resolves, Base
<1>6. \A c \in Channels : OnLive(m, c)' /\ Durable(m, c)'
  BY <1>1, <1>3, <1>4, <1>5 DEF Right, OnLive, Durable
<1>7. Marking(m)'
  BY <1>4 DEF Marking, Leaving
<1>. QED BY <1>4, <1>5, <1>6, <1>7, Going

LEMMA DiscardOnLoopRight ==
  ASSUME Base, NEW m \in Models, DiscardOnLoop(m), Right(m)
  PROVE  Right(m)'
<1>. m \in Actors /\ m # User
  BY ChannelsAssumption DEF Actors
<1>. SUFFICES ASSUME Tracked(m)' PROVE Right(m)'
  BY DEF Right
<1>1. /\ Up /\ job = Idle /\ conn[m] = "discarded" /\ live' = Filled(handle[m].chans)
      /\ UNCHANGED <<handle, conn, insts, boot, unmarked>>
      /\ job'.kind = "discard" /\ job'.who = m
      /\ job'.todo = {c \in handle[m].chans : Loaded(c) # NoChannel}
  BY DEF DiscardOnLoop, Running, durable
<1>2. Tracked(m) /\ ~Leaving(m)
  BY <1>1 DEF Tracked, Leaving, Idle
<1>3. ~Resolves(m)
  BY <1>1, <1>2, CutOff DEF Leaving
<1>4. ~Resolves(m)'
  BY <1>1, <1>3 DEF Resolves
<1>5. ASSUME NEW c \in Channels PROVE OnLive(m, c)'
  <2>1. live'[c] = live[c] \/ live'[c] = Loaded(c)
    BY <1>1 DEF Filled
  <2>2. m \in Members(live'[c]) => live'[c] = Loaded(c) /\ Loaded(c) # NoChannel
    BY <2>1, LoadedMembers DEF Members
  <2>3. m \in Members(Loaded(c)) => c \in handle[m].chans /\ Loaded(c).nick[m] = handle[m].nick
    BY <1>1, <1>2, Loading
  <2>. QED BY <1>1, <2>2, <2>3 DEF OnLive
<1>6. Marking(m)'
  BY <1>1 DEF Marking
<1>. QED BY <1>1, <1>4, <1>5, <1>6, Going DEF Durable

LEMMA MarkRight ==
  ASSUME Base, MarkPending, NEW i \in Actors, i = job.who, Right(i)
  PROVE  Right(i)'
<1>1. i = job.who
  OBVIOUS
<1>2. i \in Models /\ i \in Actors /\ conn[i] = "gone" /\ job.kind = "mark"
  BY <1>1 DEF MarkPending, Base, JobInv, Idle, Actors
<1>3. UNCHANGED <<live, handle, conn>> /\ job' = [job EXCEPT !.kind = "quit"]
  BY DEF MarkPending, memory
<1>4. job'.kind = "quit" /\ job'.who = i /\ job'.todo = job.todo
  BY <1>1, <1>3 DEF Base, TypeOK
<1>5. PICK ok \in BOOLEAN : Mark(i, ok) /\ unmarked' = IF ok THEN unmarked ELSE unmarked \cup {i}
  BY <1>1 DEF MarkPending, MarkOrRemember
<1>6. SUFFICES ASSUME Tracked(i)' PROVE Right(i)'
  BY DEF Right
<1>7. ok /\ Tracked(i)
  BY <1>3, <1>5, <1>6 DEF Tracked
<1>8. ~Resolves(i)'
  BY <1>2, <1>5, <1>7, Marked DEF Resolves, Base
<1>9. Leaving(i) /\ Leaving(i)'
  BY <1>1, <1>2, <1>4 DEF Leaving
<1>10. \A c \in Channels : OnLive(i, c)' /\ Durable(i, c)'
  BY <1>1, <1>3, <1>4, <1>7, <1>8, <1>9 DEF Right, OnLive, Durable
<1>11. Marking(i)'
  BY <1>4 DEF Marking
<1>. QED BY <1>2, <1>3, <1>8, <1>10, <1>11, Going

LEMMA LeaveRight ==
  ASSUME Base, NEW c \in Channels, Leave(c), NEW i \in Models, i = job.who, Right(i)
  PROVE  Right(i)'
<1>. i \in Actors /\ i # User
  BY ChannelsAssumption DEF Actors
<1>. SUFFICES ASSUME Tracked(i)' PROVE Right(i)'
  BY DEF Right
<1>1. job.kind \in {"quit", "discard"} /\ Up /\ conn[i] \in {"gone", "discarded"}
  BY DEF Leave, Base, JobInv, Idle, Retired
<1>2. /\ UNCHANGED <<insts, unmarked, boot, conn>>
      /\ handle' = [handle EXCEPT ![i] = Departed(i, c)]
      /\ job'.kind = job.kind /\ job'.who = i /\ job'.todo = job.todo \ {c}
  <2>1. PICK ok \in BOOLEAN : job' = [job EXCEPT !.todo = @ \ {c}, !.clean = @ /\ ok]
    BY <1>1 DEF Leave
  <2>2. UNCHANGED <<insts, unmarked, boot, conn>> /\ handle' = [handle EXCEPT ![i] = Departed(i, c)]
    BY <1>1 DEF Leave
  <2>. QED BY <2>1, <2>2 DEF Base, TypeOK
<1>3. handle'[i].chans = handle[i].chans \ {c} /\ handle'[i].nick = handle[i].nick
  <2>1. /\ Departed(i, c).chans = handle[i].chans \ {c}
        /\ Departed(i, c).nick = handle[i].nick
    BY ClientTypes DEF Departed
  <2>. QED BY <1>2, <2>1 DEF Base, TypeOK
<1>4. Tracked(i) /\ Leaving(i) /\ Leaving(i)'
  BY <1>1, <1>2 DEF Tracked, Leaving
<1>5. ~Resolves(i)
  BY <1>1, <1>4, CutOff
<1>6. ~Resolves(i)'
  BY <1>2, <1>5 DEF Resolves
<1>7. ASSUME NEW d \in Channels PROVE OnLive(i, d)'
  <2>1. CASE d = c
    BY <2>1, LeaveTakes DEF OnLive
  <2>2. CASE d # c
    <3>1. OnLive(i, d) /\ live'[d] = live[d]
      BY <1>4, <2>2, LeaveTakes DEF Right
    <3>. QED BY <1>2, <1>3, <1>4, <2>2, <3>1 DEF OnLive
  <2>. QED BY <2>1, <2>2
<1>8. Marking(i)'
  BY <1>1, <1>2 DEF Marking
<1>. QED BY <1>1, <1>2, <1>6, <1>7, <1>8, Going DEF Durable

LEMMA FinishRight ==
  ASSUME Base, FinishDeparture, NEW i \in Models, i = job.who, Right(i)
  PROVE  Right(i)'
<1>. i \in Actors /\ i # User
  BY ChannelsAssumption DEF Actors
<1>. SUFFICES ASSUME Tracked(i)' PROVE Right(i)'
  BY DEF Right
<1>1. /\ job.kind \in {"quit", "discard"} /\ Up /\ conn[i] \in {"gone", "discarded"}
      /\ job.todo = {}
  BY DEF FinishDeparture, Base, JobInv, Idle, Retired
<1>2. UNCHANGED live /\ job' = Idle /\ conn' = [conn EXCEPT ![i] = Retired(i)]
  BY DEF FinishDeparture
<1>3. conn'[i] = "gone" /\ ~Leaving(i)' /\ Leaving(i)
  BY <1>1, <1>2 DEF Retired, Leaving, Idle, Base, TypeOK
<1>4. \/ insts' = [insts EXCEPT ![i] = NoRow] /\ unmarked' = DoneAfterAll(i)
      \/ i \notin unmarked /\ UNCHANGED <<insts, unmarked>>
      \/ /\ i \in unmarked
         /\ \E ok \in BOOLEAN : /\ Mark(i, ok)
                                /\ unmarked' = IF ok THEN DoneAfterAll(i) ELSE unmarked
  BY DEF FinishDeparture
<1>5. \A c \in Channels : i \notin Members(live[c])
  <2>1. CASE i \notin unmarked
    <3>1. Tracked(i)
      BY <2>1 DEF Tracked
    <3>. QED BY <1>1, <1>3, <3>1 DEF Right, OnLive
  <2>2. CASE i \in unmarked
    <3>1. unmarked' = DoneAfterAll(i) /\ i \notin unmarked'
      BY <1>4, <2>2 DEF Tracked
    <3>. QED BY <2>2, <3>1 DEF DoneAfterAll
  <2>. QED BY <2>1, <2>2
<1>6. ~Resolves(i)'
  <2>1. CASE insts' = [insts EXCEPT ![i] = NoRow]
    BY <2>1 DEF Resolves, Base, TypeOK
  <2>2. CASE i \notin unmarked /\ UNCHANGED <<insts, unmarked>>
    <3>1. Tracked(i)
      BY <2>2 DEF Tracked
    <3>2. ~Resolves(i)
      BY <1>1, <3>1, CutOff
    <3>. QED BY <2>2, <3>2 DEF Resolves
  <2>3. CASE /\ i \in unmarked
             /\ \E ok \in BOOLEAN : /\ Mark(i, ok)
                                    /\ unmarked' = IF ok THEN DoneAfterAll(i) ELSE unmarked
    <3>1. Mark(i, TRUE)
      BY <2>3 DEF Tracked
    <3>. QED BY <3>1, Marked DEF Resolves, Base
  <2>. QED BY <1>4, <2>1, <2>2, <2>3
<1>7. \A c \in Channels : OnLive(i, c)'
  BY <1>2, <1>5 DEF OnLive
<1>8. Marking(i)'
  BY <1>2 DEF Marking, Idle
<1>. QED BY <1>3, <1>6, <1>7, <1>8, Going DEF Durable

LEMMA PurgeRight ==
  ASSUME Base, NEW m \in Models, PurgePending(m)
  PROVE  Right(m)'
<1>. m \in Actors
  BY DEF Actors
<1>1. job = Idle /\ job' = job /\ (\A c \in Channels : live'[c] = NoChannel)
  BY DEF PurgePending, Base, BootInv
<1>2. conn'[m] = "gone" /\ insts'[m] = NoRow
  BY DEF PurgePending, Base, TypeOK
<1>3. \A c \in Channels : OnLive(m, c)' /\ Durable(m, c)'
  BY <1>1, <1>2 DEF OnLive, Durable, Resolves, Members
<1>4. Marking(m)'
  BY <1>1 DEF Marking, Idle
<1>. QED BY <1>2, <1>3, <1>4, Going DEF Resolves

LEMMA StartRight ==
  ASSUME Base, StartModels, NEW m \in Models, Right(m)
  PROVE  Right(m)'
<1>. m \in Actors /\ m # User
  BY ChannelsAssumption DEF Actors
<1>. SUFFICES ASSUME Tracked(m)' PROVE Right(m)'
  BY DEF Right
<1>1. /\ UNCHANGED <<live, gen, rows, insts, unmarked, job>> /\ job = Idle
      /\ \A c \in Channels : live[c] = NoChannel /\ gen[c] = 0
      /\ conn[m] \in {"none", "stored", "gone"}
  BY DEF StartModels, durable, Base, BootInv
<1>2. Tracked(m) /\ (Resolves(m)' <=> Resolves(m))
  BY <1>1 DEF Tracked, Resolves
<1>3. \A c \in Channels : Durable(m, c)' /\ OnLive(m, c)' /\ Reached(m, c)'
  BY <1>1, <1>2 DEF Right, Durable, OnLive, Reached, Members
<1>4. Marking(m)'
  BY <1>1 DEF Marking, Idle
<1>5. Resolves(m) => conn'[m] = "active"
  BY DEF StartModels
<1>6. Known(m)'
  BY <1>2, <1>5 DEF Known
<1>. QED BY <1>3, <1>4, <1>6 DEF Right

LEMMA ActivateRight ==
  ASSUME Base, UserInv, Activate
  PROVE  Right(User)'
<1>. User \in Actors
  BY DEF Actors
<1>. SUFFICES ASSUME Tracked(User)' PROVE Right(User)'
  BY DEF Right
<1>1. conn[User] = "reconciled" /\ UNCHANGED <<live, gen, rows, insts, handle, job, unmarked>>
  BY DEF Activate
<1>2. User \notin unmarked /\ conn'[User] = "active"
  BY <1>1 DEF Tracked
<1>3. Away(User)
  BY <1>1, <1>2 DEF UserInv
<1>4. ~Leaving(User)
  BY <1>1, LeavingClients DEF Base
<1>5. handle[User].chans = {} /\ handle[User].nick = insts[User].nick /\ handle[User].chans = insts[User].chans
  BY <1>1, <1>4 DEF Base, RowInv, Connected
<1>. QED BY <1>1, <1>2, <1>3, <1>4, <1>5, Settling DEF Away, Leaving

LEMMA StopRight ==
  ASSUME Base, NEW m \in Models, Right(m), Stop
  PROVE  Right(m)'
<1>. m \in Actors /\ m # User
  BY ChannelsAssumption DEF Actors
<1>. SUFFICES ASSUME Tracked(m)' PROVE Right(m)'
  BY DEF Right
<1>1. /\ UNCHANGED <<rows, insts, unmarked>> /\ job' = Idle /\ ~Up'
      /\ \A c \in Channels : live'[c] = NoChannel
      /\ conn'[m] \in {"none", "stored", "gone"}
  BY DEF Stop, durable, Up
<1>2. Tracked(m)
  BY <1>1 DEF Tracked
<1>3. \A c \in Channels : Durable(m, c)' /\ OnLive(m, c)'
  BY <1>1, <1>2 DEF Right, Durable, OnLive, Members, Resolves
<1>4. Marking(m)'
  BY <1>1 DEF Marking, Idle
<1>. QED BY <1>1, <1>3, <1>4, Going

\* The records of every client keep agreeing.
LEMMA RightStep ==
  ASSUME Base, Fresh, UserInv, \A i \in Actors : Right(i), Moves, readFails' = readFails
  PROVE  \A i \in Actors : Right(i)'
<1>. DEFINE AllRight == \A i \in Actors : Right(i)'
<1>. User \in Actors /\ Models \subseteq Actors /\ (\A m \in Models : m # User)
  BY ChannelsAssumption DEF Actors
<1>. conn \in [Actors -> ConnStates] /\ job.who \in Actors /\ JobInv
  BY DEF Base, TypeOK
<1>0. Right(User)' <=> (Tracked(User)' => Right(User)')
  BY DEF Right
<1>. HIDE DEF AllRight
<1>1. ASSUME NEW i \in Actors, NEW c \in Channels, NEW w \in Window, Enters(i, c, w)
      PROVE  AllRight
  <2>1. /\ Up /\ i \in Actors
        /\ \A j \in Actors \ {i} :
             /\ conn'[j] = conn[j] /\ handle'[j] = handle[j] /\ insts'[j] = insts[j]
             /\ j \in unmarked => j \in unmarked'
    BY <1>1 DEF Enters, Stores, Otherwise, Running, Base, TypeOK
  <2>2. \A j \in Actors \ {i} :
          /\ job' = job \/ (~Leaving(j)' /\ ~Leaving(j))
          /\ rows' = rows \/ ~Leaving(j)
    BY <1>1 DEF Enters, Running, Otherwise, Leaving, Idle
  <2>3. \A j \in Actors \ {i}, d \in Channels : Shows(j, d)
    BY <1>1, EnterShows
  <2>4. \A j \in Actors \ {i} : Tracked(j)' => Tracked(j)
    BY <2>1 DEF Tracked
  <2>5. \A j \in Actors \ {i} : Right(j)'
    BY <2>1, <2>2, <2>3, <2>4, Onlooker
  <2>6. Right(i)'
    BY <1>1, EnterRight
  <2>. QED BY <2>5, <2>6 DEF AllRight
<1>2. ASSUME NEW cs \in SUBSET Channels, Fills(cs)
      PROVE  AllRight
  <2>1. /\ UNCHANGED <<conn, handle, insts, job, unmarked, rows>> /\ Up
    BY <1>2 DEF Fills, Otherwise, Up
  <2>2. \A i \in Actors, c \in Channels : Shows(i, c)
    BY <1>2, FilledShows DEF Fills
  <2>3. \A i \in Actors : Tracked(i)' => Tracked(i)
    BY <2>1 DEF Tracked
  <2>. QED BY <2>1, <2>2, <2>3, Onlooker DEF AllRight
<1>3. ASSUME NEW i \in Actors, NEW c \in Channels, Departs(i, c)
      PROVE  AllRight
  <2>1. /\ Up /\ i \in Actors
        /\ \A j \in Actors \ {i} :
             /\ conn'[j] = conn[j] /\ handle'[j] = handle[j] /\ insts'[j] = insts[j]
             /\ j \in unmarked => j \in unmarked'
    BY <1>3 DEF Departs, Stores, Otherwise, Running, Base, TypeOK
  <2>2. \A j \in Actors \ {i} :
          /\ job' = job \/ (~Leaving(j)' /\ ~Leaving(j))
          /\ rows' = rows \/ ~Leaving(j)
    BY <1>3 DEF Departs, Running, Otherwise, Leaving, Idle
  <2>3. \A j \in Actors \ {i}, d \in Channels : Shows(j, d)
    BY <1>3, DepartShows
  <2>4. \A j \in Actors \ {i} : Tracked(j)' => Tracked(j)
    BY <2>1 DEF Tracked
  <2>5. \A j \in Actors \ {i} : Right(j)'
    BY <2>1, <2>2, <2>3, <2>4, Onlooker
  <2>6. Right(i)'
    BY <1>3, DepartRight
  <2>. QED BY <2>5, <2>6 DEF AllRight
<1>4. ASSUME NEW c \in Channels, NEW w \in Window, Updates(c, w)
      PROVE  AllRight
  <2>1. /\ UNCHANGED <<conn, handle, insts, job, unmarked>> /\ Up /\ job = Idle
    BY <1>4 DEF Updates, Otherwise, Running, Up
  <2>2. \A i \in Actors, d \in Channels : Shows(i, d)
    BY <1>4, UpdateShows
  <2>3. \A i \in Actors : (Tracked(i)' => Tracked(i)) /\ ~Leaving(i)
    BY <2>1 DEF Tracked, Leaving, Idle
  <2>. QED BY <2>1, <2>2, <2>3, Onlooker DEF AllRight
<1>5. ASSUME NEW i \in Actors, NEW n \in Nicks, Renames(i, n)
      PROVE  AllRight
  <2>1. /\ Up /\ i \in Actors
        /\ \A j \in Actors \ {i} :
             /\ conn'[j] = conn[j] /\ handle'[j] = handle[j] /\ insts'[j] = insts[j]
             /\ j \in unmarked => j \in unmarked'
    BY <1>5 DEF Renames, Stores, Otherwise, Running, Base, TypeOK
  <2>2. \A j \in Actors \ {i} :
          /\ job' = job \/ (~Leaving(j)' /\ ~Leaving(j))
          /\ rows' = rows \/ ~Leaving(j)
    BY <1>5 DEF Renames, Running, Otherwise, Leaving, Idle
  <2>3. \A j \in Actors \ {i}, c \in Channels : Shows(j, c)
    BY <1>5, RenamedShows
  <2>4. \A j \in Actors \ {i} : Tracked(j)' => Tracked(j)
    BY <2>1 DEF Tracked
  <2>5. \A j \in Actors \ {i} : Right(j)'
    BY <2>1, <2>2, <2>3, <2>4, Onlooker
  <2>6. Right(i)'
    BY <1>5, RenameRight
  <2>. QED BY <2>5, <2>6 DEF AllRight
<1>6. ASSUME NEW n \in Nicks, SaveNick(n)
      PROVE  AllRight
  <2>1. /\ UNCHANGED <<conn, handle, insts, job, unmarked, rows>> /\ Up
    BY <1>6 DEF SaveNick, Running, Up, memory, budget
  <2>2. \A i \in Actors, c \in Channels : Shows(i, c)
    BY <1>6, StillShows DEF SaveNick, memory
  <2>3. \A i \in Actors : Tracked(i)' => Tracked(i)
    BY <2>1 DEF Tracked
  <2>. QED BY <2>1, <2>2, <2>3, Onlooker DEF AllRight
<1>7. ASSUME NEW i \in Actors, Deletes(i)
      PROVE  AllRight
  BY <1>7, DeleteRight DEF AllRight
<1>8. ASSUME NEW i \in Actors, Forced(i)
      PROVE  AllRight
  <2>1. /\ Up /\ i \in Actors
        /\ \A j \in Actors \ {i} :
             /\ conn'[j] = conn[j] /\ handle'[j] = handle[j] /\ insts'[j] = insts[j]
             /\ j \in unmarked => j \in unmarked'
    BY <1>8 DEF Forced, Running, Base, TypeOK
  <2>2. \A j \in Actors \ {i} :
          /\ job' = job \/ (~Leaving(j)' /\ ~Leaving(j))
          /\ rows' = rows \/ ~Leaving(j)
    BY <1>8 DEF Forced, Running, Otherwise, Leaving, Idle
  <2>3. \A j \in Actors \ {i}, c \in Channels : Shows(j, c)
    BY <1>8, ClientTypes, FilledShows DEF Forced
  <2>4. \A j \in Actors \ {i} : Tracked(j)' => Tracked(j)
    BY <2>1 DEF Tracked
  <2>5. \A j \in Actors \ {i} : Right(j)'
    BY <2>1, <2>2, <2>3, <2>4, Onlooker
  <2>6. Right(i)'
    BY <1>8, ForcedRight
  <2>. QED BY <2>5, <2>6 DEF AllRight
<1>9. ASSUME NEW m \in Models, NEW n \in Nicks, NEW c \in Channels, Registers(m, n, c)
      PROVE  AllRight
  <2>1. /\ Up /\ m \in Actors
        /\ \A j \in Actors \ {m} :
             /\ conn'[j] = conn[j] /\ handle'[j] = handle[j] /\ insts'[j] = insts[j]
             /\ j \in unmarked => j \in unmarked'
    BY <1>9 DEF Registers, Running, Base, TypeOK
  <2>2. \A j \in Actors \ {m} :
          /\ job' = job \/ (~Leaving(j)' /\ ~Leaving(j))
          /\ rows' = rows \/ ~Leaving(j)
    BY <1>9 DEF Registers, Running, Otherwise, Leaving, Idle
  <2>3. \A j \in Actors \ {m}, d \in Channels : Shows(j, d)
    BY <1>9, FilledShows DEF Registers
  <2>4. \A j \in Actors \ {m} : Tracked(j)' => Tracked(j)
    BY <2>1 DEF Tracked
  <2>5. \A j \in Actors \ {m} : Right(j)'
    BY <2>1, <2>2, <2>3, <2>4, Onlooker
  <2>6. Right(m)'
    BY <1>9, RegisterRight
  <2>. QED BY <2>5, <2>6 DEF AllRight
<1>10. ASSUME NEW m \in Models, Attach(m)
       PROVE  AllRight
  <2>1. /\ Up /\ m \in Actors
        /\ \A j \in Actors \ {m} :
             /\ conn'[j] = conn[j] /\ handle'[j] = handle[j] /\ insts'[j] = insts[j]
             /\ j \in unmarked => j \in unmarked'
    BY <1>10 DEF Attach, durable, Base, TypeOK
  <2>2. \A j \in Actors \ {m} :
          /\ job' = job \/ (~Leaving(j)' /\ ~Leaving(j))
          /\ rows' = rows \/ ~Leaving(j)
    BY <1>10 DEF Attach, durable
  <2>3. \A j \in Actors \ {m}, c \in Channels : Shows(j, c)
    BY <1>10, StillShows DEF Attach, durable
  <2>4. \A j \in Actors \ {m} : Tracked(j)' => Tracked(j)
    BY <2>1 DEF Tracked
  <2>5. \A j \in Actors \ {m} : Right(j)'
    BY <2>1, <2>2, <2>3, <2>4, Onlooker
  <2>6. Right(m)'
    BY <1>10, AttachRight
  <2>. QED BY <2>5, <2>6 DEF AllRight
<1>11. ASSUME NEW m \in Models, Discard(m)
       PROVE  AllRight
  <2>1. /\ Up /\ m \in Actors
        /\ \A j \in Actors \ {m} :
             /\ conn'[j] = conn[j] /\ handle'[j] = handle[j] /\ insts'[j] = insts[j]
             /\ j \in unmarked => j \in unmarked'
    BY <1>11, Marked DEF Discard, MarkOrRemember, Base, TypeOK
  <2>2. \A j \in Actors \ {m} :
          /\ job' = job \/ (~Leaving(j)' /\ ~Leaving(j))
          /\ rows' = rows \/ ~Leaving(j)
    BY <1>11 DEF Discard
  <2>3. \A j \in Actors \ {m}, c \in Channels : Shows(j, c)
    BY <1>11, StillShows DEF Discard
  <2>4. \A j \in Actors \ {m} : Tracked(j)' => Tracked(j)
    BY <2>1 DEF Tracked
  <2>5. \A j \in Actors \ {m} : Right(j)'
    BY <2>1, <2>2, <2>3, <2>4, Onlooker
  <2>6. Right(m)'
    BY <1>11, DiscardRight
  <2>. QED BY <2>5, <2>6 DEF AllRight
<1>12. ASSUME NEW m \in Models, DiscardOnLoop(m)
       PROVE  AllRight
  <2>1. /\ Up /\ m \in Actors
        /\ \A j \in Actors \ {m} :
             /\ conn'[j] = conn[j] /\ handle'[j] = handle[j] /\ insts'[j] = insts[j]
             /\ j \in unmarked => j \in unmarked'
    BY <1>12 DEF DiscardOnLoop, Running, durable
  <2>2. \A j \in Actors \ {m} :
          /\ job' = job \/ (~Leaving(j)' /\ ~Leaving(j))
          /\ rows' = rows \/ ~Leaving(j)
    BY <1>12 DEF DiscardOnLoop, Running, Otherwise, Leaving, Idle
  <2>3. \A j \in Actors \ {m}, c \in Channels : Shows(j, c)
    BY <1>12, ClientTypes, FilledShows DEF DiscardOnLoop, durable
  <2>4. \A j \in Actors \ {m} : Tracked(j)' => Tracked(j)
    BY <2>1 DEF Tracked
  <2>5. \A j \in Actors \ {m} : Right(j)'
    BY <2>1, <2>2, <2>3, <2>4, Onlooker
  <2>6. Right(m)'
    BY <1>12, DiscardOnLoopRight
  <2>. QED BY <2>5, <2>6 DEF AllRight
<1>13. ASSUME MarkPending
       PROVE  AllRight
  <2>. PICK i \in Actors : i = job.who
    OBVIOUS
  <2>1. /\ Up
        /\ \A j \in Actors \ {i} :
             /\ conn'[j] = conn[j] /\ handle'[j] = handle[j] /\ insts'[j] = insts[j]
             /\ j \in unmarked => j \in unmarked'
    BY <1>13, Marked DEF MarkPending, MarkOrRemember, memory, Base, JobInv, Idle
  <2>2. \A j \in Actors \ {i} :
          /\ job' = job \/ (~Leaving(j)' /\ ~Leaving(j))
          /\ rows' = rows \/ ~Leaving(j)
    BY <1>13 DEF MarkPending, Leaving, Base, TypeOK
  <2>3. \A j \in Actors \ {i}, c \in Channels : Shows(j, c)
    BY <1>13, StillShows DEF MarkPending, memory
  <2>4. \A j \in Actors \ {i} : Tracked(j)' => Tracked(j)
    BY <2>1 DEF Tracked
  <2>5. \A j \in Actors \ {i} : Right(j)'
    BY <2>1, <2>2, <2>3, <2>4, Onlooker
  <2>6. Right(i)'
    BY <1>13, MarkRight
  <2>. QED BY <2>5, <2>6 DEF AllRight
<1>14. ASSUME NEW c \in Channels, Leave(c)
       PROVE  AllRight
  <2>1. /\ Up /\ UNCHANGED <<insts, unmarked>>
        /\ handle' = [handle EXCEPT ![job.who] = Departed(job.who, c)]
        /\ conn' = conn \/ (job.who = User /\ conn' = Aborted)
        /\ \A j \in Actors \ {job.who} : ~Leaving(j) /\ ~Leaving(j)'
    <3>1. PICK ok \in BOOLEAN :
            IF job.kind = "cleanup" /\ ~ok
            THEN job' = Idle /\ conn' = Aborted
            ELSE /\ job' = [job EXCEPT !.todo = @ \ {c}, !.clean = @ /\ ok]
                 /\ UNCHANGED conn
      BY <1>14 DEF Leave
    <3>2. job'.who = job.who \/ job' = Idle
      BY <3>1 DEF Base, TypeOK
    <3>3. \A j \in Actors \ {job.who} : ~Leaving(j) /\ ~Leaving(j)'
      BY <3>2 DEF Leaving, Idle
    <3>. QED BY <1>14, <3>1, <3>3 DEF Leave, JobInv, Idle
  <2>2. \A j \in Actors \ {job.who} :
          /\ conn'[j] = conn[j] /\ handle'[j] = handle[j] /\ insts'[j] = insts[j]
          /\ Tracked(j)' => Tracked(j)
    BY <2>1 DEF Aborted, Tracked, Base, TypeOK
  <2>3. \A j \in Actors \ {job.who}, d \in Channels : Shows(j, d)
    BY <1>14, LeaveShows
  <2>4. \A j \in Actors \ {job.who} : Right(j)'
    BY <2>1, <2>2, <2>3, Onlooker
  <2>5. ASSUME NEW j \in Actors, j = job.who PROVE Right(j)'
    <3>1. CASE j = User
      <4>1. conn[User] # "active"
        BY <1>14, <2>5, <3>1 DEF Leave, JobInv, Idle, Retired
      <4>2. conn'[User] # "active"
        BY <2>1, <4>1 DEF Aborted
      <4>. QED BY <1>0, <3>1, <4>2 DEF Tracked
    <3>2. CASE j \in Models
      BY <1>14, <2>5, <3>2, LeaveRight
    <3>. QED BY <3>1, <3>2 DEF Actors
  <2>. QED BY <2>4, <2>5 DEF AllRight
<1>15. ASSUME NEW c \in Channels, CleanupStops(c)
       PROVE  AllRight
  <2>1. /\ Up /\ UNCHANGED <<live, gen, rows, insts, handle, unmarked>> /\ conn' = Aborted
        /\ job.kind = "cleanup" /\ job' = Idle
    BY <1>15 DEF CleanupStops, durable, JobInv, Idle
  <2>2. \A j \in Models : conn'[j] = conn[j] /\ ~Leaving(j) /\ ~Leaving(j)' /\ (Tracked(j)' => Tracked(j))
    BY <2>1 DEF Aborted, Leaving, Tracked, Idle
  <2>3. \A j \in Models : Right(j)'
    BY <2>1, <2>2, StillShows, Onlooker
  <2>4. conn'[User] # "active"
    BY <2>1 DEF Aborted
  <2>. QED BY <1>0, <2>3, <2>4 DEF AllRight, Actors, Tracked
<1>16. ASSUME FinishDeparture
       PROVE  AllRight
  <2>1. /\ Up /\ UNCHANGED <<live, gen>> /\ job' = Idle
        /\ handle' = [handle EXCEPT ![job.who].chans = {}]
        /\ conn' = [conn EXCEPT ![job.who] = Retired(job.who)]
        /\ rows' = rows \/ rows' = RowsWithout(job.who)
    <3>1. Up
      BY <1>16 DEF FinishDeparture, JobInv, Idle
    <3>2. rows' = rows \/ rows' = RowsWithout(job.who)
      BY <1>16 DEF FinishDeparture
    <3>. QED BY <1>16, <3>1, <3>2 DEF FinishDeparture
  <2>2. \/ insts' = [insts EXCEPT ![job.who] = NoRow]
        \/ insts' = insts
        \/ \E ok \in BOOLEAN : Mark(job.who, ok)
    BY <1>16 DEF FinishDeparture
  <2>3. unmarked' = unmarked \/ unmarked' = DoneAfterAll(job.who)
    BY <1>16 DEF FinishDeparture
  <2>4. \A j \in Actors \ {job.who} :
          /\ conn'[j] = conn[j] /\ handle'[j] = handle[j] /\ insts'[j] = insts[j]
          /\ j \in unmarked => j \in unmarked'
          /\ ~Leaving(j) /\ ~Leaving(j)'
    <3>1. \A j \in Actors \ {job.who} : insts'[j] = insts[j]
      BY <2>2, Marked DEF Base, TypeOK
    <3>2. \A j \in Actors \ {job.who} : ~Leaving(j) /\ ~Leaving(j)'
      BY <2>1 DEF Leaving, Idle
    <3>. QED BY <2>1, <2>3, <3>1, <3>2 DEF DoneAfterAll, Base, TypeOK
  <2>5. \A j \in Actors \ {job.who}, c \in Channels : Shows(j, c)
    BY <2>1, RowlessShows, StillShows
  <2>6. \A j \in Actors \ {job.who} : Right(j)'
    BY <2>1, <2>4, <2>5, Onlooker DEF Tracked
  <2>7. ASSUME NEW j \in Actors, j = job.who PROVE Right(j)'
    <3>1. CASE j = User
      <4>1. conn'[User] # "active"
        BY <2>1, <2>7, <3>1 DEF Retired
      <4>. QED BY <1>0, <3>1, <4>1 DEF Tracked
    <3>2. CASE j \in Models
      BY <1>16, <2>7, <3>2, FinishRight
    <3>. QED BY <3>1, <3>2 DEF Actors
  <2>. QED BY <2>6, <2>7 DEF AllRight
<1>17. ASSUME AttachUser
       PROVE  AllRight
  <2>1. /\ UNCHANGED <<live, gen, rows, job, unmarked>> /\ boot' = "starting"
        /\ conn' = [conn EXCEPT ![User] = "attached"]
        /\ \A m \in Models : handle'[m] = handle[m] /\ insts'[m] = insts[m]
    <3>1. \A m \in Models : handle'[m] = handle[m]
      BY <1>17 DEF AttachUser, Base, TypeOK
    <3>2. \A m \in Models : insts'[m] = insts[m]
      BY <1>17 DEF AttachUser, Base, TypeOK
    <3>. QED BY <1>17, <3>1, <3>2 DEF AttachUser
  <2>2. \A m \in Models : conn'[m] = conn[m] /\ (Tracked(m)' => Tracked(m))
    BY <2>1 DEF Tracked
  <2>3. \A m \in Models : Right(m)'
    BY <2>1, <2>2, Asleep DEF Up, SameFor
  <2>4. conn'[User] # "active"
    BY <2>1
  <2>. QED BY <1>0, <2>3, <2>4 DEF AllRight, Actors, Tracked
<1>18. ASSUME NEW m \in Models, PurgePending(m)
       PROVE  AllRight
  <2>1. /\ UNCHANGED <<live, gen, handle, job, boot, unmarked>> /\ rows' = RowsWithout(m)
        /\ \A j \in Actors \ {m} : conn'[j] = conn[j] /\ insts'[j] = insts[j]
    BY <1>18 DEF PurgePending, budget, Base, TypeOK
  <2>2. \A j \in Actors \ {m} : Tracked(j)' => Tracked(j)
    BY <2>1 DEF Tracked
  <2>3. \A j \in Actors \ {m}, c \in Channels : SameFor(j, rows'[c], rows[c])
    BY <2>1, RowsWithoutShows
  <2>4. \A j \in Actors \ {m} : Right(j)'
    BY <2>1, <2>2, <2>3, Asleep DEF Up
  <2>. QED BY <1>18, <2>4, PurgeRight DEF AllRight
<1>19. ASSUME StartModels
       PROVE  AllRight
  <2>1. conn'[User] = conn[User] /\ conn[User] = "attached"
    BY <1>19 DEF StartModels, Base, BootInv
  <2>2. \A m \in Models : Right(m)'
    BY <1>19, StartRight
  <2>. QED BY <1>0, <2>1, <2>2 DEF AllRight, Actors, Tracked
<1>20. ASSUME Cleanup
       PROVE  AllRight
  <2>1. /\ Up /\ UNCHANGED <<gen, rows, conn, handle, insts, unmarked>>
        /\ live' = Filled(StaleMemberships) /\ job = Idle /\ job'.kind = "cleanup"
    BY <1>20 DEF Cleanup, Running, durable
  <2>2. \A i \in Actors : ~Leaving(i) /\ ~Leaving(i)' /\ (Tracked(i)' => Tracked(i))
    BY <2>1 DEF Leaving, Tracked, Idle
  <2>3. \A i \in Actors, c \in Channels : Shows(i, c)
    BY <2>1, FilledShows DEF StaleMemberships
  <2>. QED BY <2>1, <2>2, <2>3, Onlooker DEF AllRight
<1>21. ASSUME Reconciled
       PROVE  AllRight
  <2>1. /\ Up /\ UNCHANGED <<live, gen, rows, handle, insts, unmarked>>
        /\ conn' = [conn EXCEPT ![User] = "reconciled"]
        /\ job' = job \/ (job.kind = "cleanup" /\ job' = Idle)
    BY <1>21 DEF Reconciled, durable, JobInv, Idle
  <2>2. \A j \in Models : /\ conn'[j] = conn[j] /\ (Tracked(j)' => Tracked(j))
                          /\ job' = job \/ (~Leaving(j) /\ ~Leaving(j)')
    BY <2>1 DEF Leaving, Tracked, Idle
  <2>3. \A j \in Models : Right(j)'
    BY <2>1, <2>2, StillShows, Onlooker
  <2>4. conn'[User] # "active"
    BY <2>1
  <2>. QED BY <1>0, <2>3, <2>4 DEF AllRight, Actors, Tracked
<1>22. ASSUME Reactivate
       PROVE  AllRight
  <2>1. /\ Up /\ job = Idle /\ UNCHANGED <<live, gen, handle, unmarked, job>>
        /\ rows' = RowsWithout(User) /\ conn[User] = "retired"
        /\ \A j \in Models : conn'[j] = conn[j] /\ insts'[j] = insts[j]
    BY <1>22 DEF Reactivate, Running, Base, TypeOK
  <2>2. \A j \in Models : ~Leaving(j) /\ (Tracked(j)' => Tracked(j))
    BY <2>1 DEF Leaving, Tracked, Idle
  <2>3. \A j \in Models : Right(j)'
    BY <2>1, <2>2, RowlessShows, Onlooker
  <2>4. conn'[User] # "active"
    BY <1>22, <2>1 DEF Reactivate
  <2>. QED BY <1>0, <2>3, <2>4 DEF AllRight, Actors, Tracked
<1>23. ASSUME Activate
       PROVE  AllRight
  <2>1. /\ Up /\ UNCHANGED <<live, gen, rows, handle, insts, job, unmarked>>
    BY <1>23 DEF Activate
  <2>2. \A j \in Models : conn'[j] = conn[j] /\ (Tracked(j)' => Tracked(j))
    BY <1>23, <2>1 DEF Activate, Aborted, Tracked
  <2>3. \A j \in Models : Right(j)'
    BY <2>1, <2>2, StillShows, Onlooker
  <2>. QED BY <1>23, <2>3, ActivateRight DEF AllRight, Actors
<1>24. ASSUME Stop
       PROVE  AllRight
  <2>1. conn'[User] = "stored"
    BY <1>24 DEF Stop
  <2>2. \A m \in Models : Right(m)'
    BY <1>24, StopRight
  <2>. QED BY <1>0, <2>1, <2>2 DEF AllRight, Actors, Tracked
<1>. QED BY <1>1, <1>2, <1>3, <1>4, <1>5, <1>6, <1>7, <1>8, <1>9, <1>10, <1>11, <1>12, <1>13, <1>14, <1>15, <1>16, <1>17, <1>18, <1>19, <1>20, <1>21, <1>22, <1>23, <1>24 DEF Moves, Boot, AllRight

LEMMA Backing ==
  ASSUME Base, \A c \in Channels : Backed(c),
         \A c \in Channels :
           \/ live'[c] = rows'[c]
           \/ rows'[c] = rows[c] /\ live'[c] \in {live[c], Loaded(c)}
           \/ SameFor(User, live'[c], live[c]) /\ SameFor(User, rows'[c], rows[c])
  PROVE  \A c \in Channels : Backed(c)'
<1>. SUFFICES ASSUME NEW c \in Channels PROVE Backed(c)'
  OBVIOUS
<1>1. User \in Members(Loaded(c)) => User \in Members(rows[c])
  BY LoadedMembers DEF Backed
<1>. QED BY <1>1 DEF Backed, SameFor

LEMMA DeletedAway ==
  ASSUME Base, NEW i \in Actors, Deletes(i), readFails' = readFails, Right(i), Tracked(i)
  PROVE  Away(i)'
<1>1. job = Idle
  BY DEF Deletes, Running
<1>2. \A c \in Channels : i \in Members(live[c]) => c \in handle[i].chans
  BY DEF Right, OnLive
<1>3. \A c \in Channels : i \notin Members(rows'[c])
  BY DeleteShows, RowsWithoutShows
<1>4. \A c \in Channels : i \notin Members(live'[c])
  <2>. TAKE c \in Channels
  <2>1. CASE c \notin handle[i].chans
    BY <1>2, <2>1, DeleteShows
  <2>2. CASE c \in handle[i].chans
    <3>1. live'[c] = FromStore(rows'[c]) /\ rows'[c] \in Window \cup {NoChannel}
      BY <2>2, DeleteShows, RecordTypes DEF Base
    <3>2. CASE rows'[c] = NoChannel
      BY <3>1, <3>2 DEF FromStore, Members
    <3>3. CASE rows'[c] \in Window
      BY <1>3, <3>1, <3>3, FromStoreWindow
    <3>. QED BY <3>1, <3>2, <3>3
  <2>. QED BY <2>1, <2>2
<1>. QED BY <1>3, <1>4 DEF Away

\* A step that is none of the user's comings and goings.
LEMMA UserStays ==
  ASSUME Base, UserInv, Moves, conn'[User] = conn[User], marker' = marker,
         boot' = "connected" => boot = "connected",
         User \in unmarked => User \in unmarked',
         job'.kind = "cleanup" => job' = job,
         (\A c \in Channels : Backed(c)) => \A c \in Channels : Backed(c)'
  PROVE  UserInv'
<1>. User \in Actors /\ JobInv
  BY ChannelsAssumption DEF Actors, Base
<1>1. conn'[User] = "active" => marker'
  BY DEF UserInv
<1>. SUFFICES ASSUME User \notin unmarked'
              PROVE  /\ \/ conn'[User] = "active" \/ Away(User)'
                        \/ boot' # "connected" /\ marker' /\ conn'[User] \in {"stored", "attached"}
                     /\ conn'[User] = "attached" => \A c \in Channels : Backed(c)'
                     /\ job'.kind = "cleanup" =>
                          \A c \in Channels : User \in Members(rows'[c]) => c \in job'.todo
  BY <1>1 DEF UserInv
<1>2. conn'[User] = "attached" => \A c \in Channels : Backed(c)'
  BY DEF UserInv
<1>3. job.kind = "cleanup" => /\ conn[User] = IF boot = "connected" THEN "registered" ELSE "attached"
                              /\ \A c \in Channels : User \in Members(rows[c]) => c \in job.todo
  BY DEF JobInv, Idle, UserInv
<1>4. CASE conn[User] = "active"
  BY <1>2, <1>3, <1>4
<1>5. CASE conn[User] # "active"
  <2>1. \A c \in Channels :
          /\ User \in Members(live'[c]) => User \in Members(live[c]) \/ User \in Members(rows[c])
          /\ User \in Members(rows'[c]) => User \in Members(live[c]) \/ User \in Members(rows[c])
    BY <1>5, Comers
  <2>2. Away(User) => Away(User)'
    BY <2>1 DEF Away
  <2>3. Away(User)' \/ (boot' # "connected" /\ marker' /\ conn'[User] \in {"stored", "attached"})
    BY <1>5, <2>2 DEF UserInv
  <2>4. ASSUME job'.kind = "cleanup", NEW c \in Channels, User \in Members(rows'[c])
        PROVE  c \in job'.todo
    <3>1. User \in Members(live[c]) \/ User \in Members(rows[c])
      BY <2>1, <2>4
    <3>2. ~Away(User)
      BY <3>1 DEF Away
    <3>3. User \in Members(rows[c])
      <4>1. conn[User] = "attached"
        BY <1>3, <1>5, <2>4, <3>2 DEF UserInv
      <4>. QED BY <3>1, <4>1 DEF UserInv, Backed
    <3>. QED BY <1>3, <2>4, <3>3
  <2>. QED BY <1>2, <2>3, <2>4
<1>. QED BY <1>4, <1>5

LEMMA UserStep ==
  ASSUME Base, UserInv, Right(User), Moves, readFails' = readFails
  PROVE  UserInv'
<1>. User \in Actors /\ Models \subseteq Actors /\ (\A m \in Models : m # User)
  BY ChannelsAssumption DEF Actors
<1>. conn \in [Actors -> ConnStates] /\ job.who \in Actors /\ JobInv
  BY DEF Base, TypeOK
<1>1. ASSUME NEW i \in Actors, NEW c \in Channels, NEW w \in Window, Enters(i, c, w)
      PROVE  UserInv'
  <2>1. /\ conn'[User] = conn[User] /\ marker' = marker /\ boot' = boot
        /\ User \in unmarked => User \in unmarked'
        /\ job'.kind = "cleanup" => job' = job
    BY <1>1 DEF Enters, Otherwise
  <2>2. (\A d \in Channels : Backed(d)) => \A d \in Channels : Backed(d)'
    <3>1. \A d \in Channels :
            live'[d] = rows'[d] \/ (rows'[d] = rows[d] /\ live'[d] = live[d])
      BY <1>1 DEF Enters, Saves, Base, TypeOK
    <3>. QED BY <3>1, Backing
  <2>. QED BY <2>1, <2>2, UserStays
<1>2. ASSUME NEW cs \in SUBSET Channels, Fills(cs)
      PROVE  UserInv'
  <2>1. /\ conn'[User] = conn[User] /\ marker' = marker /\ boot' = boot
        /\ User \in unmarked => User \in unmarked'
        /\ job'.kind = "cleanup" => job' = job
    BY <1>2 DEF Fills, Otherwise
  <2>2. (\A c \in Channels : Backed(c)) => \A c \in Channels : Backed(c)'
    <3>1. \A c \in Channels : rows'[c] = rows[c] /\ live'[c] \in {live[c], Loaded(c)}
      BY <1>2 DEF Fills, Filled
    <3>. QED BY <3>1, Backing
  <2>. QED BY <2>1, <2>2, UserStays
<1>3. ASSUME NEW i \in Actors, NEW c \in Channels, Departs(i, c)
      PROVE  UserInv'
  <2>1. /\ conn'[User] = conn[User] /\ marker' = marker /\ boot' = boot
        /\ User \in unmarked => User \in unmarked'
        /\ job'.kind = "cleanup" => job' = job
    BY <1>3 DEF Departs, Otherwise
  <2>2. (\A d \in Channels : Backed(d)) => \A d \in Channels : Backed(d)'
    <3>1. \A d \in Channels :
            live'[d] = rows'[d] \/ (rows'[d] = rows[d] /\ live'[d] = live[d])
      BY <1>3 DEF Departs, Saves, Base, TypeOK
    <3>. QED BY <3>1, Backing
  <2>. QED BY <2>1, <2>2, UserStays
<1>4. ASSUME NEW c \in Channels, NEW w \in Window, Updates(c, w)
      PROVE  UserInv'
  <2>1. /\ conn'[User] = conn[User] /\ marker' = marker /\ boot' = boot
        /\ User \in unmarked => User \in unmarked'
        /\ job'.kind = "cleanup" => job' = job
    BY <1>4 DEF Updates, Otherwise
  <2>2. (\A d \in Channels : Backed(d)) => \A d \in Channels : Backed(d)'
    <3>1. \A d \in Channels :
            live'[d] = rows'[d] \/ (rows'[d] = rows[d] /\ live'[d] = live[d])
      BY <1>4 DEF Updates, Saves, Base, TypeOK
    <3>. QED BY <3>1, Backing
  <2>. QED BY <2>1, <2>2, UserStays
<1>5. ASSUME NEW i \in Actors, NEW n \in Nicks, Renames(i, n)
      PROVE  UserInv'
  <2>1. /\ conn'[User] = conn[User] /\ marker' = marker /\ boot' = boot
        /\ User \in unmarked => User \in unmarked'
        /\ job'.kind = "cleanup" => job' = job
    BY <1>5 DEF Renames, Otherwise
  <2>2. (\A c \in Channels : Backed(c)) => \A c \in Channels : Backed(c)'
    <3>1. \A d \in Channels :
            live'[d] = rows'[d] \/ (rows'[d] = rows[d] /\ live'[d] = live[d])
      BY <1>5 DEF Renames, Base, TypeOK
    <3>. QED BY <3>1, Backing
  <2>. QED BY <2>1, <2>2, UserStays
<1>6. ASSUME NEW n \in Nicks, SaveNick(n)
      PROVE  UserInv'
  <2>1. /\ conn'[User] = conn[User] /\ marker' = marker /\ boot' = boot
        /\ User \in unmarked => User \in unmarked'
        /\ job'.kind = "cleanup" => job' = job
    BY <1>6 DEF SaveNick, memory, budget
  <2>2. (\A c \in Channels : Backed(c)) => \A c \in Channels : Backed(c)'
    <3>1. \A d \in Channels :
            live'[d] = rows'[d] \/ (rows'[d] = rows[d] /\ live'[d] = live[d])
      BY <1>6 DEF SaveNick, memory, budget
    <3>. QED BY <3>1, Backing
  <2>. QED BY <2>1, <2>2, UserStays
<1>7. ASSUME NEW i \in Actors, Deletes(i)
      PROVE  UserInv'
  <2>1. CASE i # User
    <3>1. /\ conn'[User] = conn[User] /\ marker' = marker /\ boot' = boot
          /\ UNCHANGED <<unmarked, job>>
      BY <1>7, <2>1 DEF Deletes, InstanceDeleted, Base, TypeOK
    <3>2. \A c \in Channels :
            /\ rows'[c] = RowsWithout(i)[c]
            /\ live'[c] = live[c] \/ live'[c] = FromStore(rows'[c])
      BY <1>7, DeleteShows
    <3>3. ASSUME \A c \in Channels : Backed(c), NEW c \in Channels
          PROVE  Backed(c)'
      <4>1. CASE live'[c] = live[c]
        <5>1. SameFor(User, rows'[c], rows[c])
          BY <2>1, <3>2, RowsWithoutShows
        <5>. QED BY <3>3, <4>1, <5>1 DEF Backed, SameFor
      <4>2. CASE live'[c] = FromStore(rows'[c])
        <5>1. rows'[c] \in Window \cup {NoChannel}
          BY <3>2, RecordTypes DEF Base
        <5>2. CASE rows'[c] = NoChannel
          BY <4>2, <5>2 DEF Backed, FromStore
        <5>3. CASE rows'[c] \in Window
          BY <4>2, <5>3, FromStoreWindow DEF Backed
        <5>. QED BY <5>1, <5>2, <5>3
      <4>. QED BY <3>2, <4>1, <4>2
    <3>. QED BY <3>1, <3>3, UserStays
  <2>2. CASE i = User
    <3>1. conn'[User] = "retired" /\ UNCHANGED <<unmarked, job>> /\ conn[User] = "active" /\ job = Idle
      BY <1>7, <2>2 DEF Deletes, InstanceDeleted, Retired, Running, Active, Base, TypeOK
    <3>2. ASSUME User \notin unmarked PROVE Away(User)'
      <4>1. Tracked(User)
        BY <3>1, <3>2 DEF Tracked
      <4>. QED BY <1>7, <2>2, <4>1, DeletedAway
    <3>. QED BY <3>1, <3>2 DEF UserInv, Idle
  <2>. QED BY <2>1, <2>2
<1>8. ASSUME NEW i \in Actors, Forced(i)
      PROVE  UserInv'
  <2>1. CASE i # User
    <3>1. /\ conn'[User] = conn[User] /\ marker' = marker /\ boot' = boot
          /\ UNCHANGED unmarked /\ job'.kind # "cleanup"
      BY <1>8, <2>1 DEF Forced, Base, TypeOK
    <3>2. \A c \in Channels : rows'[c] = rows[c] /\ live'[c] \in {live[c], Loaded(c)}
      BY <1>8 DEF Forced, Filled
    <3>3. (\A c \in Channels : Backed(c)) => \A c \in Channels : Backed(c)'
      BY <3>2, Backing
    <3>. QED BY <3>1, <3>3, UserStays
  <2>2. CASE i = User
    <3>1. conn'[User] = "retired" /\ User \in unmarked'
      BY <1>8, <2>2 DEF Forced, Retired, Base, TypeOK
    <3>. QED BY <3>1 DEF UserInv
  <2>. QED BY <2>1, <2>2
<1>9. ASSUME NEW m \in Models, NEW n \in Nicks, NEW c \in Channels, Registers(m, n, c)
      PROVE  UserInv'
  <2>1. /\ conn'[User] = conn[User] /\ marker' = marker /\ boot' = boot
        /\ User \in unmarked => User \in unmarked'
        /\ job'.kind = "cleanup" => job' = job
    BY <1>9 DEF Registers, Base, TypeOK
  <2>2. (\A d \in Channels : Backed(d)) => \A d \in Channels : Backed(d)'
    <3>1. \A d \in Channels : rows'[d] = rows[d] /\ live'[d] \in {live[d], Loaded(d)}
      BY <1>9 DEF Registers, Filled
    <3>. QED BY <3>1, Backing
  <2>. QED BY <2>1, <2>2, UserStays
<1>10. ASSUME NEW m \in Models, Attach(m)
       PROVE  UserInv'
  <2>1. /\ conn'[User] = conn[User] /\ marker' = marker /\ boot' = boot
        /\ User \in unmarked => User \in unmarked'
        /\ job'.kind = "cleanup" => job' = job
    BY <1>10 DEF Attach, durable, budget, Base, TypeOK
  <2>2. (\A c \in Channels : Backed(c)) => \A c \in Channels : Backed(c)'
    <3>1. \A d \in Channels :
            live'[d] = rows'[d] \/ (rows'[d] = rows[d] /\ live'[d] = live[d])
      BY <1>10 DEF Attach, durable
    <3>. QED BY <3>1, Backing
  <2>. QED BY <2>1, <2>2, UserStays
<1>11. ASSUME NEW m \in Models, Discard(m)
       PROVE  UserInv'
  <2>1. /\ conn'[User] = conn[User] /\ marker' = marker /\ boot' = boot
        /\ User \in unmarked => User \in unmarked'
        /\ job'.kind = "cleanup" => job' = job
    BY <1>11 DEF Discard, MarkOrRemember, Base, TypeOK
  <2>2. (\A c \in Channels : Backed(c)) => \A c \in Channels : Backed(c)'
    <3>1. \A d \in Channels :
            live'[d] = rows'[d] \/ (rows'[d] = rows[d] /\ live'[d] = live[d])
      BY <1>11 DEF Discard
    <3>. QED BY <3>1, Backing
  <2>. QED BY <2>1, <2>2, UserStays
<1>12. ASSUME NEW m \in Models, DiscardOnLoop(m)
       PROVE  UserInv'
  <2>1. /\ conn'[User] = conn[User] /\ marker' = marker /\ boot' = boot
        /\ User \in unmarked => User \in unmarked'
        /\ job'.kind = "cleanup" => job' = job
    BY <1>12 DEF DiscardOnLoop, durable, budget
  <2>2. (\A c \in Channels : Backed(c)) => \A c \in Channels : Backed(c)'
    <3>1. \A c \in Channels : rows'[c] = rows[c] /\ live'[c] \in {live[c], Loaded(c)}
      BY <1>12 DEF DiscardOnLoop, durable, Filled
    <3>. QED BY <3>1, Backing
  <2>. QED BY <2>1, <2>2, UserStays
<1>13. ASSUME MarkPending
       PROVE  UserInv'
  <2>1. /\ conn'[User] = conn[User] /\ marker' = marker /\ boot' = boot
        /\ User \in unmarked => User \in unmarked'
        /\ job'.kind = "cleanup" => job' = job
    BY <1>13 DEF MarkPending, MarkOrRemember, memory, Base, TypeOK
  <2>2. (\A c \in Channels : Backed(c)) => \A c \in Channels : Backed(c)'
    <3>1. \A d \in Channels :
            live'[d] = rows'[d] \/ (rows'[d] = rows[d] /\ live'[d] = live[d])
      BY <1>13 DEF MarkPending, memory
    <3>. QED BY <3>1, Backing
  <2>. QED BY <2>1, <2>2, UserStays
<1>14. ASSUME NEW c \in Channels, Leave(c)
       PROVE  UserInv'
  <2>0. PICK ok \in BOOLEAN :
          /\ rows' = IF ok THEN [rows EXCEPT ![c] = live'[c]] ELSE rows
          /\ IF job.kind = "cleanup" /\ ~ok
             THEN job' = Idle /\ conn' = Aborted
             ELSE /\ job' = [job EXCEPT !.todo = @ \ {c}, !.clean = @ /\ ok]
                  /\ UNCHANGED conn
    BY <1>14 DEF Leave, Base, TypeOK
  <2>1. UNCHANGED <<marker, boot, unmarked>> /\ job.kind \in {"quit", "discard", "cleanup"}
    BY <1>14 DEF Leave
  <2>2. CASE job.kind # "cleanup"
    <3>1. conn' = conn /\ job'.kind # "cleanup"
      BY <2>0, <2>2 DEF Base, TypeOK
    <3>2. CASE job.who = User
      <4>1. conn[User] = "retired" /\ User \in unmarked
        BY <2>1, <2>2, <3>2, ChannelsAssumption DEF JobInv, Retired, Idle
      <4>. QED BY <2>1, <3>1, <4>1 DEF UserInv
    <3>3. CASE job.who # User
      <4>1. \A d \in Channels \ {c} : live'[d] = live[d] /\ rows'[d] = rows[d]
        BY <1>14, LeaveTakes
      <4>2. SameFor(User, live'[c], Loaded(c))
        BY <1>14, <3>3, LeftShows DEF Leave, Emptied, Base, TypeOK
      <4>3. rows'[c] = rows[c] \/ rows'[c] = live'[c]
        BY <2>0 DEF Base, TypeOK
      <4>4. (\A d \in Channels : Backed(d)) => \A d \in Channels : Backed(d)'
        <5>. SUFFICES ASSUME \A d \in Channels : Backed(d) PROVE \A d \in Channels : Backed(d)'
          OBVIOUS
        <5>1. User \in Members(Loaded(c)) => User \in Members(rows[c])
          BY LoadedMembers DEF Backed
        <5>2. Backed(c)'
          BY <4>2, <4>3, <5>1 DEF Backed, SameFor
        <5>3. \A d \in Channels \ {c} : Backed(d)'
          BY <4>1 DEF Backed
        <5>. QED BY <5>2, <5>3
      <4>. QED BY <2>1, <3>1, <4>4, UserStays
    <3>. QED BY <3>2, <3>3
  <2>3. CASE job.kind = "cleanup"
    <3>1. /\ job.who = User
          /\ conn[User] = IF boot = "connected" THEN "registered" ELSE "attached"
      BY <2>3 DEF JobInv, Idle
    <3>2. /\ User \notin Members(live'[c])
          /\ \A d \in Channels \ {c} : live'[d] = live[d] /\ rows'[d] = rows[d]
      BY <1>14, <3>1, LeaveTakes
    <3>3. (\A d \in Channels : Backed(d)) => \A d \in Channels : Backed(d)'
      BY <3>2 DEF Backed
    <3>4. CASE ~ok
      <4>1. job' = Idle /\ conn' = Aborted
        BY <2>0, <2>3, <3>4
      <4>2. CASE boot = "connected"
        <5>1. conn'[User] = "retired"
          BY <4>1, <4>2 DEF Aborted, Base, TypeOK
        <5>2. User \notin unmarked => Away(User)
          BY <3>1, <4>2 DEF UserInv
        <5>3. User \notin unmarked => Away(User)'
          BY <3>1, <4>2, <5>2, Comers DEF Away
        <5>. QED BY <2>1, <4>1, <5>1, <5>3 DEF UserInv, Idle
      <4>3. CASE boot # "connected"
        <5>1. conn'[User] = conn[User]
          BY <3>1, <4>1, <4>3 DEF Aborted, Base, TypeOK
        <5>. QED BY <2>1, <3>3, <4>1, <5>1, UserStays DEF Idle
      <4>. QED BY <4>2, <4>3
    <3>5. CASE ok
      <4>1. /\ conn' = conn /\ job'.kind = "cleanup" /\ job'.todo = job.todo \ {c}
            /\ rows'[c] = live'[c]
        BY <2>0, <2>3, <3>5 DEF Base, TypeOK
      <4>2. ASSUME User \notin unmarked
            PROVE  /\ Away(User)' \/ (boot' # "connected" /\ marker' /\ conn'[User] \in {"stored", "attached"})
                   /\ conn'[User] = "attached" => \A d \in Channels : Backed(d)'
                   /\ \A d \in Channels : User \in Members(rows'[d]) => d \in job'.todo
        <5>1. Away(User) => Away(User)'
          BY <3>2, <4>1 DEF Away
        <5>2. Away(User) \/ (boot # "connected" /\ marker /\ conn[User] \in {"stored", "attached"})
          BY <3>1, <4>2 DEF UserInv
        <5>3. \A d \in Channels : User \in Members(rows[d]) => d \in job.todo
          BY <2>3, <4>2 DEF UserInv
        <5>4. \A d \in Channels : User \in Members(rows'[d]) => d \in job'.todo
          BY <3>2, <4>1, <5>3
        <5>5. conn'[User] = "attached" => \A d \in Channels : Backed(d)'
          BY <3>3, <4>1, <4>2 DEF UserInv
        <5>. QED BY <2>1, <4>1, <5>1, <5>2, <5>4, <5>5
      <4>3. conn'[User] # "active"
        BY <3>1, <4>1
      <4>. QED BY <2>1, <4>2, <4>3 DEF UserInv
    <3>. QED BY <3>4, <3>5
  <2>. QED BY <2>2, <2>3
<1>15. ASSUME NEW c \in Channels, CleanupStops(c)
       PROVE  UserInv'
  <2>1. /\ UNCHANGED <<live, rows, marker, boot, unmarked>> /\ job' = Idle /\ conn' = Aborted
        /\ job.kind = "cleanup"
    BY <1>15 DEF CleanupStops, durable
  <2>2. conn[User] = IF boot = "connected" THEN "registered" ELSE "attached"
    BY <2>1 DEF JobInv, Idle
  <2>3. CASE boot = "connected"
    <3>1. conn'[User] = "retired" /\ (User \notin unmarked => Away(User))
      BY <2>1, <2>2, <2>3 DEF Aborted, UserInv, Base, TypeOK
    <3>. QED BY <2>1, <3>1 DEF UserInv, Away, Idle
  <2>4. CASE boot # "connected"
    <3>1. conn'[User] = conn[User]
      BY <2>1, <2>2, <2>4 DEF Aborted, Base, TypeOK
    <3>. QED BY <2>1, <3>1 DEF UserInv, Away, Backed, Idle
  <2>. QED BY <2>3, <2>4
<1>16. ASSUME FinishDeparture
       PROVE  UserInv'
  <2>1. CASE job.who # User
    <3>1. /\ conn'[User] = conn[User] /\ boot' = boot /\ job' = Idle
          /\ User \in unmarked => User \in unmarked'
      BY <1>16, <2>1 DEF FinishDeparture, DoneAfterAll, Base, TypeOK
    <3>2. marker' = marker
      BY <1>16, <2>1 DEF FinishDeparture, ClearMarker
    <3>3. live' = live /\ (rows' = rows \/ rows' = RowsWithout(job.who))
      BY <1>16 DEF FinishDeparture
    <3>4. \A c \in Channels : SameFor(User, live'[c], live[c]) /\ SameFor(User, rows'[c], rows[c])
      BY <2>1, <3>3, RowsWithoutShows DEF SameFor
    <3>5. (\A c \in Channels : Backed(c)) => \A c \in Channels : Backed(c)'
      BY <3>4, Backing
    <3>. QED BY <3>1, <3>2, <3>5, UserStays DEF Idle
  <2>2. CASE job.who = User
    <3>1. User \in unmarked /\ job.kind = "quit"
      BY <1>16, <2>2, ChannelsAssumption DEF FinishDeparture, JobInv, Idle
    <3>2. conn'[User] = "retired" /\ job' = Idle /\ live' = live
      BY <1>16, <2>2 DEF FinishDeparture, Retired, Base, TypeOK
    <3>3. CASE unmarked' = unmarked
      BY <3>1, <3>2, <3>3 DEF UserInv
    <3>4. CASE rows' = RowsWithout(User) /\ unmarked' = DoneAfterAll(User)
      <4>1. User \notin unmarked' => Away(User)'
        BY <3>1, <3>2, <3>4, RowsWithoutShows DEF DoneAfterAll, Away
      <4>. QED BY <3>2, <4>1 DEF UserInv, Idle
    <3>5. unmarked' = unmarked \/ (rows' = RowsWithout(User) /\ unmarked' = DoneAfterAll(User))
      BY <1>16, <2>2 DEF FinishDeparture
    <3>. QED BY <3>3, <3>4, <3>5
  <2>. QED BY <2>1, <2>2
<1>17. ASSUME AttachUser
       PROVE  UserInv'
  <2>1. /\ UNCHANGED <<live, rows, marker, unmarked, job>> /\ boot' = "starting"
        /\ conn'[User] = "attached" /\ boot = "down"
    BY <1>17 DEF AttachUser, budget, Base, TypeOK
  <2>2. job = Idle /\ (\A c \in Channels : live[c] = NoChannel) /\ conn[User] = "stored"
    BY <2>1 DEF Base, BootInv
  <2>3. \A c \in Channels : Backed(c)'
    BY <2>1, <2>2 DEF Backed, Members
  <2>4. Away(User) => Away(User)'
    BY <2>1 DEF Away
  <2>. QED BY <2>1, <2>2, <2>3, <2>4 DEF UserInv, Idle
<1>18. ASSUME NEW m \in Models, PurgePending(m)
       PROVE  UserInv'
  <2>1. /\ conn'[User] = conn[User] /\ UNCHANGED <<live, marker, boot, unmarked, job>>
        /\ boot = "starting"
    BY <1>18 DEF PurgePending, budget, Base, TypeOK
  <2>2. \A c \in Channels : Backed(c)'
    BY <2>1 DEF Backed, Members, Base, BootInv
  <2>. QED BY <2>1, <2>2, UserStays
<1>19. ASSUME StartModels
       PROVE  UserInv'
  <2>1. /\ conn'[User] = conn[User] /\ UNCHANGED <<live, rows, marker, unmarked, job>>
        /\ boot' = "running"
    BY <1>19 DEF StartModels, durable, Base, TypeOK
  <2>2. (\A c \in Channels : Backed(c)) => \A c \in Channels : Backed(c)'
    BY <2>1 DEF Backed
  <2>. QED BY <2>1, <2>2, UserStays
<1>20. ASSUME Cleanup
       PROVE  UserInv'
  <2>1. /\ UNCHANGED <<rows, marker, boot, unmarked, conn>> /\ live' = Filled(StaleMemberships)
        /\ job'.todo = StaleMemberships /\ conn[User] # "active"
    BY <1>20 DEF Cleanup, durable, budget
  <2>2. Away(User) => Away(User)'
    BY <2>1, Comers DEF Away
  <2>3. (\A c \in Channels : Backed(c)) => \A c \in Channels : Backed(c)'
    BY <2>1, Backing DEF Filled
  <2>4. \A c \in Channels : User \in Members(rows'[c]) => c \in job'.todo
    BY <2>1 DEF StaleMemberships
  <2>. QED BY <2>1, <2>2, <2>3, <2>4 DEF UserInv
<1>21. ASSUME Reconciled
       PROVE  UserInv'
  <2>1. /\ UNCHANGED <<live, rows, marker, boot, unmarked>> /\ conn'[User] = "reconciled"
        /\ job'.kind # "cleanup"
    BY <1>21 DEF Reconciled, durable, budget, JobInv, Idle, Base, TypeOK
  <2>2. User \notin unmarked => Away(User)
    <3>. SUFFICES ASSUME User \notin unmarked PROVE Away(User)
      OBVIOUS
    <3>1. CASE job.kind = "cleanup" /\ job.todo = {}
      <4>1. \A c \in Channels : User \notin Members(rows[c])
        BY <3>1 DEF UserInv
      <4>2. conn[User] = IF boot = "connected" THEN "registered" ELSE "attached"
        BY <3>1 DEF JobInv, Idle
      <4>3. conn[User] = "attached" => Away(User)
        BY <4>1 DEF UserInv, Backed, Away
      <4>. QED BY <4>2, <4>3 DEF UserInv
    <3>2. CASE conn[User] = "attached" /\ ~Unclean
      BY <3>2 DEF Unclean, UserInv
    <3>. QED BY <1>21, <3>1, <3>2 DEF Reconciled
  <2>3. Away(User) => Away(User)'
    BY <2>1 DEF Away
  <2>. QED BY <2>1, <2>2, <2>3 DEF UserInv
<1>22. ASSUME Reactivate
       PROVE  UserInv'
  <2>1. /\ UNCHANGED <<live, marker, boot, unmarked, job>> /\ job = Idle
        /\ conn[User] = "retired" /\ conn'[User] \in {"retired", "registered"}
    BY <1>22 DEF Reactivate, Running, Base, TypeOK
  <2>2. Away(User) => Away(User)'
    BY <2>1, Comers DEF Away
  <2>. QED BY <2>1, <2>2 DEF UserInv, Idle
<1>23. ASSUME Activate
       PROVE  UserInv'
  <2>1. UNCHANGED <<live, rows, unmarked, job>> /\ conn[User] = "reconciled"
    BY <1>23 DEF Activate
  <2>2. PICK ok \in BOOLEAN :
          /\ marker' = (marker \/ ok)
          /\ conn' = IF ok THEN [conn EXCEPT ![User] = "active"] ELSE Aborted
    BY <1>23 DEF Activate
  <2>3. conn'[User] = "active" => marker'
    BY <2>2 DEF Aborted, Base, TypeOK
  <2>4. job'.kind # "cleanup"
    BY <2>1 DEF JobInv, Idle
  <2>5. User \notin unmarked => Away(User)' /\ \A c \in Channels : Backed(c)'
    BY <2>1 DEF UserInv, Away, Backed
  <2>. QED BY <2>1, <2>3, <2>4, <2>5 DEF UserInv
<1>24. ASSUME Stop
       PROVE  UserInv'
  <2>1. /\ boot' = "down" /\ conn'[User] = "stored" /\ job' = Idle
        /\ UNCHANGED <<rows, marker, unmarked>> /\ (\A c \in Channels : live'[c] = NoChannel)
    BY <1>24 DEF Stop, durable
  <2>2. Away(User) => Away(User)'
    BY <2>1 DEF Away, Members
  <2>. QED BY <2>1, <2>2 DEF UserInv, Idle
<1>. QED BY <1>1, <1>2, <1>3, <1>4, <1>5, <1>6, <1>7, <1>8, <1>9, <1>10, <1>11, <1>12, <1>13, <1>14, <1>15, <1>16, <1>17, <1>18, <1>19, <1>20, <1>21, <1>22, <1>23, <1>24 DEF Moves, Boot

LEMMA ReadsFail ==
  ASSUME Base, Moves
  PROVE  readFails' \in 0 .. readFails
<1>. readFails \in Nat /\ readFails \in 0 .. readFails
  BY ChannelsAssumption DEF Base, TypeOK
<1>1. ASSUME NEW i \in Actors, NEW c \in Channels, NEW w \in Window, Enters(i, c, w)
      PROVE  readFails' \in 0 .. readFails
  BY <1>1 DEF Enters, Otherwise, Running, Up
<1>2. ASSUME NEW cs \in SUBSET Channels, Fills(cs)
      PROVE  readFails' \in 0 .. readFails
  BY <1>2 DEF Fills, Otherwise, Up
<1>3. ASSUME NEW i \in Actors, NEW c \in Channels, Departs(i, c)
      PROVE  readFails' \in 0 .. readFails
  BY <1>3 DEF Departs, Otherwise, Running, Up
<1>4. ASSUME NEW c \in Channels, NEW w \in Window, Updates(c, w)
      PROVE  readFails' \in 0 .. readFails
  BY <1>4 DEF Updates, Otherwise, Running, Up
<1>5. ASSUME NEW i \in Actors, NEW n \in Nicks, Renames(i, n)
      PROVE  readFails' \in 0 .. readFails
  BY <1>5 DEF Renames, Otherwise, Running, Up
<1>6. ASSUME NEW n \in Nicks, SaveNick(n)
      PROVE  readFails' \in 0 .. readFails
  BY <1>6 DEF SaveNick, Running, Up, memory, budget
<1>7. ASSUME NEW i \in Actors, Deletes(i)
      PROVE  readFails' \in 0 .. readFails
  <2>1. PICK failed \in SUBSET handle[i].chans :
          /\ Cardinality(failed) <= readFails
          /\ readFails' = readFails - Cardinality(failed)
    BY <1>7 DEF Deletes, InstanceDeleted
  <2>2. Cardinality(failed) \in Nat
    <3>1. failed \subseteq Channels
      BY ClientTypes
    <3>. QED BY <3>1, ChannelsAssumption, FS_Subset, FS_CardinalityType
  <2>. QED BY <2>1, <2>2
<1>8. ASSUME NEW i \in Actors, Forced(i)
      PROVE  readFails' \in 0 .. readFails
  BY <1>8 DEF Forced, Running, Up
<1>9. ASSUME NEW m \in Models, NEW n \in Nicks, NEW c \in Channels, Registers(m, n, c)
      PROVE  readFails' \in 0 .. readFails
  BY <1>9 DEF Registers, Running, Up
<1>10. ASSUME NEW m \in Models, Attach(m)
       PROVE  readFails' \in 0 .. readFails
  BY <1>10 DEF Attach, Up, durable, budget
<1>11. ASSUME NEW m \in Models, Discard(m)
       PROVE  readFails' \in 0 .. readFails
  BY <1>11 DEF Discard, MarkOrRemember, Up
<1>12. ASSUME NEW m \in Models, DiscardOnLoop(m)
       PROVE  readFails' \in 0 .. readFails
  BY <1>12 DEF DiscardOnLoop, Running, Up, durable, budget
<1>13. ASSUME MarkPending
       PROVE  readFails' \in 0 .. readFails
  BY <1>13 DEF MarkPending, MarkOrRemember, memory
<1>14. ASSUME NEW c \in Channels, Leave(c)
       PROVE  readFails' \in 0 .. readFails
  BY <1>14 DEF Leave
<1>15. ASSUME NEW c \in Channels, CleanupStops(c)
       PROVE  readFails' \in 0 .. readFails
  BY <1>15 DEF CleanupStops, durable, budget
<1>16. ASSUME FinishDeparture
       PROVE  readFails' \in 0 .. readFails
  BY <1>16 DEF FinishDeparture
<1>17. ASSUME AttachUser
       PROVE  readFails' \in 0 .. readFails
  BY <1>17 DEF AttachUser, budget
<1>18. ASSUME NEW m \in Models, PurgePending(m)
       PROVE  readFails' \in 0 .. readFails
  BY <1>18 DEF PurgePending, budget
<1>19. ASSUME StartModels
       PROVE  readFails' \in 0 .. readFails
  BY <1>19 DEF StartModels, durable
<1>20. ASSUME Cleanup
       PROVE  readFails' \in 0 .. readFails
  BY <1>20 DEF Cleanup, Running, Up, durable, budget
<1>21. ASSUME Reconciled
       PROVE  readFails' \in 0 .. readFails
  BY <1>21 DEF Reconciled, Up, durable, budget
<1>22. ASSUME Reactivate
       PROVE  readFails' \in 0 .. readFails
  BY <1>22 DEF Reactivate, Running, Up
<1>23. ASSUME Activate
       PROVE  readFails' \in 0 .. readFails
  BY <1>23 DEF Activate, Up
<1>24. ASSUME Stop
       PROVE  readFails' \in 0 .. readFails
  BY <1>24 DEF Stop, durable
<1>. QED BY <1>1, <1>2, <1>3, <1>4, <1>5, <1>6, <1>7, <1>8, <1>9, <1>10, <1>11, <1>12, <1>13, <1>14, <1>15, <1>16, <1>17, <1>18, <1>19, <1>20, <1>21, <1>22, <1>23, <1>24 DEF Moves, Boot

LEMMA AgreeCorrect == Spec => [](Fresh /\ AgreeInv)
<1>. User \in Actors /\ Models \subseteq Actors
  BY ChannelsAssumption DEF Actors
<1>1. Init => Fresh /\ AgreeInv
  <2>. SUFFICES ASSUME Init PROVE Fresh /\ AgreeInv
    OBVIOUS
  <2>1. /\ \A c \in Channels : live[c] = NoChannel /\ rows[c] = NoChannel
        /\ \A i \in Actors : insts[i] = NoRow /\ conn[i] # "active"
        /\ job = Idle /\ boot = "down" /\ unmarked = {} /\ conn[User] = "stored"
    BY DEF Init
  <2>2. \A i \in Actors : ~Resolves(i) /\ Away(i)
    BY <2>1 DEF Resolves, Away, Members
  <2>3. \A i \in Actors, c \in Channels : Durable(i, c) /\ OnLive(i, c) /\ Reached(i, c)
    BY <2>1, <2>2 DEF Durable, OnLive, Reached, Away
  <2>4. \A i \in Actors : Right(i)
    BY <2>1, <2>3 DEF Right, Known, Marking, Up, Idle
  <2>5. UserInv
    BY <2>1, <2>2 DEF UserInv, Idle
  <2>. QED BY <2>1, <2>2, <2>4, <2>5 DEF Fresh, AgreeInv
<1>2. Base /\ Fresh /\ AgreeInv /\ [Next]_vars => (Fresh /\ AgreeInv)'
  <2>. SUFFICES ASSUME Base, Fresh, AgreeInv, [Next]_vars PROVE (Fresh /\ AgreeInv)'
    OBVIOUS
  <2>1. CASE Next
    <3>1. Moves
      BY <2>1, NextMoves
    <3>2. ASSUME Unfailed' PROVE Unfailed /\ readFails' = readFails
      BY <3>1, <3>2, ReadsFail DEF Unfailed, Base, TypeOK
    <3>3. AgreeInv'
      BY <3>1, <3>2, RightStep, UserStep DEF AgreeInv
    <3>. QED BY <3>1, <3>3, FreshStep
  <2>2. CASE UNCHANGED vars
    <3>1. UNCHANGED <<live, gen, handle, conn, job, rows, insts, marker, boot, readFails, unmarked>>
      BY <2>2 DEF vars, memory, durable, budget
    <3>2. UserInv' <=> UserInv
      BY <3>1 DEF UserInv, Away, Backed
    <3>3. \A i \in Actors : Right(i)' <=> Right(i)
      BY <3>1 DEF Right, Tracked, Durable, OnLive, Reached, Known, Marking, Resolves, Leaving, Up
    <3>4. Fresh' <=> Fresh
      BY <3>1 DEF Fresh, Away
    <3>. QED BY <3>1, <3>2, <3>3, <3>4 DEF AgreeInv, Unfailed
  <2>. QED BY <2>1, <2>2
<1>. QED BY <1>1, <1>2, BaseCorrect, PTL DEF Spec

\* While the store answers every read, whatever writes it refuses and wherever
\* the process stops, the member lists, the clients' channel sets and the clients
\* agree, and nobody is on a live list without a client behind it; the exception
\* is a client whose departure the store refused without taking a mark for it.
THEOREM MembershipsAgree == Spec => [](Unfailed => MembershipAgrees)
<1>1. Base /\ AgreeInv => (Unfailed => MembershipAgrees)
  <2>. SUFFICES ASSUME Base, AgreeInv, Unfailed, Settled PROVE MembershipAgrees
    BY DEF MembershipAgrees, NoGhostMember
  <2>1. (\A i \in Actors : Right(i)) /\ UserInv /\ Up /\ job = Idle
    BY DEF AgreeInv, Settled, Running
  <2>2. \A i \in Actors : ~Leaving(i)
    BY <2>1 DEF Leaving, Idle
  <2>3. NoGhostMember
    <3>. SUFFICES ASSUME Active(User), NEW c \in Channels, NEW i \in Actors,
                         i \in Members(live[c]), i \notin unmarked
                  PROVE  conn[i] \in {"active", "discarded"}
      BY DEF NoGhostMember, Active
    <3>1. Tracked(i)
      BY DEF Tracked, Active
    <3>. QED BY <2>1, <2>2, <3>1 DEF Right, OnLive
  <2>4. ASSUME NEW i \in Actors \ unmarked, NEW c \in Channels, Active(i)
        PROVE  On(i, c) <=> c \in handle[i].chans
    <3>1. Tracked(i)
      BY <2>4 DEF Tracked, Active
    <3>. QED BY <2>1, <2>4, <3>1, Loading DEF On, Active
  <2>. QED BY <2>3, <2>4 DEF MembershipAgrees
<1>. QED BY <1>1, BaseCorrect, AgreeCorrect, PTL

\* Under the same condition a member list shows the nick each connected member
\* has now: a NICK reaches every channel of the client or none, in the store and
\* in memory, and a channel read back from its row does not bring an old one.
THEOREM SnapshotsRight == Spec => [](Unfailed => SnapshotsCurrent)
<1>1. Base /\ AgreeInv => (Unfailed => SnapshotsCurrent)
  <2>. SUFFICES ASSUME Base, AgreeInv, Unfailed, Settled,
                       NEW c \in Channels, NEW i \in Members(Loaded(c)) \ unmarked, Active(i)
                PROVE  Loaded(c).nick[i] = handle[i].nick
    BY DEF SnapshotsCurrent
  <2>1. Loaded(c) \in Window
    BY LoadedMembers DEF Members
  <2>2. i \in Actors
    BY <2>1 DEF Window, Members
  <2>3. Right(i) /\ Up /\ Tracked(i)
    BY <2>2 DEF AgreeInv, Settled, Running, Tracked, Active
  <2>. QED BY <2>2, <2>3, Loading
<1>. QED BY <1>1, BaseCorrect, AgreeCorrect, PTL

\* The marker is set by the first connection of the process.
FirstMarker == restarts = MaxRestarts /\ boot # "connected" => ~marker

LEMMA FirstMarkerStep ==
  ASSUME Base, FirstMarker, Moves
  PROVE  FirstMarker'
<1>. restarts \in 0 .. MaxRestarts /\ MaxRestarts \in Nat
  BY ChannelsAssumption DEF Base, TypeOK
<1>1. ASSUME NEW i \in Actors, NEW c \in Channels, NEW w \in Window, Enters(i, c, w)
      PROVE  FirstMarker'
  BY <1>1 DEF Enters, Otherwise, Running, Up, FirstMarker
<1>2. ASSUME NEW cs \in SUBSET Channels, Fills(cs)
      PROVE  FirstMarker'
  BY <1>2 DEF Fills, Otherwise, Up, FirstMarker
<1>3. ASSUME NEW i \in Actors, NEW c \in Channels, Departs(i, c)
      PROVE  FirstMarker'
  BY <1>3 DEF Departs, Otherwise, Running, Up, FirstMarker
<1>4. ASSUME NEW c \in Channels, NEW w \in Window, Updates(c, w)
      PROVE  FirstMarker'
  BY <1>4 DEF Updates, Otherwise, Running, Up, FirstMarker
<1>5. ASSUME NEW i \in Actors, NEW n \in Nicks, Renames(i, n)
      PROVE  FirstMarker'
  BY <1>5 DEF Renames, Otherwise, Running, Up, FirstMarker
<1>6. ASSUME NEW n \in Nicks, SaveNick(n)
      PROVE  FirstMarker'
  BY <1>6 DEF SaveNick, Running, Up, memory, budget, FirstMarker
<1>7. ASSUME NEW i \in Actors, Deletes(i)
      PROVE  FirstMarker'
  <2>1. UNCHANGED <<boot, restarts>>
    BY <1>7 DEF Deletes
  <2>2. CASE i = User
    <3>1. boot = "connected"
      BY <1>7, <2>2 DEF Deletes, Active, Running, Up, Base, BootInv
    <3>. QED BY <2>1, <3>1 DEF FirstMarker
  <2>3. CASE i # User
    BY <1>7, <2>1, <2>3 DEF Deletes, FirstMarker
  <2>. QED BY <2>2, <2>3
<1>8. ASSUME NEW i \in Actors, Forced(i)
      PROVE  FirstMarker'
  BY <1>8 DEF Forced, Running, Up, FirstMarker
<1>9. ASSUME NEW m \in Models, NEW n \in Nicks, NEW c \in Channels, Registers(m, n, c)
      PROVE  FirstMarker'
  BY <1>9 DEF Registers, Running, Up, FirstMarker
<1>10. ASSUME NEW m \in Models, Attach(m)
       PROVE  FirstMarker'
  BY <1>10 DEF Attach, Up, durable, budget, FirstMarker
<1>11. ASSUME NEW m \in Models, Discard(m)
       PROVE  FirstMarker'
  BY <1>11 DEF Discard, MarkOrRemember, Up, FirstMarker
<1>12. ASSUME NEW m \in Models, DiscardOnLoop(m)
       PROVE  FirstMarker'
  BY <1>12 DEF DiscardOnLoop, Running, Up, durable, budget, FirstMarker
<1>13. ASSUME MarkPending
       PROVE  FirstMarker'
  BY <1>13 DEF MarkPending, MarkOrRemember, memory, FirstMarker
<1>14. ASSUME NEW c \in Channels, Leave(c)
       PROVE  FirstMarker'
  BY <1>14 DEF Leave, FirstMarker
<1>15. ASSUME NEW c \in Channels, CleanupStops(c)
       PROVE  FirstMarker'
  BY <1>15 DEF CleanupStops, durable, budget, FirstMarker
<1>16. ASSUME FinishDeparture
       PROVE  FirstMarker'
  <2>1. UNCHANGED <<boot, restarts>> /\ (marker' => marker)
    <3>1. UNCHANGED <<boot, restarts>>
      BY <1>16 DEF FinishDeparture
    <3>2. ClearMarker(job.who, job.clean) \/ marker' = marker
      BY <1>16 DEF FinishDeparture
    <3>3. ClearMarker(job.who, job.clean) => (marker' => marker)
      BY DEF ClearMarker
    <3>. QED BY <3>1, <3>2, <3>3
  <2>. QED BY <2>1 DEF FirstMarker
<1>17. ASSUME AttachUser
       PROVE  FirstMarker'
  BY <1>17 DEF AttachUser, budget, FirstMarker
<1>18. ASSUME NEW m \in Models, PurgePending(m)
       PROVE  FirstMarker'
  BY <1>18 DEF PurgePending, budget, FirstMarker
<1>19. ASSUME StartModels
       PROVE  FirstMarker'
  BY <1>19 DEF StartModels, durable, FirstMarker
<1>20. ASSUME Cleanup
       PROVE  FirstMarker'
  BY <1>20 DEF Cleanup, Running, Up, durable, budget, FirstMarker
<1>21. ASSUME Reconciled
       PROVE  FirstMarker'
  BY <1>21 DEF Reconciled, Up, durable, budget, FirstMarker
<1>22. ASSUME Reactivate
       PROVE  FirstMarker'
  BY <1>22 DEF Reactivate, Running, Up, FirstMarker
<1>23. ASSUME Activate
       PROVE  FirstMarker'
  <2>1. PICK ok \in BOOLEAN :
          /\ marker' = (marker \/ ok) /\ boot' = (IF ok THEN "connected" ELSE boot)
          /\ restarts' = restarts
    BY <1>23 DEF Activate
  <2>. QED BY <2>1 DEF FirstMarker
<1>24. ASSUME Stop
       PROVE  FirstMarker'
  <2>1. restarts' = restarts - 1
    BY <1>24 DEF Stop
  <2>. QED BY <2>1 DEF FirstMarker
<1>. QED BY <1>1, <1>2, <1>3, <1>4, <1>5, <1>6, <1>7, <1>8, <1>9, <1>10, <1>11, <1>12, <1>13, <1>14, <1>15, <1>16, <1>17, <1>18, <1>19, <1>20, <1>21, <1>22, <1>23, <1>24 DEF Moves, Boot

\* What GatedEntry says of a step.
Gated ==
  restarts = MaxRestarts =>
    \A c \in Channels, i \in Actors :
      live[c] # NoChannel /\ i \in Members(live'[c]) \ (Members(live[c]) \cup unmarked) =>
        /\ live[c].closed => i \in live[c].invites \/ joining[i] = c
        /\ i \notin live'[c].invites
        /\ c \in handle'[i].chans

LEMMA NobodyNew ==
  ASSUME Base, NEW i \in Actors, NEW c \in Channels, live[c] # NoChannel,
         i \notin Members(live[c]), Shows(i, c)
  PROVE  i \notin Members(live'[c])
BY DEF Shows, SameFor, Loaded

\* A QUIT reads its channels back from the store, with the members they had.
LEMMA ReloadedMembers ==
  ASSUME Base, AgreeInv, Unfailed, FirstMarker, restarts = MaxRestarts,
         NEW j \in Actors, Deletes(j), readFails' = readFails,
         NEW c \in Channels, live[c] # NoChannel,
         NEW i \in Actors \ unmarked, i \in Members(live'[c])
  PROVE  i \in Members(live[c])
<1>1. CASE c \notin handle[j].chans
  BY <1>1, DeleteShows
<1>2. CASE c \in handle[j].chans
  <2>1. live'[c] = FromStore(RowsWithout(j)[c]) /\ RowsWithout(j)[c] \in Window \cup {NoChannel}
    BY <1>2, DeleteShows, RecordTypes DEF Base
  <2>2. RowsWithout(j)[c] \in Window
    BY <2>1 DEF FromStore, Members
  <2>3. i \in Members(RowsWithout(j)[c]) /\ Resolves(i)
    BY <2>1, <2>2, FromStoreWindow
  <2>4. i # j /\ i \in Members(rows[c])
    BY <2>3, RowsWithoutShows DEF SameFor
  <2>5. Up /\ job = Idle /\ boot # "down" /\ boot # "starting" /\ Right(i) /\ UserInv
    BY DEF Deletes, Running, Up, AgreeInv
  <2>6. CASE Tracked(i)
    <3>1. ~Leaving(i)
      BY <2>5 DEF Leaving, Idle
    <3>2. SameFor(i, rows[c], Loaded(c))
      BY <2>3, <2>5, <2>6, <3>1, Agreeing
    <3>. QED BY <2>4, <3>2 DEF SameFor, Loaded
  <2>7. CASE ~Tracked(i)
    <3>1. i = User /\ conn[User] # "active" /\ User \notin unmarked
      BY <2>7 DEF Tracked
    <3>2. Away(User) \/ (boot # "connected" /\ marker)
      BY <2>5, <3>1 DEF UserInv
    <3>. QED BY <2>4, <3>1, <3>2 DEF Away, FirstMarker
  <2>. QED BY <2>6, <2>7
<1>. QED BY <1>1, <1>2

LEMMA GatedStep ==
  ASSUME Base, AgreeInv, FirstMarker, Moves, Unfailed'
  PROVE  Gated
<1>. SUFFICES ASSUME restarts = MaxRestarts, NEW d \in Channels, NEW i \in Actors,
                     live[d] # NoChannel, i \in Members(live'[d]),
                     i \notin Members(live[d]), i \notin unmarked
              PROVE  /\ live[d].closed => i \in live[d].invites \/ joining[i] = d
                     /\ i \notin live'[d].invites
                     /\ d \in handle'[i].chans
  BY DEF Gated
<1>. DEFINE Admitted == /\ live[d].closed => i \in live[d].invites \/ joining[i] = d
                        /\ i \notin live'[d].invites
                        /\ d \in handle'[i].chans
<1>. User \in Actors /\ Models \subseteq Actors /\ job.who \in Actors
  BY ChannelsAssumption DEF Actors, Base, TypeOK
<1>. Unfailed /\ readFails' = readFails
  BY ReadsFail DEF Unfailed, Base, TypeOK
<1>1. ASSUME NEW j \in Actors, NEW c \in Channels, NEW w \in Window, Enters(j, c, w)
      PROVE  Admitted
  <2>1. CASE i = j
    <3>1. /\ i \notin w.invites \/ i \in Members(Loaded(c))
          /\ live[c] # NoChannel /\ live[c].closed /\ i \notin Members(live[c]) =>
               i \in live[c].invites \/ joining[i] = c
          /\ live' = [live EXCEPT ![c] = w]
      BY <1>1, <2>1 DEF Enters, Saves
    <3>2. d = c
      BY <3>1 DEF Base, TypeOK
    <3>3. live'[c] = w /\ Loaded(c) = live[c]
      BY <3>1, <3>2 DEF Loaded, Base, TypeOK
    <3>4. c \in handle'[i].chans
      BY <1>1, <2>1 DEF Enters, Stores, Base, TypeOK
    <3>. QED BY <3>1, <3>2, <3>3, <3>4
  <2>2. CASE i # j
    BY <1>1, <2>2, EnterShows, NobodyNew
  <2>. QED BY <2>1, <2>2
<1>2. ASSUME NEW cs \in SUBSET Channels, Fills(cs)
      PROVE  Admitted
  <2>1. Shows(i, d)
    BY <1>2, FilledShows DEF Fills, Otherwise
  <2>. QED BY <2>1, NobodyNew
<1>3. ASSUME NEW j \in Actors, NEW c \in Channels, Departs(j, c)
      PROVE  Admitted
  <2>1. CASE i # j
    BY <1>3, <2>1, DepartShows, NobodyNew
  <2>2. CASE i = j
    BY <1>3, <2>2, DepartShows
  <2>. QED BY <2>1, <2>2
<1>4. ASSUME NEW c \in Channels, NEW w \in Window, Updates(c, w)
      PROVE  Admitted
  <2>1. Shows(i, d)
    BY <1>4, UpdateShows DEF Updates
  <2>. QED BY <2>1, NobodyNew
<1>5. ASSUME NEW j \in Actors, NEW n \in Nicks, Renames(j, n)
      PROVE  Admitted
  <2>1. CASE i # j
    BY <1>5, <2>1, RenamedShows, NobodyNew
  <2>2. CASE i = j
    <3>1. live'[d] = live[d] \/ live'[d] = Renamed(Loaded(d), i, n)
      BY <1>5, <2>2 DEF Renames
    <3>2. Loaded(d) = live[d] /\ live[d] \in Window
      BY DEF Loaded, Base, TypeOK
    <3>3. Members(Renamed(Loaded(d), i, n)) = Members(Loaded(d))
      BY <3>2, RenamedWindow
    <3>. QED BY <3>1, <3>2, <3>3
  <2>. QED BY <2>1, <2>2
<1>6. ASSUME NEW n \in Nicks, SaveNick(n)
      PROVE  Admitted
  <2>1. live' = live
    BY <1>6 DEF SaveNick, memory
  <2>. QED BY <2>1
<1>7. ASSUME NEW j \in Actors, Deletes(j)
      PROVE  Admitted
  <2>. QED BY <1>7, ReloadedMembers
<1>8. ASSUME NEW j \in Actors, Forced(j)
      PROVE  Admitted
  <2>1. live' = Filled(handle[j].chans) /\ handle[j].chans \in SUBSET Channels /\ UNCHANGED <<gen, rows>>
    BY <1>8, ClientTypes DEF Forced
  <2>. QED BY <2>1, FilledShows, NobodyNew
<1>9. ASSUME NEW m \in Models, NEW n \in Nicks, NEW c \in Channels, Registers(m, n, c)
      PROVE  Admitted
  <2>1. Shows(i, d)
    BY <1>9, FilledShows DEF Registers
  <2>. QED BY <2>1, NobodyNew
<1>10. ASSUME NEW m \in Models, Attach(m)
       PROVE  Admitted
  <2>1. live' = live
    BY <1>10 DEF Attach
  <2>. QED BY <2>1
<1>11. ASSUME NEW m \in Models, Discard(m)
       PROVE  Admitted
  <2>1. live' = live
    BY <1>11 DEF Discard
  <2>. QED BY <2>1
<1>12. ASSUME NEW m \in Models, DiscardOnLoop(m)
       PROVE  Admitted
  <2>1. Shows(i, d)
    BY <1>12, FilledShows, ClientTypes DEF DiscardOnLoop, durable
  <2>. QED BY <2>1, NobodyNew
<1>13. ASSUME MarkPending
       PROVE  Admitted
  <2>1. live' = live
    BY <1>13 DEF MarkPending, memory
  <2>. QED BY <2>1
<1>14. ASSUME NEW c \in Channels, Leave(c)
       PROVE  Admitted
  <2>1. CASE i # job.who
    BY <1>14, <2>1, LeaveShows, NobodyNew
  <2>2. CASE i = job.who
    <3>1. i \notin Members(live'[c]) /\ (\A e \in Channels \ {c} : live'[e] = live[e])
      BY <1>14, <2>2, LeaveTakes
    <3>. QED BY <3>1
  <2>. QED BY <2>1, <2>2
<1>15. ASSUME NEW c \in Channels, CleanupStops(c)
       PROVE  Admitted
  <2>1. live' = live
    BY <1>15 DEF CleanupStops
  <2>. QED BY <2>1
<1>16. ASSUME FinishDeparture
       PROVE  Admitted
  <2>1. live' = live
    BY <1>16 DEF FinishDeparture
  <2>. QED BY <2>1
<1>17. ASSUME AttachUser
       PROVE  Admitted
  <2>1. live' = live
    BY <1>17 DEF AttachUser
  <2>. QED BY <2>1
<1>18. ASSUME NEW m \in Models, PurgePending(m)
       PROVE  Admitted
  <2>1. live' = live
    BY <1>18 DEF PurgePending
  <2>. QED BY <2>1
<1>19. ASSUME StartModels
       PROVE  Admitted
  <2>1. live' = live
    BY <1>19 DEF StartModels
  <2>. QED BY <2>1
<1>20. ASSUME Cleanup
       PROVE  Admitted
  <2>1. Shows(i, d)
    BY <1>20, FilledShows DEF Cleanup, StaleMemberships, durable
  <2>. QED BY <2>1, NobodyNew
<1>21. ASSUME Reconciled
       PROVE  Admitted
  <2>1. live' = live
    BY <1>21 DEF Reconciled
  <2>. QED BY <2>1
<1>22. ASSUME Reactivate
       PROVE  Admitted
  <2>1. live' = live
    BY <1>22 DEF Reactivate
  <2>. QED BY <2>1
<1>23. ASSUME Activate
       PROVE  Admitted
  <2>1. live' = live
    BY <1>23 DEF Activate
  <2>. QED BY <2>1
<1>24. ASSUME Stop
       PROVE  Admitted
  <2>1. live'[d] = NoChannel
    BY <1>24 DEF Stop
  <2>. QED BY <2>1 DEF Members
<1>. QED BY <1>1, <1>2, <1>3, <1>4, <1>5, <1>6, <1>7, <1>8, <1>9, <1>10, <1>11, <1>12, <1>13, <1>14, <1>15, <1>16, <1>17, <1>18, <1>19, <1>20, <1>21, <1>22, <1>23, <1>24 DEF Moves, Boot

LEMMA FirstMarkerCorrect == Spec => []FirstMarker
<1>1. Init => FirstMarker
  BY DEF Init, FirstMarker
<1>2. Base /\ FirstMarker /\ [Next]_vars => FirstMarker'
  <2>1. CASE Next
    BY <2>1, NextMoves, FirstMarkerStep
  <2>2. CASE UNCHANGED vars
    BY <2>2 DEF FirstMarker, vars, durable, budget
  <2>. QED BY <2>1, <2>2
<1>. QED BY <1>1, <1>2, BaseCorrect, PTL DEF Spec

\* In a run of the process in which no read of the store fails, nobody appears on
\* the list of a live channel but by a JOIN that its gates let through and that
\* uses the invitation up; a QUIT that reads the channel back brings nobody back.
THEOREM EntryGated == Spec /\ []Unfailed => GatedEntry
<1>1. Base /\ AgreeInv /\ FirstMarker /\ Unfailed' /\ [Next]_vars => [Gated]_vars
  <2>1. CASE Next
    BY <2>1, NextMoves, GatedStep
  <2>. QED BY <2>1
<1>. QED BY <1>1, BaseCorrect, AgreeCorrect, FirstMarkerCorrect, PTL DEF Spec, GatedEntry, Gated

---------------------------------------------------------------------------
(* The end of a channel                                                    *)

\* A record is of the channel that has not ended yet; so is the row, unless the
\* channel is gone from memory and its row was left behind.
Born(c) ==
  /\ live[c] # NoChannel => live[c].born = ended[c]
  /\ (live[c] # NoChannel \/ gen[c] = 0) /\ rows[c] # NoChannel => rows[c].born = ended[c]

BornInv == \A c \in Channels : Born(c)

LEMMA LoadedBorn ==
  ASSUME Base, NEW c \in Channels, Born(c), Loaded(c) # NoChannel
  PROVE  /\ Loaded(c).born = ended[c]
         /\ live[c] # NoChannel \/ gen[c] = 0
         /\ rows[c] # NoChannel => rows[c].born = ended[c]
<1>1. CASE live[c] # NoChannel
  BY <1>1 DEF Loaded, Born
<1>2. CASE live[c] = NoChannel
  <2>1. gen[c] = 0 /\ Loaded(c) = FromStore(rows[c])
    BY <1>2 DEF Loaded, Base, TypeOK
  <2>2. rows[c] \in Window
    BY <2>1, RecordTypes DEF FromStore, Base
  <2>3. rows[c] # NoChannel
    BY <2>2, WindowFields
  <2>. QED BY <2>1, <2>2, <2>3, FromStoreWindow DEF Born
<1>. QED BY <1>1, <1>2

LEMMA RowsWithoutBorn ==
  ASSUME Base, NEW i \in Actors, NEW c \in Channels
  PROVE  RowsWithout(i)[c] = NoChannel \/ (rows[c] # NoChannel /\ RowsWithout(i)[c].born = rows[c].born)
<1>1. CASE rows[c] = NoChannel
  BY <1>1 DEF RowsWithout, Members
<1>2. CASE rows[c] # NoChannel
  <2>1. rows[c] \in Window
    BY <1>2, RecordTypes DEF Base
  <2>. QED BY <1>2, <2>1, WithoutWindow DEF RowsWithout
<1>. QED BY <1>1, <1>2

\* The three ways a step leaves the records of c.
LEMMA BornKept ==
  ASSUME Base, NEW c \in Channels, Born(c), ended'[c] = ended[c], gen'[c] = gen[c],
         live'[c] \in {live[c], Loaded(c)},
         rows'[c] = NoChannel \/ (rows[c] # NoChannel /\ rows'[c].born = rows[c].born)
  PROVE  Born(c)'
<1>1. CASE live'[c] = live[c]
  BY <1>1 DEF Born
<1>2. CASE live'[c] = Loaded(c)
  BY <1>2, LoadedBorn DEF Born
<1>. QED BY <1>1, <1>2

LEMMA BornSaved ==
  ASSUME NEW c \in Channels, live'[c] # NoChannel, live'[c].born = ended'[c],
         rows'[c] = NoChannel \/ rows'[c].born = ended'[c]
  PROVE  Born(c)'
BY DEF Born

LEMMA BornGone ==
  ASSUME NEW c \in Channels, live'[c] = NoChannel, rows'[c] = NoChannel \/ gen'[c] # 0
  PROVE  Born(c)'
BY DEF Born

\* Only a reload that trusts the row of a channel that has ended could bring its
\* record back: a tracked client is on no such channel.
LEMMA BornStep ==
  ASSUME Base, BornInv, Moves, \A i \in Actors : Right(i), unmarked = {},
         readFails' = readFails
  PROVE  BornInv'
<1>. User \in Actors /\ Models \subseteq Actors /\ job.who \in Actors
  BY ChannelsAssumption DEF Actors, Base, TypeOK
<1>1. ASSUME NEW i \in Actors, NEW c \in Channels, NEW w \in Window, Enters(i, c, w)
      PROVE  BornInv'
  <2>1. /\ live'[c] = w /\ rows'[c] = w /\ w.born = ended[c] /\ w # NoChannel
        /\ UNCHANGED <<gen, ended>>
        /\ \A d \in Channels \ {c} : live'[d] = live[d] /\ rows'[d] = rows[d]
    <3>1. w.born = ended[c]
      BY <1>1, LoadedBorn DEF Enters, BornInv
    <3>. QED BY <1>1, <3>1, WindowFields DEF Enters, Saves, Base, TypeOK
  <2>2. Born(c)'
    BY <2>1, BornSaved
  <2>3. ASSUME NEW d \in Channels \ {c} PROVE Born(d)'
    BY <2>1, <2>3 DEF BornInv, Born
  <2>. QED BY <2>2, <2>3 DEF BornInv
<1>2. ASSUME NEW cs \in SUBSET Channels, Fills(cs)
      PROVE  BornInv'
  <2>1. \A d \in Channels : /\ live'[d] \in {live[d], Loaded(d)} /\ rows'[d] = rows[d]
                            /\ gen'[d] = gen[d] /\ ended'[d] = ended[d]
    BY <1>2 DEF Fills, Filled
  <2>2. ASSUME NEW d \in Channels PROVE Born(d)'
    BY <2>1, BornKept DEF BornInv
  <2>. QED BY <2>2 DEF BornInv
<1>3. ASSUME NEW i \in Actors, NEW c \in Channels, Departs(i, c)
      PROVE  BornInv'
  <2>. DEFINE w == Without(Loaded(c), i)
  <2>1. Loaded(c) \in Window /\ w \in Window /\ w.born = Loaded(c).born
    BY <1>3, LoadedMembers, WithoutWindow DEF Departs, On
  <2>2. Loaded(c) # NoChannel /\ w # NoChannel /\ w.born = ended[c]
    BY <2>1, WindowFields, LoadedBorn DEF BornInv
  <2>. HIDE DEF w
  <2>3. /\ live'[c] = (IF Members(w) = {} THEN NoChannel ELSE w) /\ rows'[c] = live'[c]
        /\ Members(w) # {} => ended'[c] = ended[c]
        /\ \A d \in Channels \ {c} : /\ live'[d] = live[d] /\ rows'[d] = rows[d]
                                     /\ gen'[d] = gen[d] /\ ended'[d] = ended[d]
    BY <1>3 DEF Departs, Saves, w, Base, TypeOK
  <2>4. Born(c)'
    BY <2>2, <2>3, BornSaved, BornGone
  <2>5. ASSUME NEW d \in Channels \ {c} PROVE Born(d)'
    BY <2>3, <2>5 DEF BornInv, Born
  <2>. QED BY <2>4, <2>5 DEF BornInv
<1>4. ASSUME NEW c \in Channels, NEW w \in Window, Updates(c, w)
      PROVE  BornInv'
  <2>1. /\ live'[c] = w /\ rows'[c] = w /\ w.born = ended[c] /\ w # NoChannel
        /\ UNCHANGED <<gen, ended>>
        /\ \A d \in Channels \ {c} : live'[d] = live[d] /\ rows'[d] = rows[d]
    <3>1. w.born = ended[c]
      BY <1>4, LoadedBorn DEF Updates, BornInv
    <3>. QED BY <1>4, <3>1, WindowFields DEF Updates, Saves, Base, TypeOK
  <2>2. Born(c)'
    BY <2>1, BornSaved
  <2>3. ASSUME NEW d \in Channels \ {c} PROVE Born(d)'
    BY <2>1, <2>3 DEF BornInv, Born
  <2>. QED BY <2>2, <2>3 DEF BornInv
<1>5. ASSUME NEW i \in Actors, NEW n \in Nicks, Renames(i, n)
      PROVE  BornInv'
  <2>1. UNCHANGED <<gen, ended>>
    BY <1>5 DEF Renames
  <2>2. ASSUME NEW d \in Channels, d \notin handle[i].chans PROVE Born(d)'
    <3>1. live'[d] = live[d] /\ rows'[d] = rows[d]
      BY <1>5, <2>2 DEF Renames
    <3>. QED BY <2>1, <3>1 DEF BornInv, Born
  <2>3. ASSUME NEW d \in Channels, d \in handle[i].chans PROVE Born(d)'
    <3>1. /\ live'[d] = Renamed(Loaded(d), i, n) /\ rows'[d] = live'[d]
          /\ Loaded(d) # NoChannel
      BY <1>5, <2>3 DEF Renames
    <3>2. Loaded(d) \in Window
      BY <3>1, RecordTypes DEF Base
    <3>3. live'[d] \in Window /\ live'[d].born = Loaded(d).born
      BY <3>1, <3>2, RenamedWindow
    <3>4. live'[d] # NoChannel /\ live'[d].born = ended[d]
      BY <3>1, <3>3, WindowFields, LoadedBorn DEF BornInv
    <3>. QED BY <2>1, <3>1, <3>4, BornSaved
  <2>. QED BY <2>2, <2>3 DEF BornInv
<1>6. ASSUME NEW n \in Nicks, SaveNick(n)
      PROVE  BornInv'
  <2>1. \A d \in Channels : /\ live'[d] \in {live[d], Loaded(d)} /\ rows'[d] = rows[d]
                            /\ gen'[d] = gen[d] /\ ended'[d] = ended[d]
    BY <1>6 DEF SaveNick, memory, budget
  <2>2. ASSUME NEW d \in Channels PROVE Born(d)'
    BY <2>1, BornKept DEF BornInv
  <2>. QED BY <2>2 DEF BornInv
<1>7. ASSUME NEW i \in Actors, Deletes(i)
      PROVE  BornInv'
  <2>1. Up /\ Right(i) /\ Tracked(i) /\ conn[i] = "active"
    BY <1>7 DEF Deletes, Running, Active, Tracked
  <2>2. ASSUME NEW d \in Channels, d \notin handle[i].chans PROVE Born(d)'
    <3>1. live'[d] = live[d] /\ gen'[d] = gen[d] /\ rows'[d] = RowsWithout(i)[d]
      BY <1>7, <2>2, DeleteShows
    <3>2. ended'[d] = ended[d]
      BY <1>7, <2>2 DEF Deletes, InstanceDeleted
    <3>. QED BY <3>1, <3>2, BornKept, RowsWithoutBorn DEF BornInv
  <2>3. ASSUME NEW d \in Channels, d \in handle[i].chans PROVE Born(d)'
    <3>1. rows'[d] = RowsWithout(i)[d] /\ live'[d] = FromStore(rows'[d])
      BY <1>7, <2>3, DeleteShows
    <3>2. CASE rows'[d] = NoChannel
      BY <3>1, <3>2, BornGone DEF FromStore
    <3>3. CASE rows'[d] # NoChannel
      <4>1. rows'[d] \in Window
        BY <3>1, <3>3, RecordTypes DEF Base
      <4>2. live'[d] \in Window /\ live'[d].born = rows'[d].born
        BY <3>1, <4>1, FromStoreWindow
      <4>3. rows[d] # NoChannel /\ rows'[d].born = rows[d].born
        BY <3>1, <3>3, RowsWithoutBorn
      <4>4. live[d] # NoChannel \/ gen[d] = 0
        BY <2>1, <2>3 DEF Right, Reached
      <4>5. ~Ends(i, d)
        <5>. SUFFICES ASSUME Members(rows[d]) = {i} PROVE FALSE
          BY DEF Ends
        <5>1. rows'[d] = NoChannel
          BY <3>1 DEF RowsWithout
        <5>. QED BY <3>3, <5>1
      <4>6. ended'[d] = ended[d]
        BY <1>7, <4>5 DEF Deletes, InstanceDeleted
      <4>7. rows[d].born = ended[d]
        BY <4>3, <4>4 DEF BornInv, Born
      <4>8. live'[d] # NoChannel
        BY <4>2, WindowFields
      <4>. QED BY <4>2, <4>3, <4>6, <4>7, <4>8, BornSaved
    <3>. QED BY <3>2, <3>3
  <2>. QED BY <2>2, <2>3 DEF BornInv
<1>8. ASSUME NEW i \in Actors, Forced(i)
      PROVE  BornInv'
  <2>1. \A d \in Channels : /\ live'[d] \in {live[d], Loaded(d)} /\ rows'[d] = rows[d]
                            /\ gen'[d] = gen[d] /\ ended'[d] = ended[d]
    BY <1>8 DEF Forced, Filled
  <2>2. ASSUME NEW d \in Channels PROVE Born(d)'
    BY <2>1, BornKept DEF BornInv
  <2>. QED BY <2>2 DEF BornInv
<1>9. ASSUME NEW m \in Models, NEW n \in Nicks, NEW c \in Channels, Registers(m, n, c)
      PROVE  BornInv'
  <2>1. \A d \in Channels : /\ live'[d] \in {live[d], Loaded(d)} /\ rows'[d] = rows[d]
                            /\ gen'[d] = gen[d] /\ ended'[d] = ended[d]
    BY <1>9 DEF Registers, Filled
  <2>2. ASSUME NEW d \in Channels PROVE Born(d)'
    BY <2>1, BornKept DEF BornInv
  <2>. QED BY <2>2 DEF BornInv
<1>10. ASSUME NEW m \in Models, Attach(m)
       PROVE  BornInv'
  <2>1. \A d \in Channels : /\ live'[d] \in {live[d], Loaded(d)} /\ rows'[d] = rows[d]
                            /\ gen'[d] = gen[d] /\ ended'[d] = ended[d]
    BY <1>10 DEF Attach, durable
  <2>2. ASSUME NEW d \in Channels PROVE Born(d)'
    BY <2>1, BornKept DEF BornInv
  <2>. QED BY <2>2 DEF BornInv
<1>11. ASSUME NEW m \in Models, Discard(m)
       PROVE  BornInv'
  <2>1. \A d \in Channels : /\ live'[d] \in {live[d], Loaded(d)} /\ rows'[d] = rows[d]
                            /\ gen'[d] = gen[d] /\ ended'[d] = ended[d]
    BY <1>11 DEF Discard
  <2>2. ASSUME NEW d \in Channels PROVE Born(d)'
    BY <2>1, BornKept DEF BornInv
  <2>. QED BY <2>2 DEF BornInv
<1>12. ASSUME NEW m \in Models, DiscardOnLoop(m)
       PROVE  BornInv'
  <2>1. \A d \in Channels : /\ live'[d] \in {live[d], Loaded(d)} /\ rows'[d] = rows[d]
                            /\ gen'[d] = gen[d] /\ ended'[d] = ended[d]
    BY <1>12 DEF DiscardOnLoop, durable, Filled
  <2>2. ASSUME NEW d \in Channels PROVE Born(d)'
    BY <2>1, BornKept DEF BornInv
  <2>. QED BY <2>2 DEF BornInv
<1>13. ASSUME MarkPending
       PROVE  BornInv'
  <2>1. \A d \in Channels : /\ live'[d] \in {live[d], Loaded(d)} /\ rows'[d] = rows[d]
                            /\ gen'[d] = gen[d] /\ ended'[d] = ended[d]
    BY <1>13 DEF MarkPending, memory
  <2>2. ASSUME NEW d \in Channels PROVE Born(d)'
    BY <2>1, BornKept DEF BornInv
  <2>. QED BY <2>2 DEF BornInv
<1>14. ASSUME NEW c \in Channels, Leave(c)
       PROVE  BornInv'
  <2>. DEFINE w == Without(Loaded(c), job.who)
  <2>1. Loaded(c) \in Window /\ Loaded(c) # NoChannel
    BY <1>14, RecordTypes DEF Leave, Base
  <2>2. w \in Window /\ w.born = Loaded(c).born
    BY <2>1, WithoutWindow
  <2>3. w # NoChannel /\ w.born = ended[c] /\ (rows[c] # NoChannel => rows[c].born = ended[c])
    BY <2>1, <2>2, WindowFields, LoadedBorn DEF BornInv
  <2>. HIDE DEF w
  <2>4. /\ live'[c] = (IF Members(w) = {} THEN NoChannel ELSE w)
        /\ rows'[c] = rows[c] \/ rows'[c] = live'[c]
        /\ gen'[c] = gen[c] + (IF Members(w) = {} THEN 1 ELSE 0)
        /\ Members(w) # {} => ended'[c] = ended[c]
        /\ \A d \in Channels \ {c} : /\ live'[d] = live[d] /\ rows'[d] = rows[d]
                                     /\ gen'[d] = gen[d] /\ ended'[d] = ended[d]
    BY <1>14 DEF Leave, Emptied, w, Base, TypeOK
  <2>5. CASE Members(w) = {}
    <3>1. live'[c] = NoChannel /\ gen'[c] # 0
      BY <2>4, <2>5 DEF Base, TypeOK
    <3>. QED BY <2>4, <3>1, BornGone DEF BornInv, Born
  <2>6. CASE Members(w) # {}
    <3>1. Born(c)'
      BY <2>3, <2>4, <2>6, BornSaved
    <3>. QED BY <2>4, <3>1 DEF BornInv, Born
  <2>. QED BY <2>5, <2>6
<1>15. ASSUME NEW c \in Channels, CleanupStops(c)
       PROVE  BornInv'
  <2>1. \A d \in Channels : /\ live'[d] \in {live[d], Loaded(d)} /\ rows'[d] = rows[d]
                            /\ gen'[d] = gen[d] /\ ended'[d] = ended[d]
    BY <1>15 DEF CleanupStops, durable, budget
  <2>2. ASSUME NEW d \in Channels PROVE Born(d)'
    BY <2>1, BornKept DEF BornInv
  <2>. QED BY <2>2 DEF BornInv
<1>16. ASSUME FinishDeparture
       PROVE  BornInv'
  <2>1. /\ live' = live /\ UNCHANGED <<gen, ended>>
        /\ rows' = rows \/ rows' = RowsWithout(job.who)
    BY <1>16 DEF FinishDeparture
  <2>2. ASSUME NEW d \in Channels PROVE Born(d)'
    BY <2>1, BornKept, RowsWithoutBorn DEF BornInv
  <2>. QED BY <2>2 DEF BornInv
<1>17. ASSUME AttachUser
       PROVE  BornInv'
  <2>1. \A d \in Channels : /\ live'[d] \in {live[d], Loaded(d)} /\ rows'[d] = rows[d]
                            /\ gen'[d] = gen[d] /\ ended'[d] = ended[d]
    BY <1>17 DEF AttachUser, budget
  <2>2. ASSUME NEW d \in Channels PROVE Born(d)'
    BY <2>1, BornKept DEF BornInv
  <2>. QED BY <2>2 DEF BornInv
<1>18. ASSUME NEW m \in Models, PurgePending(m)
       PROVE  BornInv'
  <2>1. live' = live /\ UNCHANGED <<gen, ended>> /\ rows' = RowsWithout(m)
    BY <1>18 DEF PurgePending, budget
  <2>2. ASSUME NEW d \in Channels PROVE Born(d)'
    BY <2>1, BornKept, RowsWithoutBorn DEF BornInv
  <2>. QED BY <2>2 DEF BornInv
<1>19. ASSUME StartModels
       PROVE  BornInv'
  <2>1. \A d \in Channels : /\ live'[d] \in {live[d], Loaded(d)} /\ rows'[d] = rows[d]
                            /\ gen'[d] = gen[d] /\ ended'[d] = ended[d]
    BY <1>19 DEF StartModels, durable
  <2>2. ASSUME NEW d \in Channels PROVE Born(d)'
    BY <2>1, BornKept DEF BornInv
  <2>. QED BY <2>2 DEF BornInv
<1>20. ASSUME Cleanup
       PROVE  BornInv'
  <2>1. \A d \in Channels : /\ live'[d] \in {live[d], Loaded(d)} /\ rows'[d] = rows[d]
                            /\ gen'[d] = gen[d] /\ ended'[d] = ended[d]
    BY <1>20 DEF Cleanup, durable, budget, Filled
  <2>2. ASSUME NEW d \in Channels PROVE Born(d)'
    BY <2>1, BornKept DEF BornInv
  <2>. QED BY <2>2 DEF BornInv
<1>21. ASSUME Reconciled
       PROVE  BornInv'
  <2>1. \A d \in Channels : /\ live'[d] \in {live[d], Loaded(d)} /\ rows'[d] = rows[d]
                            /\ gen'[d] = gen[d] /\ ended'[d] = ended[d]
    BY <1>21 DEF Reconciled, durable, budget
  <2>2. ASSUME NEW d \in Channels PROVE Born(d)'
    BY <2>1, BornKept DEF BornInv
  <2>. QED BY <2>2 DEF BornInv
<1>22. ASSUME Reactivate
       PROVE  BornInv'
  <2>1. live' = live /\ UNCHANGED <<gen, ended>> /\ rows' = RowsWithout(User)
    BY <1>22 DEF Reactivate
  <2>2. ASSUME NEW d \in Channels PROVE Born(d)'
    BY <2>1, BornKept, RowsWithoutBorn DEF BornInv
  <2>. QED BY <2>2 DEF BornInv
<1>23. ASSUME Activate
       PROVE  BornInv'
  <2>1. \A d \in Channels : /\ live'[d] \in {live[d], Loaded(d)} /\ rows'[d] = rows[d]
                            /\ gen'[d] = gen[d] /\ ended'[d] = ended[d]
    BY <1>23 DEF Activate
  <2>2. ASSUME NEW d \in Channels PROVE Born(d)'
    BY <2>1, BornKept DEF BornInv
  <2>. QED BY <2>2 DEF BornInv
<1>24. ASSUME Stop
       PROVE  BornInv'
  <2>1. \A d \in Channels : /\ live'[d] = NoChannel /\ rows'[d] = rows[d]
                            /\ rows[d] # NoChannel => ended'[d] = rows[d].born
    BY <1>24 DEF Stop, durable
  <2>. QED BY <2>1 DEF BornInv, Born
<1>. QED BY <1>1, <1>2, <1>3, <1>4, <1>5, <1>6, <1>7, <1>8, <1>9, <1>10, <1>11, <1>12, <1>13, <1>14, <1>15, <1>16, <1>17, <1>18, <1>19, <1>20, <1>21, <1>22, <1>23, <1>24 DEF Moves, Boot

\* As long as the store answers every read and every departure it refuses is at
\* least marked, the live record of a name is of the channel that has not ended
\* yet, and the clients have left a channel that has.
THEOREM ChannelsEnd == Spec /\ [](Unfailed /\ unmarked = {}) => []ChannelEnds
<1>1. Init => BornInv
  BY DEF Init, BornInv, Born
<1>2. Base /\ AgreeInv /\ BornInv /\ Unfailed /\ unmarked = {} /\ Unfailed' /\ [Next]_vars => BornInv'
  <2>1. CASE Next
    BY <2>1, NextMoves, BornStep DEF AgreeInv, Unfailed
  <2>2. CASE UNCHANGED vars
    BY <2>2 DEF BornInv, Born, vars, memory, durable
  <2>. QED BY <2>1, <2>2
<1>3. Base /\ AgreeInv /\ BornInv /\ Unfailed => ChannelEnds
  <2>. SUFFICES ASSUME Base, AgreeInv, BornInv, Unfailed, NEW c \in Channels
                PROVE  /\ live[c] # NoChannel => live[c].born = ended[c]
                       /\ Settled /\ gen[c] > 0 /\ live[c] = NoChannel =>
                            \A i \in Actors \ unmarked : Active(i) => c \notin handle[i].chans
    BY DEF ChannelEnds
  <2>1. \A i \in Actors \ unmarked : Active(i) => Reached(i, c)
    BY DEF AgreeInv, Right, Tracked, Active
  <2>. QED BY <2>1 DEF BornInv, Born, Reached, Active
<1>. QED BY <1>1, <1>2, <1>3, BaseCorrect, AgreeCorrect, PTL DEF Spec

---------------------------------------------------------------------------
(* What the store holds of a live channel                                  *)

\* The row says what the record says, of every member that is on the record;
\* the others on the row do not resolve.
Copied(c) ==
  live[c] # NoChannel /\ c \notin reported =>
    /\ rows[c] # NoChannel
    /\ live[c].invites = rows[c].invites /\ live[c].closed = rows[c].closed
    /\ live[c].born = rows[c].born
    /\ Members(live[c]) \subseteq Members(rows[c])
    /\ \A j \in Members(live[c]) : live[c].nick[j] = rows[c].nick[j]
    /\ live[c].ops = rows[c].ops \cap Members(live[c])
    /\ \A j \in Members(rows[c]) \ Members(live[c]) : ~Resolves(j)

\* A row that outlived its channel has a failure on record.
LeftBehind(c) ==
  live[c] = NoChannel /\ gen[c] # 0 /\ rows[c] # NoChannel => c \in reported

\* A row that still names a client that left is of a channel whose turn is still
\* to come, or has a failure on record.
ToLeave(i) ==
  conn[i] \in {"gone", "discarded"} =>
    \A c \in Channels : i \in Members(rows[c]) /\ c \notin reported =>
      c \in handle[i].chans /\ (Leaving(i) => c \in job.todo)

Rowless == \A i \in Actors : insts[i] = NoRow => Away(i)

Joiners ==
  \A m \in Models :
    joining[m] # NoChannel => conn[m] \in {"registered", "active", "discarded", "gone"}

CopyInv ==
  /\ \A c \in Channels : Copied(c) /\ LeftBehind(c)
  /\ \A m \in Models : ToLeave(m)
  /\ Rowless /\ Joiners

\* What a step leaves of the records of c.
Traced(c) ==
  /\ \/ live'[c] = rows'[c] \/ live'[c] = FromStore(rows'[c])
     \/ live'[c] = NoChannel \/ c \in reported'
     \/ /\ live'[c] \in {live[c], Loaded(c)} /\ rows'[c] = rows[c]
        /\ c \in reported => c \in reported'
  /\ live'[c] = NoChannel =>
       \/ rows'[c] = NoChannel \/ gen'[c] = 0 \/ c \in reported'
       \/ /\ live[c] = NoChannel /\ gen'[c] = gen[c] /\ rows[c] # NoChannel
          /\ c \in reported => c \in reported'

\* A client gains a row that resolves only while no record names it, or none is
\* in memory.
LEMMA Backers ==
  ASSUME Base, Fresh, UserInv, User \notin unmarked, Moves
  PROVE  \A j \in Actors :
           Resolves(j)' => Resolves(j) \/ Away(j) \/ \A c \in Channels : live'[c] = NoChannel
<1>. DEFINE Gains == \A j \in Actors :
           Resolves(j)' => Resolves(j) \/ Away(j) \/ \A c \in Channels : live'[c] = NoChannel
<1>. User \in Actors /\ Models \subseteq Actors /\ job.who \in Actors
  BY ChannelsAssumption DEF Actors, Base, TypeOK
<1>. BootInv /\ RowInv /\ insts \in [Actors -> InstanceRow \cup {NoRow}]
  BY DEF Base, TypeOK
<1>1. ASSUME NEW i \in Actors, NEW c \in Channels, NEW w \in Window, Enters(i, c, w)
      PROVE  Gains
  <2>1. \A j \in Actors \ {i} : insts'[j] = insts[j]
    BY <1>1 DEF Enters, Stores
  <2>2. Resolves(i)
    BY <1>1 DEF Enters, Active, Connected, RowInv
  <2>. QED BY <2>1, <2>2 DEF Resolves
<1>2. ASSUME NEW cs \in SUBSET Channels, Fills(cs)
      PROVE  Gains
  <2>1. insts' = insts
    BY <1>2 DEF Fills
  <2>. QED BY <2>1 DEF Resolves
<1>3. ASSUME NEW i \in Actors, NEW c \in Channels, Departs(i, c)
      PROVE  Gains
  <2>1. \A j \in Actors \ {i} : insts'[j] = insts[j]
    BY <1>3 DEF Departs, Stores
  <2>2. Resolves(i)
    BY <1>3 DEF Departs, Active, Connected, RowInv
  <2>. QED BY <2>1, <2>2 DEF Resolves
<1>4. ASSUME NEW c \in Channels, NEW w \in Window, Updates(c, w)
      PROVE  Gains
  <2>1. insts' = insts
    BY <1>4 DEF Updates
  <2>. QED BY <2>1 DEF Resolves
<1>5. ASSUME NEW i \in Actors, NEW n \in Nicks, Renames(i, n)
      PROVE  Gains
  <2>1. \A j \in Actors \ {i} : insts'[j] = insts[j]
    BY <1>5 DEF Renames, Stores
  <2>2. Resolves(i)
    BY <1>5 DEF Renames, Active, Connected, RowInv
  <2>. QED BY <2>1, <2>2 DEF Resolves
<1>6. ASSUME NEW n \in Nicks, SaveNick(n)
      PROVE  Gains
  <2>1. insts' = insts
    BY <1>6 DEF SaveNick
  <2>. QED BY <2>1 DEF Resolves
<1>7. ASSUME NEW i \in Actors, Deletes(i)
      PROVE  Gains
  <2>1. \A j \in Actors : insts'[j] = insts[j] \/ insts'[j] = NoRow
    BY <1>7 DEF Deletes, InstanceDeleted
  <2>. QED BY <2>1 DEF Resolves
<1>8. ASSUME NEW i \in Actors, Forced(i)
      PROVE  Gains
  <2>1. insts' = insts
    BY <1>8 DEF Forced
  <2>. QED BY <2>1 DEF Resolves
<1>9. ASSUME NEW m \in Models, NEW n \in Nicks, NEW c \in Channels, Registers(m, n, c)
      PROVE  Gains
  <2>1. Away(m) /\ (\A j \in Actors \ {m} : insts'[j] = insts[j])
    BY <1>9 DEF Registers, Fresh
  <2>. QED BY <2>1 DEF Resolves
<1>10. ASSUME NEW m \in Models, Attach(m)
       PROVE  Gains
  <2>1. insts' = insts
    BY <1>10 DEF Attach, durable
  <2>. QED BY <2>1 DEF Resolves
<1>11. ASSUME NEW m \in Models, Discard(m)
       PROVE  Gains
  <2>1. \E ok \in BOOLEAN : Mark(m, ok)
    BY <1>11 DEF Discard, MarkOrRemember
  <2>. QED BY <2>1, MarkedRows DEF Base
<1>12. ASSUME NEW m \in Models, DiscardOnLoop(m)
       PROVE  Gains
  <2>1. insts' = insts
    BY <1>12 DEF DiscardOnLoop, durable
  <2>. QED BY <2>1 DEF Resolves
<1>13. ASSUME MarkPending
       PROVE  Gains
  <2>1. \E ok \in BOOLEAN : Mark(job.who, ok)
    BY <1>13 DEF MarkPending, MarkOrRemember
  <2>. QED BY <2>1, MarkedRows DEF Base
<1>14. ASSUME NEW c \in Channels, Leave(c)
       PROVE  Gains
  <2>1. insts' = insts
    BY <1>14 DEF Leave
  <2>. QED BY <2>1 DEF Resolves
<1>15. ASSUME NEW c \in Channels, CleanupStops(c)
       PROVE  Gains
  <2>1. insts' = insts
    BY <1>15 DEF CleanupStops, durable
  <2>. QED BY <2>1 DEF Resolves
<1>16. ASSUME FinishDeparture
       PROVE  Gains
  <2>1. CASE \E ok \in BOOLEAN : Mark(job.who, ok)
    BY <2>1, MarkedRows DEF Base
  <2>2. CASE \A j \in Actors : insts'[j] = insts[j] \/ insts'[j] = NoRow
    BY <2>2 DEF Resolves
  <2>. QED BY <1>16, <2>1, <2>2 DEF FinishDeparture
<1>17. ASSUME AttachUser
       PROVE  Gains
  <2>1. \A c \in Channels : live'[c] = NoChannel
    BY <1>17 DEF AttachUser, BootInv
  <2>. QED BY <2>1
<1>18. ASSUME NEW m \in Models, PurgePending(m)
       PROVE  Gains
  <2>1. \A j \in Actors : insts'[j] = insts[j] \/ insts'[j] = NoRow
    BY <1>18 DEF PurgePending
  <2>. QED BY <2>1 DEF Resolves
<1>19. ASSUME StartModels
       PROVE  Gains
  <2>1. insts' = insts
    BY <1>19 DEF StartModels, durable
  <2>. QED BY <2>1 DEF Resolves
<1>20. ASSUME Cleanup
       PROVE  Gains
  <2>1. insts' = insts
    BY <1>20 DEF Cleanup, durable
  <2>. QED BY <2>1 DEF Resolves
<1>21. ASSUME Reconciled
       PROVE  Gains
  <2>1. insts' = insts
    BY <1>21 DEF Reconciled, durable
  <2>. QED BY <2>1 DEF Resolves
<1>22. ASSUME Reactivate
       PROVE  Gains
  <2>1. Away(User) /\ (\A j \in Actors \ {User} : insts'[j] = insts[j])
    BY <1>22 DEF Reactivate, UserInv
  <2>. QED BY <2>1 DEF Resolves
<1>23. ASSUME Activate
       PROVE  Gains
  <2>1. insts' = insts
    BY <1>23 DEF Activate
  <2>. QED BY <2>1 DEF Resolves
<1>24. ASSUME Stop
       PROVE  Gains
  <2>1. insts' = insts
    BY <1>24 DEF Stop, durable
  <2>. QED BY <2>1 DEF Resolves
<1>. QED BY <1>1, <1>2, <1>3, <1>4, <1>5, <1>6, <1>7, <1>8, <1>9, <1>10, <1>11, <1>12, <1>13, <1>14, <1>15, <1>16, <1>17, <1>18, <1>19, <1>20, <1>21, <1>22, <1>23, <1>24 DEF Moves, Boot

LEMMA CopiedStays ==
  ASSUME Base, Base', NEW c \in Channels, Copied(c), Traced(c),
         live'[c] # NoChannel => \A j \in Members(rows[c]) : Resolves(j)' => Resolves(j),
         live'[c] # NoChannel => \A j \in Members(rows'[c]) : Resolves(j)' => Resolves(j)
  PROVE  Copied(c)'
<1>. SUFFICES ASSUME live'[c] # NoChannel, c \notin reported' PROVE Copied(c)'
  BY DEF Copied
<1>. live'[c] \in Window /\ rows'[c] \in Window \cup {NoChannel}
  BY DEF Base, TypeOK
<1>. Members(NoChannel) = {}
  BY DEF Members
<1>1. CASE live'[c] = rows'[c]
  BY <1>1, WindowFields DEF Copied
<1>2. ASSUME NEW w \in Window, rows'[c] = w, live'[c] = FromStore(w)
      PROVE  Copied(c)'
  <2>1. /\ Members(FromStore(w)) = {j \in Members(w) : Resolves(j)}
        /\ \A j \in Members(FromStore(w)) : FromStore(w).nick[j] = w.nick[j]
        /\ FromStore(w).ops = {j \in w.ops : Resolves(j)}
        /\ FromStore(w).invites = w.invites /\ FromStore(w).closed = w.closed
        /\ FromStore(w).born = w.born
    BY FromStoreWindow
  <2>2. w.ops \subseteq Members(w) /\ w # NoChannel
    BY WindowFields
  <2>3. live'[c].ops = rows'[c].ops \cap Members(live'[c])
    BY <1>2, <2>1, <2>2
  <2>4. \A j \in Members(rows'[c]) \ Members(live'[c]) : ~Resolves(j)'
    BY <1>2, <2>1
  <2>. QED BY <1>2, <2>1, <2>2, <2>3, <2>4 DEF Copied
<1>3. CASE live'[c] = FromStore(rows'[c])
  BY <1>2, <1>3 DEF FromStore
<1>4. CASE live'[c] = live[c] /\ rows'[c] = rows[c] /\ (c \in reported => c \in reported')
  BY <1>4 DEF Copied
<1>5. CASE live'[c] = Loaded(c) /\ rows'[c] = rows[c] /\ (c \in reported => c \in reported')
  <2>1. CASE live[c] # NoChannel
    BY <1>4, <1>5, <2>1 DEF Loaded
  <2>2. CASE live[c] = NoChannel
    BY <1>3, <1>5, <2>2 DEF Loaded
  <2>. QED BY <2>1, <2>2
<1>. QED BY <1>1, <1>3, <1>4, <1>5 DEF Traced

LEMMA TracedStep ==
  ASSUME Base, CopyInv, UserInv, \A i \in Actors : Right(i), unmarked = {}, Moves,
         readFails' = readFails
  PROVE  \A d \in Channels : Traced(d)
<1>. User \in Actors /\ Models \subseteq Actors /\ job.who \in Actors
  BY ChannelsAssumption DEF Actors, Base, TypeOK
<1>1. ASSUME NEW i \in Actors, NEW c \in Channels, NEW w \in Window, Enters(i, c, w)
      PROVE  \A d \in Channels : Traced(d)
  <2>1. \A d \in Channels : \/ live'[d] = rows'[d]
                            \/ /\ live'[d] = live[d] /\ rows'[d] = rows[d] /\ gen'[d] = gen[d]
                               /\ reported' = reported
    BY <1>1 DEF Enters, Saves, Base, TypeOK
  <2>. QED BY <2>1 DEF Traced
<1>2. ASSUME NEW cs \in SUBSET Channels, Fills(cs)
      PROVE  \A d \in Channels : Traced(d)
  <2>1. \A d \in Channels : /\ live'[d] \in {live[d], Loaded(d)} /\ rows'[d] = rows[d]
                            /\ gen'[d] = gen[d] /\ (d \in reported => d \in reported')
    BY <1>2 DEF Fills, Filled
  <2>. QED BY <2>1 DEF Traced, Loaded
<1>3. ASSUME NEW i \in Actors, NEW c \in Channels, Departs(i, c)
      PROVE  \A d \in Channels : Traced(d)
  <2>1. \A d \in Channels : \/ live'[d] = rows'[d]
                            \/ /\ live'[d] = live[d] /\ rows'[d] = rows[d] /\ gen'[d] = gen[d]
                               /\ reported' = reported
    BY <1>3 DEF Departs, Saves, Base, TypeOK
  <2>. QED BY <2>1 DEF Traced
<1>4. ASSUME NEW c \in Channels, NEW w \in Window, Updates(c, w)
      PROVE  \A d \in Channels : Traced(d)
  <2>1. \A d \in Channels : \/ live'[d] = rows'[d]
                            \/ /\ live'[d] = live[d] /\ rows'[d] = rows[d] /\ gen'[d] = gen[d]
                               /\ reported' = reported
    BY <1>4 DEF Updates, Saves, Base, TypeOK
  <2>. QED BY <2>1 DEF Traced
<1>5. ASSUME NEW i \in Actors, NEW n \in Nicks, Renames(i, n)
      PROVE  \A d \in Channels : Traced(d)
  <2>1. \A d \in Channels : \/ live'[d] = rows'[d]
                            \/ /\ live'[d] = live[d] /\ rows'[d] = rows[d] /\ gen'[d] = gen[d]
                               /\ reported' = reported
    BY <1>5 DEF Renames, Base, TypeOK
  <2>. QED BY <2>1 DEF Traced
<1>6. ASSUME NEW n \in Nicks, SaveNick(n)
      PROVE  \A d \in Channels : Traced(d)
  <2>1. \A d \in Channels : /\ live'[d] \in {live[d], Loaded(d)} /\ rows'[d] = rows[d]
                            /\ gen'[d] = gen[d] /\ (d \in reported => d \in reported')
    BY <1>6 DEF SaveNick, memory
  <2>. QED BY <2>1 DEF Traced, Loaded
<1>7. ASSUME NEW i \in Actors, Deletes(i)
      PROVE  \A d \in Channels : Traced(d)
  <2>1. ASSUME NEW d \in Channels, d \notin handle[i].chans PROVE Traced(d)
    <3>1. Resolves(i) /\ ~Leaving(i) /\ Up /\ reported' = reported
      BY <1>7 DEF Deletes, Running, Active, Base, RowInv, Connected, Leaving, Idle
    <3>2. i \notin Members(rows[d])
      BY <1>7, <2>1, <3>1, Agreeing DEF Deletes, Active, Tracked
    <3>3. live'[d] = live[d] /\ gen'[d] = gen[d] /\ rows'[d] = RowsWithout(i)[d]
      BY <1>7, <2>1, DeleteShows
    <3>4. rows'[d] = rows[d]
      BY <3>2, <3>3 DEF RowsWithout
    <3>. QED BY <3>1, <3>3, <3>4 DEF Traced
  <2>2. ASSUME NEW d \in Channels, d \in handle[i].chans PROVE Traced(d)
    <3>1. live'[d] = FromStore(rows'[d]) /\ rows'[d] \in Window \cup {NoChannel}
      BY <1>7, <2>2, DeleteShows, RecordTypes DEF Base
    <3>2. rows'[d] \in Window => live'[d] # NoChannel
      BY <3>1, FromStoreWindow, WindowFields
    <3>. QED BY <3>1, <3>2 DEF Traced
  <2>. QED BY <2>1, <2>2
<1>8. ASSUME NEW i \in Actors, Forced(i)
      PROVE  \A d \in Channels : Traced(d)
  <2>1. \A d \in Channels : /\ live'[d] \in {live[d], Loaded(d)} /\ rows'[d] = rows[d]
                            /\ gen'[d] = gen[d] /\ (d \in reported => d \in reported')
    BY <1>8 DEF Forced, Filled
  <2>. QED BY <2>1 DEF Traced, Loaded
<1>9. ASSUME NEW m \in Models, NEW n \in Nicks, NEW c \in Channels, Registers(m, n, c)
      PROVE  \A d \in Channels : Traced(d)
  <2>1. \A d \in Channels : /\ live'[d] \in {live[d], Loaded(d)} /\ rows'[d] = rows[d]
                            /\ gen'[d] = gen[d] /\ (d \in reported => d \in reported')
    BY <1>9 DEF Registers, Filled
  <2>. QED BY <2>1 DEF Traced, Loaded
<1>10. ASSUME NEW m \in Models, Attach(m)
       PROVE  \A d \in Channels : Traced(d)
  <2>1. \A d \in Channels : /\ live'[d] \in {live[d], Loaded(d)} /\ rows'[d] = rows[d]
                            /\ gen'[d] = gen[d] /\ (d \in reported => d \in reported')
    BY <1>10 DEF Attach, durable
  <2>. QED BY <2>1 DEF Traced, Loaded
<1>11. ASSUME NEW m \in Models, Discard(m)
       PROVE  \A d \in Channels : Traced(d)
  <2>1. \A d \in Channels : /\ live'[d] \in {live[d], Loaded(d)} /\ rows'[d] = rows[d]
                            /\ gen'[d] = gen[d] /\ (d \in reported => d \in reported')
    BY <1>11 DEF Discard
  <2>. QED BY <2>1 DEF Traced, Loaded
<1>12. ASSUME NEW m \in Models, DiscardOnLoop(m)
       PROVE  \A d \in Channels : Traced(d)
  <2>1. \A d \in Channels : /\ live'[d] \in {live[d], Loaded(d)} /\ rows'[d] = rows[d]
                            /\ gen'[d] = gen[d] /\ (d \in reported => d \in reported')
    BY <1>12 DEF DiscardOnLoop, durable, Filled
  <2>. QED BY <2>1 DEF Traced, Loaded
<1>13. ASSUME MarkPending
       PROVE  \A d \in Channels : Traced(d)
  <2>1. \A d \in Channels : /\ live'[d] \in {live[d], Loaded(d)} /\ rows'[d] = rows[d]
                            /\ gen'[d] = gen[d] /\ (d \in reported => d \in reported')
    BY <1>13 DEF MarkPending, memory
  <2>. QED BY <2>1 DEF Traced, Loaded
<1>14. ASSUME NEW c \in Channels, Leave(c)
       PROVE  \A d \in Channels : Traced(d)
  <2>1. PICK ok \in BOOLEAN :
          /\ reported' = IF ok THEN reported ELSE reported \cup {c}
          /\ rows' = IF ok THEN [rows EXCEPT ![c] = live'[c]] ELSE rows
    BY <1>14 DEF Leave, Reported, Base, TypeOK
  <2>2. \A d \in Channels \ {c} : live'[d] = live[d] /\ rows'[d] = rows[d] /\ gen'[d] = gen[d]
    <3>1. \A d \in Channels \ {c} : gen'[d] = gen[d]
      BY <1>14 DEF Leave, Base, TypeOK
    <3>. QED BY <1>14, <3>1, LeaveTakes
  <2>3. rows'[c] = live'[c] \/ c \in reported'
    BY <2>1 DEF Base, TypeOK
  <2>. QED BY <2>1, <2>2, <2>3 DEF Traced
<1>15. ASSUME NEW c \in Channels, CleanupStops(c)
       PROVE  \A d \in Channels : Traced(d)
  <2>1. \A d \in Channels : /\ live'[d] \in {live[d], Loaded(d)} /\ rows'[d] = rows[d]
                            /\ gen'[d] = gen[d] /\ (d \in reported => d \in reported')
    BY <1>15 DEF CleanupStops, durable
  <2>. QED BY <2>1 DEF Traced, Loaded
<1>16. ASSUME FinishDeparture
       PROVE  \A d \in Channels : Traced(d)
  <2>1. /\ live' = live /\ UNCHANGED <<gen, reported>>
        /\ rows' = rows \/ rows' = RowsWithout(job.who)
        /\ job.kind \in {"quit", "discard"} /\ job.todo = {}
    BY <1>16 DEF FinishDeparture
  <2>2. job.who \in Models
    BY <2>1, ChannelsAssumption DEF Base, TypeOK, JobInv, Idle, Actors
  <2>3. Leaving(job.who) /\ conn[job.who] \in {"gone", "discarded"} /\ Right(job.who) /\ Tracked(job.who)
    BY <2>1, <2>2, ChannelsAssumption DEF Leaving, Base, JobInv, Idle, Retired, Tracked, Actors
  <2>4. ASSUME NEW d \in Channels PROVE Traced(d)
    <3>1. CASE job.who \in Members(rows[d])
      <4>1. d \in reported'
        BY <2>1, <2>2, <2>3, <3>1 DEF CopyInv, ToLeave
      <4>. QED BY <4>1 DEF Traced
    <3>2. CASE job.who \notin Members(rows[d])
      <4>1. rows'[d] = rows[d]
        BY <2>1, <3>2 DEF RowsWithout
      <4>. QED BY <2>1, <4>1 DEF Traced
    <3>. QED BY <3>1, <3>2
  <2>. QED BY <2>4
<1>17. ASSUME AttachUser
       PROVE  \A d \in Channels : Traced(d)
  <2>1. \A d \in Channels : /\ live'[d] \in {live[d], Loaded(d)} /\ rows'[d] = rows[d]
                            /\ gen'[d] = gen[d] /\ (d \in reported => d \in reported')
    BY <1>17 DEF AttachUser
  <2>. QED BY <2>1 DEF Traced, Loaded
<1>18. ASSUME NEW m \in Models, PurgePending(m)
       PROVE  \A d \in Channels : Traced(d)
  <2>1. \A d \in Channels : live'[d] = NoChannel /\ gen'[d] = 0
    BY <1>18 DEF PurgePending, Base, BootInv
  <2>. QED BY <2>1 DEF Traced
<1>19. ASSUME StartModels
       PROVE  \A d \in Channels : Traced(d)
  <2>1. \A d \in Channels : /\ live'[d] \in {live[d], Loaded(d)} /\ rows'[d] = rows[d]
                            /\ gen'[d] = gen[d] /\ (d \in reported => d \in reported')
    BY <1>19 DEF StartModels, durable
  <2>. QED BY <2>1 DEF Traced, Loaded
<1>20. ASSUME Cleanup
       PROVE  \A d \in Channels : Traced(d)
  <2>1. \A d \in Channels : /\ live'[d] \in {live[d], Loaded(d)} /\ rows'[d] = rows[d]
                            /\ gen'[d] = gen[d] /\ (d \in reported => d \in reported')
    BY <1>20 DEF Cleanup, durable, Filled
  <2>. QED BY <2>1 DEF Traced, Loaded
<1>21. ASSUME Reconciled
       PROVE  \A d \in Channels : Traced(d)
  <2>1. \A d \in Channels : /\ live'[d] \in {live[d], Loaded(d)} /\ rows'[d] = rows[d]
                            /\ gen'[d] = gen[d] /\ (d \in reported => d \in reported')
    BY <1>21 DEF Reconciled, durable
  <2>. QED BY <2>1 DEF Traced, Loaded
<1>22. ASSUME Reactivate
       PROVE  \A d \in Channels : Traced(d)
  <2>1. Away(User) /\ live' = live /\ UNCHANGED <<gen, reported>> /\ rows' = RowsWithout(User)
    BY <1>22 DEF Reactivate, UserInv
  <2>2. \A d \in Channels : rows'[d] = rows[d]
    BY <2>1 DEF RowsWithout, Away
  <2>. QED BY <2>1, <2>2 DEF Traced
<1>23. ASSUME Activate
       PROVE  \A d \in Channels : Traced(d)
  <2>1. \A d \in Channels : /\ live'[d] \in {live[d], Loaded(d)} /\ rows'[d] = rows[d]
                            /\ gen'[d] = gen[d] /\ (d \in reported => d \in reported')
    BY <1>23 DEF Activate
  <2>. QED BY <2>1 DEF Traced, Loaded
<1>24. ASSUME Stop
       PROVE  \A d \in Channels : Traced(d)
  <2>1. \A d \in Channels : live'[d] = NoChannel /\ gen'[d] = 0
    BY <1>24 DEF Stop
  <2>. QED BY <2>1 DEF Traced
<1>. QED BY <1>1, <1>2, <1>3, <1>4, <1>5, <1>6, <1>7, <1>8, <1>9, <1>10, <1>11, <1>12, <1>13, <1>14, <1>15, <1>16, <1>17, <1>18, <1>19, <1>20, <1>21, <1>22, <1>23, <1>24 DEF Moves, Boot

\* A row goes when the last record that names its client has gone.
LEMMA RowlessStep ==
  ASSUME Base, Base', CopyInv, UserInv, \A i \in Actors : Right(i), unmarked = {}, Moves,
         readFails' = readFails
  PROVE  Rowless'
<1>. DEFINE Erased == \A i \in Actors : insts'[i] = NoRow => insts[i] = NoRow \/ Away(i)'
<1>. User \in Actors /\ Models \subseteq Actors /\ job.who \in Actors
  BY ChannelsAssumption DEF Actors, Base, TypeOK
<1>1. ASSUME NEW i \in Actors, NEW c \in Channels, NEW w \in Window, Enters(i, c, w)
      PROVE  Erased
  <2>1. \A j \in Actors \ {i} : insts'[j] = insts[j]
    BY <1>1 DEF Enters, Stores
  <2>2. insts'[i] # NoRow
    <3>1. Connected(i)'
      BY <1>1 DEF Enters, Otherwise, Active, Connected
    <3>. QED BY <3>1 DEF Base, RowInv, Resolves
  <2>. QED BY <2>1, <2>2
<1>2. ASSUME NEW cs \in SUBSET Channels, Fills(cs)
      PROVE  Erased
  <2>1. insts' = insts
    BY <1>2 DEF Fills
  <2>. QED BY <2>1
<1>3. ASSUME NEW i \in Actors, NEW c \in Channels, Departs(i, c)
      PROVE  Erased
  <2>1. \A j \in Actors \ {i} : insts'[j] = insts[j]
    BY <1>3 DEF Departs, Stores
  <2>2. insts'[i] # NoRow
    <3>1. Connected(i)'
      BY <1>3 DEF Departs, Otherwise, Active, Connected
    <3>. QED BY <3>1 DEF Base, RowInv, Resolves
  <2>. QED BY <2>1, <2>2
<1>4. ASSUME NEW c \in Channels, NEW w \in Window, Updates(c, w)
      PROVE  Erased
  <2>1. insts' = insts
    BY <1>4 DEF Updates
  <2>. QED BY <2>1
<1>5. ASSUME NEW i \in Actors, NEW n \in Nicks, Renames(i, n)
      PROVE  Erased
  <2>1. \A j \in Actors \ {i} : insts'[j] = insts[j]
    BY <1>5 DEF Renames, Stores
  <2>2. insts'[i] # NoRow
    <3>1. Connected(i)'
      BY <1>5 DEF Renames, Otherwise, Active, Connected
    <3>. QED BY <3>1 DEF Base, RowInv, Resolves
  <2>. QED BY <2>1, <2>2
<1>6. ASSUME NEW n \in Nicks, SaveNick(n)
      PROVE  Erased
  <2>1. insts' = insts
    BY <1>6 DEF SaveNick
  <2>. QED BY <2>1
<1>7. ASSUME NEW i \in Actors, Deletes(i)
      PROVE  Erased
  <2>1. Right(i) /\ Tracked(i)
    BY <1>7 DEF Deletes, Tracked, Active
  <2>2. Away(i)'
    BY <1>7, <2>1, DeletedAway
  <2>3. \A j \in Actors \ {i} : insts'[j] = insts[j]
    BY <1>7 DEF Deletes, InstanceDeleted
  <2>. QED BY <2>2, <2>3
<1>8. ASSUME NEW i \in Actors, Forced(i)
      PROVE  Erased
  <2>1. insts' = insts
    BY <1>8 DEF Forced
  <2>. QED BY <2>1
<1>9. ASSUME NEW m \in Models, NEW n \in Nicks, NEW c \in Channels, Registers(m, n, c)
      PROVE  Erased
  <2>1. \A j \in Actors \ {m} : insts'[j] = insts[j]
    BY <1>9 DEF Registers
  <2>2. Connected(m)'
    BY <1>9 DEF Registers, Connected, Base, TypeOK
  <2>. QED BY <2>1, <2>2 DEF Base, RowInv, Resolves
<1>10. ASSUME NEW m \in Models, Attach(m)
       PROVE  Erased
  <2>1. insts' = insts
    BY <1>10 DEF Attach, durable
  <2>. QED BY <2>1
<1>11. ASSUME NEW m \in Models, Discard(m)
       PROVE  Erased
  <2>1. \E ok \in BOOLEAN : Mark(m, ok)
    BY <1>11 DEF Discard, MarkOrRemember
  <2>. QED BY <2>1, Marked DEF Base
<1>12. ASSUME NEW m \in Models, DiscardOnLoop(m)
       PROVE  Erased
  <2>1. insts' = insts
    BY <1>12 DEF DiscardOnLoop, durable
  <2>. QED BY <2>1
<1>13. ASSUME MarkPending
       PROVE  Erased
  <2>1. \E ok \in BOOLEAN : Mark(job.who, ok)
    BY <1>13 DEF MarkPending, MarkOrRemember
  <2>. QED BY <2>1, Marked DEF Base
<1>14. ASSUME NEW c \in Channels, Leave(c)
       PROVE  Erased
  <2>1. insts' = insts
    BY <1>14 DEF Leave
  <2>. QED BY <2>1
<1>15. ASSUME NEW c \in Channels, CleanupStops(c)
       PROVE  Erased
  <2>1. insts' = insts
    BY <1>15 DEF CleanupStops, durable
  <2>. QED BY <2>1
<1>16. ASSUME FinishDeparture
       PROVE  Erased
  <2>0. live' = live /\ job.kind \in {"quit", "discard"} /\ job.todo = {}
    BY <1>16 DEF FinishDeparture
  <2>1. CASE \E ok \in BOOLEAN : Mark(job.who, ok)
    BY <2>1, Marked DEF Base
  <2>2. CASE insts' = insts
    BY <2>2
  <2>3. CASE rows' = RowsWithout(job.who) /\ insts' = [insts EXCEPT ![job.who] = NoRow]
    <3>1. job.who \in Models
      BY <2>0, ChannelsAssumption DEF Base, TypeOK, JobInv, Idle, Actors
    <3>2. Leaving(job.who) /\ Right(job.who) /\ Tracked(job.who)
      BY <2>0, <3>1, ChannelsAssumption DEF Leaving, Tracked
    <3>3. \A c \in Channels : job.who \notin Members(live[c])
      BY <2>0, <3>2 DEF Right, OnLive
    <3>4. \A c \in Channels : job.who \notin Members(rows'[c])
      BY <2>3, RowsWithoutShows
    <3>5. \A i \in Actors : i = job.who => Away(i)'
      BY <2>0, <3>3, <3>4 DEF Away
    <3>. QED BY <2>3, <3>5
  <2>. QED BY <1>16, <2>1, <2>2, <2>3 DEF FinishDeparture
<1>17. ASSUME AttachUser
       PROVE  Erased
  <2>1. \A j \in Actors \ {User} : insts'[j] = insts[j]
    BY <1>17 DEF AttachUser
  <2>2. Connected(User)'
    BY <1>17 DEF AttachUser, Connected, Base, TypeOK
  <2>. QED BY <2>1, <2>2 DEF Base, RowInv, Resolves
<1>18. ASSUME NEW m \in Models, PurgePending(m)
       PROVE  Erased
  <2>1. \A j \in Actors \ {m} : insts'[j] = insts[j]
    BY <1>18 DEF PurgePending
  <2>2. \A c \in Channels : live'[c] = NoChannel
    BY <1>18 DEF PurgePending, Base, BootInv
  <2>3. \A c \in Channels : m \notin Members(rows'[c])
    BY <1>18, RowsWithoutShows DEF PurgePending
  <2>4. Away(m)'
    BY <2>2, <2>3 DEF Away, Members
  <2>. QED BY <2>1, <2>4
<1>19. ASSUME StartModels
       PROVE  Erased
  <2>1. insts' = insts
    BY <1>19 DEF StartModels, durable
  <2>. QED BY <2>1
<1>20. ASSUME Cleanup
       PROVE  Erased
  <2>1. insts' = insts
    BY <1>20 DEF Cleanup, durable
  <2>. QED BY <2>1
<1>21. ASSUME Reconciled
       PROVE  Erased
  <2>1. insts' = insts
    BY <1>21 DEF Reconciled, durable
  <2>. QED BY <2>1
<1>22. ASSUME Reactivate
       PROVE  Erased
  <2>1. Away(User) /\ live' = live /\ rows' = RowsWithout(User)
    BY <1>22 DEF Reactivate, UserInv
  <2>2. Away(User)'
    BY <2>1 DEF RowsWithout, Away
  <2>3. \A j \in Actors \ {User} : insts'[j] = insts[j]
    BY <1>22 DEF Reactivate
  <2>. QED BY <2>2, <2>3
<1>23. ASSUME Activate
       PROVE  Erased
  <2>1. insts' = insts
    BY <1>23 DEF Activate
  <2>. QED BY <2>1
<1>24. ASSUME Stop
       PROVE  Erased
  <2>1. insts' = insts
    BY <1>24 DEF Stop, durable
  <2>. QED BY <2>1
<1>25. Erased
  BY <1>1, <1>2, <1>3, <1>4, <1>5, <1>6, <1>7, <1>8, <1>9, <1>10, <1>11, <1>12, <1>13, <1>14, <1>15, <1>16, <1>17, <1>18, <1>19, <1>20, <1>21, <1>22, <1>23, <1>24 DEF Moves, Boot
<1>26. ASSUME NEW i \in Actors, insts[i] = NoRow PROVE Away(i)'
  <2>1. Away(i) /\ conn[i] # "active"
    BY <1>26 DEF CopyInv, Rowless, Base, RowInv, Connected, Resolves
  <2>. QED BY <2>1, Comers DEF Away
<1>. QED BY <1>25, <1>26 DEF Rowless

LEMMA JoinersStep ==
  ASSUME Base, Joiners, Moves
  PROVE  Joiners'
<1>. User \in Actors /\ Models \subseteq Actors /\ (\A m \in Models : m # User) /\ job.who \in Actors
  BY ChannelsAssumption DEF Actors, Base, TypeOK
<1>1. ASSUME NEW i \in Actors, NEW c \in Channels, NEW w \in Window, Enters(i, c, w)
      PROVE  Joiners'
  <2>1. \A k \in Models : /\ joining'[k] = joining[k] \/ joining'[k] = NoChannel
                          /\ conn'[k] = conn[k] \/ conn'[k] \in {"registered", "active", "discarded", "gone"}
    BY <1>1 DEF Enters, Otherwise, Base, TypeOK
  <2>. QED BY <2>1 DEF Joiners
<1>2. ASSUME NEW cs \in SUBSET Channels, Fills(cs)
      PROVE  Joiners'
  <2>1. \A k \in Models : /\ joining'[k] = joining[k] \/ joining'[k] = NoChannel
                          /\ conn'[k] = conn[k] \/ conn'[k] \in {"registered", "active", "discarded", "gone"}
    BY <1>2 DEF Fills, Otherwise, Base, TypeOK
  <2>. QED BY <2>1 DEF Joiners
<1>3. ASSUME NEW i \in Actors, NEW c \in Channels, Departs(i, c)
      PROVE  Joiners'
  <2>1. \A k \in Models : /\ joining'[k] = joining[k] \/ joining'[k] = NoChannel
                          /\ conn'[k] = conn[k] \/ conn'[k] \in {"registered", "active", "discarded", "gone"}
    BY <1>3 DEF Departs, Otherwise
  <2>. QED BY <2>1 DEF Joiners
<1>4. ASSUME NEW c \in Channels, NEW w \in Window, Updates(c, w)
      PROVE  Joiners'
  <2>1. \A k \in Models : /\ joining'[k] = joining[k] \/ joining'[k] = NoChannel
                          /\ conn'[k] = conn[k] \/ conn'[k] \in {"registered", "active", "discarded", "gone"}
    BY <1>4 DEF Updates, Otherwise
  <2>. QED BY <2>1 DEF Joiners
<1>5. ASSUME NEW i \in Actors, NEW n \in Nicks, Renames(i, n)
      PROVE  Joiners'
  <2>1. \A k \in Models : /\ joining'[k] = joining[k] \/ joining'[k] = NoChannel
                          /\ conn'[k] = conn[k] \/ conn'[k] \in {"registered", "active", "discarded", "gone"}
    BY <1>5 DEF Renames, Otherwise
  <2>. QED BY <2>1 DEF Joiners
<1>6. ASSUME NEW n \in Nicks, SaveNick(n)
      PROVE  Joiners'
  <2>1. \A k \in Models : /\ joining'[k] = joining[k] \/ joining'[k] = NoChannel
                          /\ conn'[k] = conn[k] \/ conn'[k] \in {"registered", "active", "discarded", "gone"}
    BY <1>6 DEF SaveNick, memory
  <2>. QED BY <2>1 DEF Joiners
<1>7. ASSUME NEW i \in Actors, Deletes(i)
      PROVE  Joiners'
  <2>1. \A k \in Models : /\ joining'[k] = joining[k] \/ joining'[k] = NoChannel
                          /\ conn'[k] = conn[k] \/ conn'[k] \in {"registered", "active", "discarded", "gone"}
    BY <1>7 DEF Deletes, InstanceDeleted, Retired, Base, TypeOK
  <2>. QED BY <2>1 DEF Joiners
<1>8. ASSUME NEW i \in Actors, Forced(i)
      PROVE  Joiners'
  <2>1. \A k \in Models : /\ joining'[k] = joining[k] \/ joining'[k] = NoChannel
                          /\ conn'[k] = conn[k] \/ conn'[k] \in {"registered", "active", "discarded", "gone"}
    BY <1>8 DEF Forced, Retired, Base, TypeOK
  <2>. QED BY <2>1 DEF Joiners
<1>9. ASSUME NEW m \in Models, NEW n \in Nicks, NEW c \in Channels, Registers(m, n, c)
      PROVE  Joiners'
  <2>1. /\ conn'[m] = "registered"
        /\ \A k \in Models \ {m} : joining'[k] = joining[k] /\ conn'[k] = conn[k]
    BY <1>9 DEF Registers, Base, TypeOK
  <2>. QED BY <2>1 DEF Joiners
<1>10. ASSUME NEW m \in Models, Attach(m)
       PROVE  Joiners'
  <2>1. \A k \in Models : /\ joining'[k] = joining[k] \/ joining'[k] = NoChannel
                          /\ conn'[k] = conn[k] \/ conn'[k] \in {"registered", "active", "discarded", "gone"}
    BY <1>10 DEF Attach, Base, TypeOK
  <2>. QED BY <2>1 DEF Joiners
<1>11. ASSUME NEW m \in Models, Discard(m)
       PROVE  Joiners'
  <2>1. \A k \in Models : /\ joining'[k] = joining[k] \/ joining'[k] = NoChannel
                          /\ conn'[k] = conn[k] \/ conn'[k] \in {"registered", "active", "discarded", "gone"}
    BY <1>11 DEF Discard, Base, TypeOK
  <2>. QED BY <2>1 DEF Joiners
<1>12. ASSUME NEW m \in Models, DiscardOnLoop(m)
       PROVE  Joiners'
  <2>1. \A k \in Models : /\ joining'[k] = joining[k] \/ joining'[k] = NoChannel
                          /\ conn'[k] = conn[k] \/ conn'[k] \in {"registered", "active", "discarded", "gone"}
    BY <1>12 DEF DiscardOnLoop
  <2>. QED BY <2>1 DEF Joiners
<1>13. ASSUME MarkPending
       PROVE  Joiners'
  <2>1. \A k \in Models : /\ joining'[k] = joining[k] \/ joining'[k] = NoChannel
                          /\ conn'[k] = conn[k] \/ conn'[k] \in {"registered", "active", "discarded", "gone"}
    BY <1>13 DEF MarkPending, memory
  <2>. QED BY <2>1 DEF Joiners
<1>14. ASSUME NEW c \in Channels, Leave(c)
       PROVE  Joiners'
  <2>1. joining' = joining /\ (conn' = conn \/ conn' = Aborted)
    BY <1>14 DEF Leave
  <2>2. \A m \in Models : conn'[m] = conn[m]
    BY <2>1 DEF Aborted, Base, TypeOK
  <2>. QED BY <2>1, <2>2 DEF Joiners
<1>15. ASSUME NEW c \in Channels, CleanupStops(c)
       PROVE  Joiners'
  <2>1. \A k \in Models : /\ joining'[k] = joining[k] \/ joining'[k] = NoChannel
                          /\ conn'[k] = conn[k] \/ conn'[k] \in {"registered", "active", "discarded", "gone"}
    BY <1>15 DEF CleanupStops, Aborted, Base, TypeOK
  <2>. QED BY <2>1 DEF Joiners
<1>16. ASSUME FinishDeparture
       PROVE  Joiners'
  <2>1. \A k \in Models : /\ joining'[k] = joining[k] \/ joining'[k] = NoChannel
                          /\ conn'[k] = conn[k] \/ conn'[k] \in {"registered", "active", "discarded", "gone"}
    BY <1>16 DEF FinishDeparture, Retired, Base, TypeOK
  <2>. QED BY <2>1 DEF Joiners
<1>17. ASSUME AttachUser
       PROVE  Joiners'
  <2>1. \A k \in Models : /\ joining'[k] = joining[k] \/ joining'[k] = NoChannel
                          /\ conn'[k] = conn[k] \/ conn'[k] \in {"registered", "active", "discarded", "gone"}
    BY <1>17 DEF AttachUser, Base, TypeOK
  <2>. QED BY <2>1 DEF Joiners
<1>18. ASSUME NEW m \in Models, PurgePending(m)
       PROVE  Joiners'
  <2>1. \A k \in Models : /\ joining'[k] = joining[k] \/ joining'[k] = NoChannel
                          /\ conn'[k] = conn[k] \/ conn'[k] \in {"registered", "active", "discarded", "gone"}
    BY <1>18 DEF PurgePending, Base, TypeOK
  <2>. QED BY <2>1 DEF Joiners
<1>19. ASSUME StartModels
       PROVE  Joiners'
  <2>1. joining' = joining /\ \A m \in Models : joining[m] = NoChannel
    BY <1>19 DEF StartModels, Base, BootInv
  <2>. QED BY <2>1 DEF Joiners
<1>20. ASSUME Cleanup
       PROVE  Joiners'
  <2>1. \A k \in Models : /\ joining'[k] = joining[k] \/ joining'[k] = NoChannel
                          /\ conn'[k] = conn[k] \/ conn'[k] \in {"registered", "active", "discarded", "gone"}
    BY <1>20 DEF Cleanup
  <2>. QED BY <2>1 DEF Joiners
<1>21. ASSUME Reconciled
       PROVE  Joiners'
  <2>1. \A k \in Models : /\ joining'[k] = joining[k] \/ joining'[k] = NoChannel
                          /\ conn'[k] = conn[k] \/ conn'[k] \in {"registered", "active", "discarded", "gone"}
    BY <1>21 DEF Reconciled, Base, TypeOK
  <2>. QED BY <2>1 DEF Joiners
<1>22. ASSUME Reactivate
       PROVE  Joiners'
  <2>1. \A k \in Models : /\ joining'[k] = joining[k] \/ joining'[k] = NoChannel
                          /\ conn'[k] = conn[k] \/ conn'[k] \in {"registered", "active", "discarded", "gone"}
    BY <1>22 DEF Reactivate, Base, TypeOK
  <2>. QED BY <2>1 DEF Joiners
<1>23. ASSUME Activate
       PROVE  Joiners'
  <2>1. \A k \in Models : /\ joining'[k] = joining[k] \/ joining'[k] = NoChannel
                          /\ conn'[k] = conn[k] \/ conn'[k] \in {"registered", "active", "discarded", "gone"}
    BY <1>23 DEF Activate, Aborted, Base, TypeOK
  <2>. QED BY <2>1 DEF Joiners
<1>24. ASSUME Stop
       PROVE  Joiners'
  <2>1. \A m \in Models : joining'[m] = NoChannel
    BY <1>24 DEF Stop
  <2>. QED BY <2>1 DEF Joiners
<1>. QED BY <1>1, <1>2, <1>3, <1>4, <1>5, <1>6, <1>7, <1>8, <1>9, <1>10, <1>11, <1>12, <1>13, <1>14, <1>15, <1>16, <1>17, <1>18, <1>19, <1>20, <1>21, <1>22, <1>23, <1>24 DEF Moves, Boot


\* A departure that the store took is of its row too.
LEMMA LeaveWritten ==
  ASSUME Base, NEW c \in Channels, Leave(c), c \notin reported'
  PROVE  job.who \notin Members(rows'[c])
<1>. job.who \in Actors
  BY DEF Base, TypeOK
<1>1. \/ rows' = [rows EXCEPT ![c] = live'[c]]
      \/ c \in reported'
  BY DEF Leave, Reported, Base, TypeOK
<1>2. job.who \notin Members(live'[c])
  BY LeaveTakes
<1>. QED BY <1>1, <1>2 DEF Base, TypeOK

\* What a step leaves of a client that left and that it is not about.
Unmoved(i) ==
  /\ conn'[i] = conn[i] /\ handle'[i].chans = handle[i].chans
  /\ Leaving(i)' => Leaving(i) /\ job'.todo = job.todo
  /\ reported \subseteq reported'

LEMMA ToLeaveStep ==
  ASSUME Base, CopyInv, \A i \in Actors : Right(i), unmarked = {}, Moves,
         readFails' = readFails
  PROVE  \A i \in Models : ToLeave(i)'
<1>. DEFINE Leavers == \A j \in Models :
       conn'[j] \in {"gone", "discarded"} => ToLeave(j)' \/ Unmoved(j)
<1>. User \in Actors /\ Models \subseteq Actors /\ job.who \in Actors
     /\ (\A j \in Models : j # User)
  BY ChannelsAssumption DEF Actors, Base, TypeOK
<1>1. ASSUME NEW i \in Actors, NEW c \in Channels, NEW w \in Window, Enters(i, c, w)
      PROVE  Leavers
  <2>1. \A j \in Models : conn'[j] \in {"gone", "discarded"} => Unmoved(j)
    BY <1>1 DEF Enters, Otherwise, Stores, Active, Unmoved, Base, TypeOK, Leaving, Idle
  <2>. QED BY <2>1
<1>2. ASSUME NEW cs \in SUBSET Channels, Fills(cs)
      PROVE  Leavers
  <2>1. \A j \in Models : conn'[j] \in {"gone", "discarded"} => Unmoved(j)
    BY <1>2 DEF Fills, Otherwise, Unmoved, Base, TypeOK, Leaving, Idle
  <2>. QED BY <2>1
<1>3. ASSUME NEW i \in Actors, NEW c \in Channels, Departs(i, c)
      PROVE  Leavers
  <2>1. \A j \in Models : conn'[j] \in {"gone", "discarded"} => Unmoved(j)
    BY <1>3 DEF Departs, Otherwise, Stores, Active, Unmoved, Base, TypeOK, Leaving, Idle
  <2>. QED BY <2>1
<1>4. ASSUME NEW c \in Channels, NEW w \in Window, Updates(c, w)
      PROVE  Leavers
  <2>1. \A j \in Models : conn'[j] \in {"gone", "discarded"} => Unmoved(j)
    BY <1>4 DEF Updates, Otherwise, Unmoved, Base, TypeOK, Leaving, Idle
  <2>. QED BY <2>1
<1>5. ASSUME NEW i \in Actors, NEW n \in Nicks, Renames(i, n)
      PROVE  Leavers
  <2>1. \A j \in Models : conn'[j] \in {"gone", "discarded"} => Unmoved(j)
    BY <1>5 DEF Renames, Otherwise, Stores, Active, Unmoved, Base, TypeOK, Leaving, Idle
  <2>. QED BY <2>1
<1>6. ASSUME NEW n \in Nicks, SaveNick(n)
      PROVE  Leavers
  <2>1. \A j \in Models : conn'[j] \in {"gone", "discarded"} => Unmoved(j)
    BY <1>6 DEF SaveNick, memory, Unmoved, Base, TypeOK, Leaving, Idle
  <2>. QED BY <2>1
<1>7. ASSUME NEW i \in Actors, Deletes(i)
      PROVE  Leavers
  <2>1. job' = job /\ reported' = reported
        /\ \A j \in Models \ {i} : conn'[j] = conn[j] /\ handle'[j] = handle[j]
    BY <1>7, Deleted DEF Deletes, Base, TypeOK
  <2>2. \A j \in Models \ {i} : Unmoved(j)
    BY <2>1 DEF Unmoved, Leaving
  <2>3. \A c \in Channels : i \notin Members(rows'[c])
    BY <1>7, RowsWithoutShows, DeleteShows
  <2>4. i \in Models => ToLeave(i)'
    BY <2>3 DEF ToLeave
  <2>. QED BY <2>2, <2>4
<1>8. ASSUME NEW i \in Actors, Forced(i)
      PROVE  Leavers
  <2>1. /\ reported' = reported /\ handle' = handle /\ rows' = rows
        /\ job'.who = i /\ job'.todo = {c \in handle[i].chans : Loaded(c) # NoChannel}
        /\ \A j \in Models \ {i} : conn'[j] = conn[j]
        /\ job = Idle /\ Up /\ conn[i] = "active"
    BY <1>8 DEF Forced, Running, Active, Base, TypeOK
  <2>2. \A j \in Models \ {i} : Unmoved(j)
    BY <2>1 DEF Unmoved, Leaving
  <2>3. ASSUME i \in Models PROVE ToLeave(i)'
    <3>1. ~Leaving(i) /\ Resolves(i) /\ Tracked(i) /\ Right(i)
      BY <2>1, <2>3, ChannelsAssumption DEF Leaving, Idle, Base, RowInv, Connected, Tracked
    <3>2. ASSUME NEW c \in Channels, i \in Members(rows[c])
          PROVE  c \in handle[i].chans /\ Loaded(c) # NoChannel
      <4>1. c \in handle[i].chans
        BY <2>1, <3>1, <3>2, Agreeing
      <4>2. i \in Members(Loaded(c))
        BY <2>1, <3>1, <4>1, Loading
      <4>. QED BY <4>1, <4>2 DEF Members
    <3>. QED BY <2>1, <3>2 DEF ToLeave
  <2>. QED BY <2>2, <2>3
<1>9. ASSUME NEW m \in Models, NEW n \in Nicks, NEW c \in Channels, Registers(m, n, c)
      PROVE  Leavers
  <2>1. \A j \in Models : conn'[j] \in {"gone", "discarded"} => Unmoved(j)
    BY <1>9 DEF Registers, Unmoved, Base, TypeOK, Leaving, Idle
  <2>. QED BY <2>1
<1>10. ASSUME NEW m \in Models, Attach(m)
       PROVE  Leavers
  <2>1. \A j \in Models : conn'[j] \in {"gone", "discarded"} => Unmoved(j)
    BY <1>10 DEF Attach, Unmoved, Base, TypeOK, Leaving, Idle
  <2>. QED BY <2>1
<1>11. ASSUME NEW m \in Models, Discard(m)
       PROVE  Leavers
  <2>1. /\ UNCHANGED <<handle, job, rows, reported>> /\ joining[m] # NoChannel /\ Up
        /\ conn[m] # "discarded" /\ (job.who = m => job = Idle)
        /\ \A j \in Models \ {m} : conn'[j] = conn[j]
    BY <1>11 DEF Discard, Base, TypeOK
  <2>2. \A j \in Models \ {m} : Unmoved(j)
    BY <2>1 DEF Unmoved, Leaving
  <2>3. ~Leaving(m) /\ Tracked(m) /\ Right(m)
    BY <2>1, ChannelsAssumption DEF Leaving, Idle, Tracked
  <2>4. conn[m] \in {"registered", "active", "gone"}
    BY <2>1 DEF CopyInv, Joiners
  <2>5. CASE conn[m] = "gone"
    <3>1. ToLeave(m)
      BY DEF CopyInv
    <3>. QED BY <2>1, <2>2, <2>3, <2>5, <3>1 DEF ToLeave, Leaving
  <2>6. CASE conn[m] \in {"registered", "active"}
    <3>1. Resolves(m)
      BY <2>6 DEF Base, RowInv, Connected
    <3>2. \A c \in Channels : m \in Members(rows[c]) => c \in handle[m].chans
      BY <2>1, <2>3, <3>1, Agreeing
    <3>. QED BY <2>1, <2>2, <2>3, <3>2 DEF ToLeave, Leaving
  <2>. QED BY <2>4, <2>5, <2>6
<1>12. ASSUME NEW m \in Models, DiscardOnLoop(m)
       PROVE  Leavers
  <2>1. /\ UNCHANGED <<handle, conn, rows, reported>> /\ conn[m] = "discarded"
        /\ job'.who = m /\ job'.todo = {c \in handle[m].chans : Loaded(c) # NoChannel}
        /\ job = Idle
    BY <1>12 DEF DiscardOnLoop, Running, durable
  <2>2. \A j \in Models \ {m} : Unmoved(j)
    BY <2>1 DEF Unmoved, Leaving
  <2>3. ASSUME NEW c \in Channels, m \in Members(rows[c]), c \notin reported
        PROVE  c \in handle[m].chans /\ Loaded(c) # NoChannel
    <3>1. c \in handle[m].chans
      BY <2>1, <2>3 DEF CopyInv, ToLeave
    <3>2. rows[c] \in Window
      BY <2>3, RecordTypes DEF Base, Members
    <3>3. live[c] = NoChannel => gen[c] = 0
      BY <2>3, <3>2, WindowFields DEF CopyInv, LeftBehind
    <3>4. Loaded(c) \in {live[c], FromStore(rows[c])} /\ (live[c] = NoChannel => Loaded(c) = FromStore(rows[c]))
      BY <3>3 DEF Loaded
    <3>5. FromStore(rows[c]) # NoChannel
      BY <3>2, FromStoreWindow, WindowFields
    <3>6. Loaded(c) # NoChannel
      BY <3>4, <3>5 DEF Loaded
    <3>. QED BY <3>1, <3>6
  <2>. QED BY <2>1, <2>2, <2>3 DEF ToLeave
<1>13. ASSUME MarkPending
       PROVE  Leavers
  <2>1. UNCHANGED <<handle, conn, reported>> /\ job.kind = "mark" /\ job'.who = job.who /\ job'.todo = job.todo
    BY <1>13 DEF MarkPending, memory, Base, TypeOK
  <2>2. \A j \in Models : Unmoved(j)
    BY <2>1 DEF Unmoved, Leaving
  <2>. QED BY <2>2
<1>14. ASSUME NEW c \in Channels, Leave(c)
       PROVE  Leavers
  <2>1. PICK ok \in BOOLEAN :
          /\ reported' = IF ok THEN reported ELSE reported \cup {c}
          /\ ok \/ rows' = rows
          /\ IF job.kind = "cleanup" /\ ~ok THEN job' = Idle /\ conn' = Aborted
             ELSE job' = [job EXCEPT !.todo = @ \ {c}, !.clean = @ /\ ok] /\ conn' = conn
    BY <1>14 DEF Leave, Reported
  <2>2. job.kind \in {"quit", "discard", "cleanup"} /\ handle' = [handle EXCEPT ![job.who] = Departed(job.who, c)]
    BY <1>14 DEF Leave
  <2>3. CASE job.kind = "cleanup"
    <3>0. job.who = User /\ (job' = Idle \/ job' = [job EXCEPT !.todo = @ \ {c}, !.clean = @ /\ ok])
      BY <2>1, <2>3 DEF Base, JobInv, Idle
    <3>1. job.who = User /\ job'.who = User
      <4>1. job' = Idle => job'.who = User
        BY DEF Idle
      <4>2. job' = [job EXCEPT !.todo = @ \ {c}, !.clean = @ /\ ok] => job'.who = job.who
        BY DEF Base, TypeOK
      <4>. QED BY <3>0, <4>1, <4>2
    <3>2. \A j \in Models : conn'[j] = conn[j] /\ handle'[j] = handle[j] /\ ~Leaving(j)'
      BY <2>1, <2>2, <3>1, ChannelsAssumption DEF Aborted, Base, TypeOK, Leaving
    <3>3. \A j \in Models : Unmoved(j)
      BY <2>1, <3>2 DEF Unmoved
    <3>. QED BY <3>3
  <2>4. CASE job.kind \in {"quit", "discard"}
    <3>1. job'.who = job.who /\ job'.todo = job.todo \ {c} /\ conn' = conn
      BY <2>1, <2>4 DEF Base, TypeOK
    <3>2. \A j \in Models \ {job.who} : Unmoved(j)
      BY <2>1, <2>2, <3>1 DEF Unmoved, Leaving, Base, TypeOK
    <3>3. ASSUME NEW j \in Models, j = job.who, conn[j] \in {"gone", "discarded"} PROVE ToLeave(j)'
      <4>1. Leaving(j) /\ ToLeave(j)
        BY <2>4, <3>3 DEF Leaving, CopyInv
      <4>2. handle'[j].chans = handle[j].chans \ {c}
        <5>1. Departed(j, c).chans = handle[j].chans \ {c}
          BY ClientTypes DEF Departed, Base, Instance, NoHandle
        <5>. QED BY <2>2, <3>3, <5>1 DEF Base, TypeOK
      <4>3. ASSUME NEW d \in Channels, j \in Members(rows'[d]), d \notin reported'
            PROVE  d \in handle[j].chans \ {c} /\ d \in job.todo \ {c}
        <5>1. d # c
          BY <1>14, <3>3, <4>3, LeaveWritten
        <5>2. rows'[d] = rows[d] /\ d \notin reported
          BY <1>14, <2>1, <4>3, <5>1, LeaveTakes
        <5>. QED BY <3>3, <4>1, <4>3, <5>1, <5>2 DEF ToLeave
      <4>. QED BY <3>1, <4>2, <4>3 DEF ToLeave
    <3>. QED BY <3>1, <3>2, <3>3
  <2>. QED BY <2>2, <2>3, <2>4
<1>15. ASSUME NEW c \in Channels, CleanupStops(c)
       PROVE  Leavers
  <2>1. \A j \in Models : conn'[j] \in {"gone", "discarded"} => Unmoved(j)
    BY <1>15 DEF CleanupStops, Aborted, Unmoved, Base, TypeOK, Leaving, Idle
  <2>. QED BY <2>1
<1>16. ASSUME FinishDeparture
       PROVE  Leavers
  <2>1. /\ reported' = reported /\ job' = Idle
        /\ rows' = rows \/ rows' = RowsWithout(job.who)
        /\ job.kind \in {"quit", "discard"} /\ job.todo = {}
        /\ \A j \in Models \ {job.who} : conn'[j] = conn[j] /\ handle'[j] = handle[j]
    BY <1>16 DEF FinishDeparture, Base, TypeOK
  <2>2. ~Leaving(job.who)' /\ \A j \in Models \ {job.who} : Unmoved(j)
    BY <2>1 DEF Unmoved, Leaving, Idle
  <2>3. ASSUME NEW j \in Models, j = job.who PROVE ToLeave(j)'
    <3>1. Leaving(j) /\ conn[j] \in {"gone", "discarded"} /\ ToLeave(j)
      BY <2>1, <2>3, ChannelsAssumption DEF Leaving, Base, JobInv, Idle, Retired, CopyInv
    <3>2. \A c \in Channels : j \in Members(rows[c]) => c \in reported
      BY <2>1, <3>1 DEF ToLeave
    <3>3. \A c \in Channels : j \in Members(rows'[c]) => c \in reported'
      BY <2>1, <2>3, <3>2, RowsWithoutShows
    <3>. QED BY <3>3 DEF ToLeave
  <2>. QED BY <2>2, <2>3
<1>17. ASSUME AttachUser
       PROVE  Leavers
  <2>1. \A j \in Models : conn'[j] \in {"gone", "discarded"} => Unmoved(j)
    BY <1>17 DEF AttachUser, Unmoved, Base, TypeOK, Leaving, Idle
  <2>. QED BY <2>1
<1>18. ASSUME NEW m \in Models, PurgePending(m)
       PROVE  Leavers
  <2>1. \A j \in Models \ {m} : Unmoved(j)
    BY <1>18 DEF PurgePending, Unmoved, Leaving, Base, TypeOK
  <2>2. \A c \in Channels : m \notin Members(rows'[c])
    BY <1>18, RowsWithoutShows DEF PurgePending
  <2>. QED BY <2>1, <2>2 DEF ToLeave
<1>19. ASSUME StartModels
       PROVE  Leavers
  <2>1. \A j \in Models : conn'[j] \in {"gone", "discarded"} => Unmoved(j)
    BY <1>19 DEF StartModels, Unmoved, Base, TypeOK, Leaving, Idle
  <2>. QED BY <2>1
<1>20. ASSUME Cleanup
       PROVE  Leavers
  <2>1. \A j \in Models : conn'[j] \in {"gone", "discarded"} => Unmoved(j)
    BY <1>20 DEF Cleanup, Unmoved, Base, TypeOK, Leaving, Idle
  <2>. QED BY <2>1
<1>21. ASSUME Reconciled
       PROVE  Leavers
  <2>1. \A j \in Models : conn'[j] \in {"gone", "discarded"} => Unmoved(j)
    BY <1>21 DEF Reconciled, Unmoved, Base, TypeOK, Leaving, Idle
  <2>. QED BY <2>1
<1>22. ASSUME Reactivate
       PROVE  Leavers
  <2>1. \A j \in Models : conn'[j] \in {"gone", "discarded"} => Unmoved(j)
    BY <1>22 DEF Reactivate, Unmoved, Base, TypeOK, Leaving, Idle
  <2>. QED BY <2>1
<1>23. ASSUME Activate
       PROVE  Leavers
  <2>1. \A j \in Models : conn'[j] \in {"gone", "discarded"} => Unmoved(j)
    BY <1>23 DEF Activate, Aborted, Unmoved, Base, TypeOK, Leaving, Idle
  <2>. QED BY <2>1
<1>24. ASSUME Stop
       PROVE  Leavers
  <2>1. rows' = rows /\ \A j \in Models : conn'[j] = "gone" => insts[j] = NoRow
    BY <1>24, ChannelsAssumption DEF Stop, durable
  <2>2. \A j \in Models : conn'[j] # "discarded"
    BY <1>24 DEF Stop
  <2>3. \A j \in Models : insts[j] = NoRow => \A c \in Channels : j \notin Members(rows[c])
    BY DEF CopyInv, Rowless, Away
  <2>. QED BY <2>1, <2>2, <2>3 DEF ToLeave
<1>25. Leavers
  BY <1>1, <1>2, <1>3, <1>4, <1>5, <1>6, <1>7, <1>8, <1>9, <1>10, <1>11, <1>12, <1>13, <1>14, <1>15, <1>16, <1>17, <1>18, <1>19, <1>20, <1>21, <1>22, <1>23, <1>24 DEF Moves, Boot
<1>26. ASSUME NEW i \in Models, conn'[i] \in {"gone", "discarded"}, Unmoved(i),
              NEW c \in Channels, i \in Members(rows'[c]), c \notin reported'
       PROVE  c \in handle'[i].chans /\ (Leaving(i)' => c \in job'.todo)
  <2>1. i \in Actors /\ Tracked(i) /\ Right(i) /\ conn[i] \in {"gone", "discarded"}
    BY <1>26 DEF Tracked, Unmoved
  <2>2. i \in Members(live[c]) \/ i \in Members(rows[c])
    BY <1>26, <2>1, Comers
  <2>3. c \in handle[i].chans /\ (Leaving(i) => c \in job.todo)
    BY <1>26, <2>1, <2>2 DEF Unmoved, Right, OnLive, CopyInv, ToLeave
  <2>. QED BY <1>26, <2>3 DEF Unmoved
<1>. QED BY <1>25, <1>26 DEF ToLeave

LEMMA CopyStep ==
  ASSUME Base, Base', Fresh, UserInv, CopyInv, \A i \in Actors : Right(i), unmarked = {},
         Moves, readFails' = readFails
  PROVE  CopyInv'
<1>1. \A c \in Channels : Traced(c)
  BY TracedStep
<1>2. ASSUME NEW c \in Channels, live'[c] # NoChannel,
             NEW j \in Actors, j \in Members(rows[c]) \cup Members(rows'[c]), Resolves(j)'
      PROVE  Resolves(j)
  <2>1. Resolves(j) \/ Away(j)
    BY <1>2, Backers
  <2>2. Away(j) /\ conn[j] # "active" => j \notin Members(rows[c]) \cup Members(rows'[c])
    BY Comers DEF Away
  <2>3. conn[j] = "active" => Resolves(j)
    BY DEF Base, RowInv, Connected
  <2>. QED BY <1>2, <2>1, <2>2, <2>3
<1>3. ASSUME NEW c \in Channels PROVE Copied(c)'
  <2>1. Members(rows[c]) \subseteq Actors /\ Members(rows'[c]) \subseteq Actors
    <3>1. rows[c] \in Window \cup {NoChannel} /\ rows'[c] \in Window \cup {NoChannel}
      BY DEF Base, TypeOK
    <3>2. Members(NoChannel) = {}
      BY DEF Members
    <3>. QED BY <3>1, <3>2, WindowFields
  <2>2. Copied(c) /\ Traced(c)
    BY <1>1 DEF CopyInv
  <2>. QED BY <1>2, <2>1, <2>2, CopiedStays
<1>4. ASSUME NEW c \in Channels PROVE LeftBehind(c)'
  <2>1. LeftBehind(c) /\ Traced(c)
    BY <1>1 DEF CopyInv
  <2>. QED BY <2>1 DEF LeftBehind, Traced
<1>. QED BY <1>3, <1>4, ToLeaveStep, RowlessStep, JoinersStep DEF CopyInv

\* Between commands a live member resolves, but for a model being discarded.
LEMMA LiveResolves ==
  ASSUME Base, UserInv, unmarked = {}, Running, NEW i \in Actors, Right(i),
         NEW c \in Channels, i \in Members(live[c])
  PROVE  conn[i] = "discarded" \/ Resolves(i)
<1>1. ASSUME Tracked(i) PROVE conn[i] \in {"active", "discarded"}
  BY <1>1 DEF Right, OnLive, Running, Leaving, Idle
<1>2. ASSUME ~Tracked(i) PROVE conn[i] = "attached"
  <2>1. i = User /\ conn[User] \in {"active", "stored", "attached"}
    BY <1>2 DEF Tracked, UserInv, Away
  <2>. QED BY <1>2, <2>1 DEF Tracked, Base, BootInv, Running, Up
<1>. QED BY <1>1, <1>2 DEF Base, RowInv, Connected

LEMMA CopyMeans ==
  ASSUME Base, UserInv, CopyInv, \A i \in Actors : Right(i), unmarked = {}
  PROVE  DivergenceReported
<1>. SUFFICES ASSUME Running, NEW c \in Channels, live[c] # NoChannel, c \notin reported,
                     \A i \in Members(live[c]) : conn[i] # "discarded"
              PROVE  live[c] = FromStore(rows[c])
  BY DEF DivergenceReported, Settled
<1>1. Copied(c) /\ live[c] \in Window
  BY RecordTypes DEF CopyInv, Base
<1>2. rows[c] \in Window
  BY <1>1, RecordTypes DEF Copied, Base
<1>3. PICK w \in Window : w = FromStore(rows[c])
  BY <1>2, FromStoreWindow
<1>4. /\ Members(w) = {j \in Members(rows[c]) : Resolves(j)}
      /\ \A j \in Members(w) : w.nick[j] = rows[c].nick[j]
      /\ w.ops = {j \in rows[c].ops : Resolves(j)}
      /\ w.invites = rows[c].invites /\ w.closed = rows[c].closed /\ w.born = rows[c].born
  BY <1>2, <1>3, FromStoreWindow
<1>5. \A j \in Members(live[c]) : Resolves(j)
  BY <1>1, LiveResolves, WindowFields
<1>6. Members(live[c]) = Members(w)
  BY <1>1, <1>4, <1>5 DEF Copied
<1>7. live[c].nick = w.nick
  <2>1. \A j \in Members(w) : live[c].nick[j] = w.nick[j]
    BY <1>1, <1>4, <1>6 DEF Copied
  <2>2. live[c].nick \in [Members(w) -> Nicks] /\ w.nick \in [Members(w) -> Nicks]
    BY <1>1, <1>3, <1>6, WindowFields
  <2>. QED BY <2>1, <2>2
<1>8. live[c].ops = w.ops
  <2>1. rows[c].ops \subseteq Members(rows[c])
    BY <1>2, WindowFields
  <2>2. live[c].ops = rows[c].ops \cap Members(w)
    BY <1>1, <1>6 DEF Copied
  <2>. QED BY <1>4, <2>1, <2>2
<1>9. live[c].invites = w.invites /\ live[c].closed = w.closed /\ live[c].born = w.born
  BY <1>1, <1>4 DEF Copied
<1>10. live[c] = [nick |-> w.nick, ops |-> w.ops, invites |-> w.invites,
                  closed |-> w.closed, born |-> w.born]
  BY <1>1, <1>7, <1>8, <1>9, WindowFields
<1>11. w = [nick |-> w.nick, ops |-> w.ops, invites |-> w.invites,
            closed |-> w.closed, born |-> w.born]
  BY WindowFields
<1>. QED BY <1>3, <1>10, <1>11

\* As long as the store answers every read and every departure it refuses is at
\* least marked, a live channel that is not what the store holds has a failure on
\* record or a member that is being discarded.
THEOREM DivergencesReported ==
  Spec /\ [](Unfailed /\ unmarked = {}) => []DivergenceReported
<1>1. Init => CopyInv
  <2>. SUFFICES ASSUME Init PROVE CopyInv
    OBVIOUS
  <2>1. \A c \in Channels : live[c] = NoChannel /\ gen[c] = 0 /\ rows[c] = NoChannel
    BY DEF Init
  <2>2. \A m \in Models : conn[m] = "none" /\ joining[m] = NoChannel
    BY ChannelsAssumption DEF Init, Actors
  <2>3. Rowless
    BY <2>1 DEF Rowless, Away, Members
  <2>. QED BY <2>1, <2>2, <2>3 DEF CopyInv, Copied, LeftBehind, ToLeave, Joiners
<1>2. Base /\ Base' /\ Fresh /\ AgreeInv /\ CopyInv /\ Unfailed /\ unmarked = {} /\ Unfailed'
      /\ [Next]_vars => CopyInv'
  <2>1. CASE Next
    BY <2>1, NextMoves, CopyStep DEF AgreeInv, Unfailed
  <2>2. CASE UNCHANGED vars
    BY <2>2 DEF CopyInv, Copied, LeftBehind, ToLeave, Leaving, Rowless, Away, Joiners,
                Resolves, vars, memory, durable
  <2>. QED BY <2>1, <2>2
<1>3. Base /\ AgreeInv /\ CopyInv /\ Unfailed /\ unmarked = {} => DivergenceReported
  BY CopyMeans DEF AgreeInv
<1>. QED BY <1>1, <1>2, <1>3, BaseCorrect, AgreeCorrect, PTL DEF Spec

=============================================================================
