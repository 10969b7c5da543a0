---------------------------- MODULE GateSessions ----------------------------
(***************************************************************************)
(* The client side of a gate: WebSocket connections and the frames their   *)
(* read loops handle (handler), the hub that maps users to connections and *)
(* rooms to users (session/hub), the write queue of a connection           *)
(* (session/writer), the session records in Redis (session/manager) and    *)
(* the pump that forwards room events (gateway/remote).                    *)
(*                                                                         *)
(* A read loop handles one frame after the other; several connections, the *)
(* pump and the writers run at once.  A session record is changed by a     *)
(* read and a later write, the hub under its lock in one step.             *)
(***************************************************************************)
EXTENDS Integers, FiniteSets, Sequences, SequencesExt

CONSTANTS
    Conns, Users, Rooms, None,
    Ids,            \* idempotency keys clients put on their requests
    CacheSize,      \* capacity of the idempotency cache
    QueueSize,      \* frames a write queue holds
    Timeout,        \* ticks until a heartbeat is too old
    MaxFrames,      \* bound: frames read in all
    MaxEvents       \* bound: events forwarded in all

(* A key in the cache is that of one kind of message and one user; "act"   *)
(* stands for every message but a leave and those of the lobby.            *)
Kinds == {"act", "leave", "match", "create"}
Keys == Kinds \X (Users \cup {None}) \X Ids

ASSUME NoneAssumption == None \notin Conns \cup Users \cup Rooms \cup Keys
ASSUME SizeAssumption == {CacheSize, QueueSize, Timeout} \subseteq Nat \ {0}
ASSUME BoundAssumption == {MaxFrames, MaxEvents} \subseteq Nat
ASSUME UsersAssumption == IsFiniteSet(Users)

VARIABLES
    conn,           \* per connection: its read loop and wsConnState
    alive,          \* connections whose client still runs
    queue,          \* per connection: frames waiting to be written
    writer,         \* connections in writerRegistry
    users, rooms, beat,     \* Hub: users, rooms, age of the last heartbeat
    session,        \* Redis: session records
    pump,           \* the event being forwarded
    cache,          \* IdemCache, most recent first
    frames, events,
    admitted,       \* history: users a room took in
    newest,         \* history: per user the connection registered last
    since,          \* history: per key what was touched since it ran
    twice           \* history: a key that ran again too soon

hub == <<users, rooms, beat>>
history == <<admitted, newest, since, twice>>
out == <<queue, writer>>
vars == <<conn, alive, out, hub, session, pump, cache, frames, events, history>>

-----------------------------------------------------------------------------
NoSession == [room |-> None, cursor |-> -1]
NewConn == [pc |-> "idle", sock |-> TRUE, user |-> None, room |-> None,
            arg |-> None, seen |-> NoSession]
NoPump == [todo |-> {}, who |-> None, seen |-> NoSession, seq |-> 0]

Init ==
    /\ conn = [c \in Conns |-> NewConn] /\ alive = Conns
    /\ queue = [c \in Conns |-> 0] /\ writer = {}
    /\ users = [u \in Users |-> None] /\ rooms = {} /\ beat = [u \in Users |-> -1]
    /\ session = [u \in Users |-> NoSession]
    /\ pump = NoPump /\ cache = <<>> /\ frames = 0 /\ events = 0
    /\ admitted = {} /\ newest = [u \in Users |-> None]
    /\ since = [k \in Keys |-> {None}] /\ twice = FALSE

Set(c, rec) == conn' = [conn EXCEPT ![c] = rec]
Goto(c, pc) == conn' = [conn EXCEPT ![c].pc = pc]
HasSession(u) == session[u].cursor >= 0

(* WriteBinary of an answer: a full queue drops it.                        *)
Answer(c) == /\ queue' = [queue EXCEPT ![c] = IF @ < QueueSize THEN @ + 1 ELSE @]
             /\ writer' = writer \cup {c}

(* A user id nobody was given before. *)
Fresh(u) == /\ ~HasSession(u) /\ beat[u] = -1 /\ \A r \in Rooms : <<r, u>> \notin admitted
            /\ \A c \in Conns : conn[c].user # u

-----------------------------------------------------------------------------
(* The hub.                                                                *)

Register(u, r, c) ==
    /\ users' = [users EXCEPT ![u] = c]
    /\ beat' = [beat EXCEPT ![u] = 0]
    /\ rooms' = rooms \cup {<<r, u>>}

(* unregisterLocked: only the room that is named is left.                  *)
Unregister(u, r) ==
    /\ users' = [users EXCEPT ![u] = None]
    /\ beat' = [beat EXCEPT ![u] = -1]
    /\ rooms' = rooms \ {<<r, u>>}

UnregisterAnyConn(u, r, c) == IF u # None THEN Unregister(u, r) ELSE UNCHANGED hub

(* UnregisterConn: nothing happens when a newer connection took over.      *)
UnregisterConn(u, r, c) ==
    IF u # None /\ users[u] = c THEN Unregister(u, r) ELSE UNCHANGED hub

(* A user whose connection takes no more frames, or who was silent.        *)
Forget(gone, fromRooms) ==
    /\ users' = [u \in Users |-> IF u \in gone THEN None ELSE users[u]]
    /\ beat' = [u \in Users |-> IF u \in gone THEN -1 ELSE beat[u]]
    /\ rooms' = {p \in rooms : ~(p[1] \in fromRooms /\ p[2] \in gone)}
    /\ newest' = [u \in Users |-> IF u \in gone THEN None ELSE newest[u]]

Expired == {u \in Users : beat[u] = Timeout}

(* CloseExpiredHeartbeats closes the sockets; their read loops will fail.  *)
CloseExpiredHeartbeats(c, next) ==
    /\ Forget(Expired, Rooms)
    /\ conn' = [d \in Conns |->
                  [(IF d = c THEN next ELSE conn[d]) EXCEPT
                     !.sock = @ /\ \A u \in Expired : users[u] # d]]

StoreNothing(k) == cache
StoreAtTheBack(k) ==
    IF k \in ToSet(cache) \/ Len(cache) = CacheSize THEN cache ELSE Append(cache, k)

(* SeenOrStore: a key that is known moves to the front, a new one is       *)
(* stored and may push the oldest out.                                     *)
SeenOrStore(k) ==
    LET known == k \in ToSet(cache)
        place == IF known THEN CHOOSE i \in DOMAIN cache : cache[i] = k ELSE Len(cache) + 1
        size  == IF known \/ Len(cache) = CacheSize THEN Len(cache) ELSE Len(cache) + 1
    IN  [i \in 1..size |-> IF i = 1 THEN k ELSE IF i <= place THEN cache[i - 1] ELSE cache[i]]

Seen(k) == k \in ToSet(cache)

UseKey(k) ==
    /\ cache' = SeenOrStore(k)
    /\ since' = [o \in Keys |->
                   IF o = k THEN (IF Seen(k) THEN since[k] ELSE {})
                   ELSE since[o] \cup {k}]
    /\ twice' = (twice \/ (~Seen(k) /\ None \notin since[k]
                           /\ Cardinality(since[k]) < CacheSize))

(* shouldDropRequest: a request without a key or with a new one passes,    *)
(* one whose key is known is dropped.                                      *)
Passes(c, kind) ==
    \/ UNCHANGED <<cache, since, twice>>
    \/ \E i \in Ids : ~Seen(<<kind, conn[c].user, i>>) /\ UseKey(<<kind, conn[c].user, i>>)
Dropped(c, kind) ==
    \E i \in Ids : Seen(<<kind, conn[c].user, i>>) /\ UseKey(<<kind, conn[c].user, i>>)

-----------------------------------------------------------------------------
(* The read loop: a frame is read, silent users are dropped, then its      *)
(* handler runs.                                                           *)
ReadFrame(c) ==
    /\ conn[c].pc = "idle" /\ conn[c].sock /\ c \in alive /\ frames < MaxFrames
    /\ frames' = frames + 1
    /\ CloseExpiredHeartbeats(c, [conn[c] EXCEPT !.pc = "frame"])
    /\ UNCHANGED <<alive, out, session, pump, cache, events, admitted, since, twice>>

(* handleLoginIssue: a new user on this connection, whoever used it before;*)
(* without a session when the store fails.                                 *)
LoginIssue(c) ==
    /\ conn[c].pc = "frame"
    /\ \E u \in Users :
        /\ Fresh(u)
        /\ Set(c, [conn[c] EXCEPT !.pc = "idle", !.user = u])
        /\ session' \in {session, [session EXCEPT ![u] = [room |-> None, cursor |-> 0]]}
    /\ Answer(c)
    /\ UNCHANGED <<alive, hub, pump, cache, frames, events, history>>

(* handleLoginResume: the session is read, the room asked for a snapshot,  *)
(* then the connection registered.                                         *)
LoginResume(c) ==
    /\ conn[c].pc = "frame"
    /\ \E u \in Users :
        /\ HasSession(u)
        /\ Set(c, [conn[c] EXCEPT !.pc = "resume", !.arg = u, !.seen = session[u]])
    /\ UNCHANGED <<alive, out, hub, session, pump, cache, frames, events, history>>

(* Resume of the gateway: the room answers with a snapshot, does not       *)
(* answer, or is over and its settlement is found.                         *)
Outcomes(r) == IF r = None THEN {"unbound"} ELSE {"resumed", "settled", "refused"}

LoginResumed(c) ==
    LET u == conn[c].arg
        r == conn[c].seen.room
        back == [conn[c] EXCEPT !.pc = "idle", !.arg = None, !.seen = NoSession]
    IN  /\ conn[c].pc = "resume"
        /\ \E how \in Outcomes(r) :
            /\ Set(c, IF how = "refused" THEN back ELSE [back EXCEPT !.user = u, !.room = r])
            /\ IF how = "resumed"
               THEN Register(u, r, c) /\ newest' = [newest EXCEPT ![u] = c]
               ELSE UNCHANGED <<hub, newest>>
        /\ Answer(c)
        /\ UNCHANGED <<alive, session, pump, cache, frames, events, admitted, since, twice>>

(* handleHeartbeat *)
Heartbeat(c) ==
    /\ conn[c].pc = "frame" /\ Goto(c, "idle") /\ Answer(c)
    /\ beat' = IF conn[c].user = None THEN beat ELSE [beat EXCEPT ![conn[c].user] = 0]
    /\ UNCHANGED <<alive, users, rooms, session, pump, cache, frames, events, history>>

(* Allow refuses: the request is dropped before its key is looked at.      *)
Limited(c) ==
    /\ conn[c].pc = "frame" /\ Goto(c, "idle")
    /\ UNCHANGED <<alive, out, hub, session, pump, cache, frames, events, history>>

(* handleListRooms and handleListRules.                                    *)
Ask(c) ==
    /\ conn[c].pc = "frame" /\ Goto(c, "idle") /\ Answer(c)
    /\ UNCHANGED <<alive, hub, session, pump, cache, frames, events, history>>

(* Rooms.Join takes the user in or refuses; the connection points to the   *)
(* room in either case.                                                    *)
AskRoom(c, r) ==
    \/ /\ Set(c, [conn[c] EXCEPT !.room = r, !.pc = "bind"])
       /\ admitted' = admitted \cup {<<r, conn[c].user>>} /\ UNCHANGED out
    \/ Set(c, [conn[c] EXCEPT !.room = r, !.pc = "idle"]) /\ Answer(c) /\ UNCHANGED admitted

(* handleJoinRoom *)
JoinRoom(c) ==
    /\ conn[c].pc = "frame" /\ conn[c].user # None
    /\ \E r \in Rooms : AskRoom(c, r)
    /\ UNCHANGED <<alive, hub, session, pump, cache, frames, events, newest, since,
                   twice>>

(* The lobby names the room; a refusal leaves the connection where it was. *)
EnterByLobby(c, kind, rs) ==
    /\ conn[c].pc = "frame" /\ conn[c].user # None
    /\ \/ /\ Passes(c, kind)
          /\ \/ \E r \in rs :
                  /\ Set(c, [conn[c] EXCEPT !.room = r, !.pc = "bind"])
                  /\ admitted' = admitted \cup {<<r, conn[c].user>>} /\ UNCHANGED out
             \/ Goto(c, "idle") /\ Answer(c) /\ UNCHANGED admitted
       \/ Dropped(c, kind) /\ Goto(c, "idle") /\ UNCHANGED <<out, admitted>>
    /\ UNCHANGED <<alive, hub, session, pump, frames, events, newest>>

(* handleAutoMatch, handleCreateRoom: any open room, or one of its own.    *)
AutoMatch(c) == EnterByLobby(c, "match", Rooms)
CreateRoom(c) ==
    EnterByLobby(c, "create", {r \in Rooms : \A u \in Users : <<r, u>> \notin admitted})

(* BindRoom: read the session, write it with the room; without a session   *)
(* the request fails.                                                      *)
BindRead(c) ==
    /\ conn[c].pc = "bind"
    /\ IF HasSession(conn[c].user)
       THEN Set(c, [conn[c] EXCEPT !.pc = "bound", !.seen = session[conn[c].user]])
            /\ UNCHANGED out
       ELSE Goto(c, "idle") /\ Answer(c)
    /\ UNCHANGED <<alive, hub, session, pump, cache, frames, events, history>>

BindWrite(c) ==
    LET u == conn[c].user IN
    /\ conn[c].pc = "bound"
    /\ session' = [session EXCEPT ![u] = [conn[c].seen EXCEPT !.room = conn[c].room]]
    /\ Set(c, [conn[c] EXCEPT !.pc = "register", !.seen = NoSession])
    /\ UNCHANGED <<alive, out, hub, pump, cache, frames, events, history>>

(* bindJoinedRoom ends with the registration and the answer.               *)
Enter(c) ==
    LET u == conn[c].user IN
    /\ conn[c].pc = "register" /\ Goto(c, "idle")
    /\ Register(u, conn[c].room, c) /\ Answer(c)
    /\ newest' = [newest EXCEPT ![u] = c]
    /\ UNCHANGED <<alive, session, pump, cache, frames, events, admitted, since,
                   twice>>

(* shouldDropRequest, then the call: handleReady, handleOpeningAction,     *)
(* handleDiscard, handleAddBot and the other moves.                        *)
Act(c) ==
    /\ conn[c].pc = "frame" /\ Goto(c, "idle")
    /\ conn[c].room # None /\ conn[c].user # None
    /\ \/ Passes(c, "act") /\ Answer(c)
       \/ Dropped(c, "act") /\ UNCHANGED out
    /\ UNCHANGED <<alive, hub, session, pump, frames, events, admitted, newest>>

(* handleLeaveRoom: the room lets the user go, the hub forgets the user    *)
(* and the session the room; or the room refuses.                          *)
LeaveRoom(c) ==
    LET u == conn[c].user IN
    /\ conn[c].pc = "frame"
    /\ \/ /\ conn[c].room # None /\ u # None /\ Passes(c, "leave")
          /\ Set(c, [conn[c] EXCEPT !.room = None, !.pc = "unbind"])
          /\ Unregister(u, conn[c].room)
          /\ newest' = [newest EXCEPT ![u] = None]
          /\ UNCHANGED out
       \/ Passes(c, "leave") /\ Goto(c, "idle") /\ Answer(c) /\ UNCHANGED <<hub, newest>>
       \/ Dropped(c, "leave") /\ Goto(c, "idle") /\ UNCHANGED <<out, hub, newest>>
    /\ UNCHANGED <<alive, session, pump, frames, events, admitted>>

UnbindRead(c) ==
    /\ conn[c].pc = "unbind"
    /\ IF HasSession(conn[c].user)
       THEN Set(c, [conn[c] EXCEPT !.pc = "unbound", !.seen = session[conn[c].user]])
            /\ UNCHANGED out
       ELSE Goto(c, "idle") /\ Answer(c)
    /\ UNCHANGED <<alive, hub, session, pump, cache, frames, events, history>>

UnbindWrite(c) ==
    /\ conn[c].pc = "unbound"
    /\ session' = [session EXCEPT ![conn[c].user] = [conn[c].seen EXCEPT !.room = None]]
    /\ Set(c, [conn[c] EXCEPT !.pc = "idle", !.seen = NoSession]) /\ Answer(c)
    /\ UNCHANGED <<alive, hub, pump, cache, frames, events, history>>

-----------------------------------------------------------------------------
(* The client goes away; its connection is noticed by a failing read, a    *)
(* closed socket or the read timeout.                                      *)
ClientDies(c) ==
    /\ c \in alive /\ alive' = alive \ {c}
    /\ UNCHANGED <<conn, out, hub, session, pump, cache, frames, events, history>>

NoReadDeadline(c) ==
    /\ conn[c].pc = "idle" /\ ~conn[c].sock
    /\ Goto(c, "offline")
    /\ UNCHANGED <<alive, out, hub, session, pump, cache, frames, events, history>>

ReadFails(c) ==
    /\ conn[c].pc = "idle" /\ (c \notin alive \/ ~conn[c].sock)
    /\ Goto(c, "offline")
    /\ UNCHANGED <<alive, out, hub, session, pump, cache, frames, events, history>>

(* CloseConn: a running writer is ended, and then writes what is queued;   *)
(* only a connection without one is closed here.                           *)
CloseConn(c) == [conn[c] EXCEPT !.pc = "closed", !.sock = @ /\ c \in writer]

(* The deferred end of HandleWebSocket, after MarkSeatOffline was called.  *)
Cleanup(c) ==
    /\ conn[c].pc = "offline"
    /\ UnregisterConn(conn[c].user, conn[c].room, c)
    /\ newest' = [u \in Users |-> IF newest[u] = c THEN None ELSE newest[u]]
    /\ Set(c, CloseConn(c))
    /\ writer' = writer \ {c}
    /\ UNCHANGED <<alive, queue, session, pump, cache, frames, events, admitted, since,
                   twice>>

(* connWriter.run: a frame goes out, or the write fails and the writer     *)
(* ends with the connection, unless CloseConn was first.                   *)
WriteOut(c) ==
    /\ queue[c] > 0
    /\ \/ conn[c].sock /\ queue' = [queue EXCEPT ![c] = @ - 1] /\ UNCHANGED <<conn, writer>>
       \/ /\ ~conn[c].sock \/ c \notin alive
          /\ queue' = [queue EXCEPT ![c] = 0] /\ writer' = writer \ {c}
          /\ conn' = [conn EXCEPT ![c].sock = @ /\ c \notin writer]
    /\ UNCHANGED <<alive, hub, session, pump, cache, frames, events, history>>

-----------------------------------------------------------------------------
(* forwardEventToHub: WriteBinary for every user meant; a full queue costs *)
(* the user the connection.  Then the cursor of each user that got it.     *)
Reached(to, got) ==
    LET more(c) == Cardinality({u \in got : users[u] = c}) IN
    /\ \A u \in got : users[u] # None
    /\ \A c \in Conns : queue[c] + more(c) <= QueueSize
    /\ \A u \in to \ got : users[u] # None => queue[users[u]] + more(users[u]) = QueueSize

Deliver(to, fromRooms) ==
    /\ pump.todo = {} /\ pump.who = None /\ events < MaxEvents
    /\ events' = events + 1
    /\ \E got \in SUBSET to :
        /\ Reached(to, got)
        /\ queue' = [c \in Conns |-> queue[c] + Cardinality({u \in got : users[u] = c})]
        /\ writer' = writer \cup ({users[u] : u \in to} \ {None})
        /\ Forget(to \ got, fromRooms)
        /\ pump' = [NoPump EXCEPT !.todo = got, !.seq = events + 1]
    /\ UNCHANGED <<conn, alive, session, cache, frames, admitted, since, twice>>

BroadcastDeliveredUsers(r) == Deliver({p[2] : p \in {q \in rooms : q[1] = r}}, {r})

SendToUser(u) == users[u] # None /\ Deliver({u}, Rooms)

(* UpdateCursor: a read and a write of the session.                        *)
CursorRead ==
    /\ pump.who = None
    /\ \E u \in pump.todo :
        pump' = IF HasSession(u) THEN [pump EXCEPT !.who = u, !.seen = session[u]]
                ELSE [pump EXCEPT !.todo = @ \ {u}]
    /\ UNCHANGED <<conn, alive, out, hub, session, cache, frames, events, history>>

CursorWrite ==
    /\ pump.who # None
    /\ session' = [session EXCEPT ![pump.who] = [pump.seen EXCEPT !.cursor = pump.seq]]
    /\ pump' = [NoPump EXCEPT !.todo = pump.todo \ {pump.who}, !.seq = pump.seq]
    /\ UNCHANGED <<conn, alive, out, hub, cache, frames, events, history>>

(* CloseAll: the gate stops, its transport already has.                    *)
CloseAll ==
    /\ pump.todo = {} /\ pump.who = None /\ events < MaxEvents /\ events' = MaxEvents
    /\ Forget(Users, Rooms)
    /\ conn' = [c \in Conns |-> [conn[c] EXCEPT !.sock = @ /\ \A u \in Users : users[u] # c]]
    /\ UNCHANGED <<alive, out, session, pump, cache, frames, admitted, since, twice>>

Tick ==
    /\ \E u \in Users : beat[u] \in 0..(Timeout - 1)
    /\ beat' = [u \in Users |-> IF beat[u] \in 0..(Timeout - 1) THEN beat[u] + 1 ELSE beat[u]]
    /\ UNCHANGED <<conn, alive, out, users, rooms, session, pump, cache, frames, events,
                   history>>

-----------------------------------------------------------------------------
(* What a read loop does without waiting for its client.                   *)
Handle(c) ==
    \/ LoginIssue(c) \/ LoginResume(c) \/ LoginResumed(c) \/ Heartbeat(c) \/ Limited(c) \/ Ask(c)
    \/ JoinRoom(c) \/ AutoMatch(c) \/ CreateRoom(c) \/ BindRead(c) \/ BindWrite(c) \/ Enter(c)
    \/ Act(c) \/ LeaveRoom(c) \/ UnbindRead(c) \/ UnbindWrite(c)
    \/ ReadFails(c) \/ Cleanup(c)

Next ==
    \/ \E c \in Conns : ReadFrame(c) \/ Handle(c) \/ ClientDies(c) \/ WriteOut(c)
    \/ \E r \in Rooms : BroadcastDeliveredUsers(r)
    \/ \E u \in Users : SendToUser(u)
    \/ CursorRead \/ CursorWrite \/ CloseAll \/ Tick

(* The goroutine of a connection is scheduled; the read deadline passes.   *)
Fairness == \A c \in Conns : WF_vars(Handle(c))

Spec == Init /\ [][Next]_vars /\ Fairness

-----------------------------------------------------------------------------
Sessions == [room : Rooms \cup {None}, cursor : {-1} \cup Nat]
ConnStates ==
    [pc : {"idle", "frame", "resume", "bind", "bound", "register", "unbind", "unbound",
           "offline", "closed"},
     sock : BOOLEAN, user : Users \cup {None}, room : Rooms \cup {None},
     arg : Users \cup {None}, seen : Sessions]
PumpStates == [todo : SUBSET Users, who : Users \cup {None}, seen : Sessions, seq : Nat]

TypeOK ==
    /\ conn \in [Conns -> ConnStates] /\ alive \subseteq Conns
    /\ queue \in [Conns -> 0..QueueSize] /\ writer \subseteq Conns
    /\ users \in [Users -> Conns \cup {None}]
    /\ rooms \subseteq Rooms \X Users
    /\ beat \in [Users -> -1..Timeout]
    /\ session \in [Users -> Sessions] /\ pump \in PumpStates
    /\ cache \in Seq(Keys) /\ Len(cache) <= CacheSize
    /\ frames \in 0..MaxFrames /\ events \in 0..MaxEvents
    /\ admitted \subseteq Rooms \X Users
    /\ newest \in [Users -> Conns \cup {None}]
    /\ since \in [Keys -> SUBSET (Keys \cup {None})] /\ twice \in BOOLEAN

(* The cleanup of an old connection never takes the registration of the    *)
(* one the user came back with (UnregisterConn): a connection that was     *)
(* registered last stays so until its user leaves, falls silent, cannot be *)
(* written to or disconnects.                                              *)
NewestStaysRegistered == \A u \in Users : newest[u] # None => users[u] = newest[u]

(* A connection whose read loop ended, and whose writer is closed, is not  *)
(* in the hub for the user it served: nothing is written to it again.      *)
ClosedIsForgotten ==
    \A c \in Conns, u \in Users :
        conn[c].pc = "closed" /\ conn[c].user = u => users[u] # c

(* Every registered user has a heartbeat that can expire: no connection    *)
(* stays in the hub for ever (Register, TouchHeartbeat, the removals).     *)
RegisteredHasHeartbeat == \A u \in Users : users[u] # None => beat[u] >= 0

(* Only a user a room took in is registered for its frames, by a join, by  *)
(* the lobby or by the session a resume reads.                             *)
RegisteredWasAdmitted == rooms \subseteq admitted

(* A session names only a room that took its user in, and so does every    *)
(* copy of one that a handler or the pump read and will write back or      *)
(* resume from (BindRoom, ClearRoom, UpdateCursor, Resume).                *)
NamesAdmitted(u, rec) == rec.room # None => <<rec.room, u>> \in admitted
HandlerFits(rec) ==
    /\ rec.pc \in {"bind", "bound", "register"} => <<rec.room, rec.user>> \in admitted
    /\ rec.pc \in {"unbind", "unbound"} => rec.user # None
    /\ rec.pc = "resume" => rec.arg # None /\ NamesAdmitted(rec.arg, rec.seen)
RecordsAdmitted ==
    /\ \A u \in Users : NamesAdmitted(u, session[u])
    /\ pump.who # None => NamesAdmitted(pump.who, pump.seen)
    /\ \A c \in Conns : HandlerFits(conn[c])

(* The cache holds a key until as many others as it has room for were used *)
(* since the key ran: older places hold the keys used longer ago, and a    *)
(* key it does not hold is new or was pushed out by that many.             *)
CacheInOrder ==
    /\ IsInjective(cache) /\ \A k \in Keys : IsFiniteSet(since[k])
    /\ \A i \in DOMAIN cache : None \notin since[cache[i]]
    /\ \A i, j \in DOMAIN cache : i < j => cache[i] \in since[cache[j]]
    /\ \A k \in Keys : k \notin ToSet(cache) =>
         None \in since[k] \/ Cardinality(since[k]) >= CacheSize

(* A request with a key runs once, unless so many other keys came in       *)
(* between that the cache lost it (shouldDropRequest, SeenOrStore).        *)
KeyRunsOnce == ~twice

(* A client that is gone is forgotten: its read loop ends and the hub no   *)
(* longer holds its connection for its user.                               *)
DeadClientForgotten ==
    \A c \in Conns : c \notin alive ~>
        (conn[c].pc = "closed" /\ \A u \in Users : conn[c].user = u => users[u] # c)

(* The hub always holds the newest connection of a user that a room took   *)
(* in, with a heartbeat, and no closed one; sessions name only rooms that  *)
(* took their user in, and the cache keeps its order.                      *)
HubInv ==
    /\ TypeOK /\ NewestStaysRegistered /\ ClosedIsForgotten
    /\ RegisteredHasHeartbeat /\ RegisteredWasAdmitted
    /\ RecordsAdmitted /\ CacheInOrder
=============================================================================
