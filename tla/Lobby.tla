-------------------------------- MODULE Lobby --------------------------------
(***************************************************************************)
(* How a player gets a seat in a room of the cluster.  The gate's remote   *)
(* gateway calls the lobby by gRPC (CreateRoom, JoinRoom, LeaveRoom,       *)
(* AddBot, ListRooms), the lobby service changes its table of rooms under  *)
(* its mutex, writes the record to Redis after it has let the mutex go,    *)
(* and claims the room for a room node in etcd with a read followed by a   *)
(* compare-and-set; a creation whose claim fails is rolled back.           *)
(*                                                                         *)
(* A call of the gateway times out after two seconds and is sent again     *)
(* while the first attempt is still running in the lobby, with a cancelled *)
(* context: it still changes the table, but its writes to Redis and etcd   *)
(* fail.  The lobby may stop at any moment and start from what Redis has.  *)
(***************************************************************************)
EXTENDS Integers, FiniteSets, Sequences, TLC, Functions, FiniteSetsExt

CONSTANTS Users, Rooms,   \* players; the room numbers the lobby may draw
          Nodes, Local,   \* room nodes; the fixed one, "room-local"
          Slots,          \* requests the lobby works on at one time
          Tries,          \* attempts of a call (8 in retryGRPC)
          None,           \* no node, no room, no list
          Privates,       \* whether a room may be created private
          BotCounts,      \* numbers of bots a client asks for
          MaxOps,         \* bound: calls the players make
          MaxFaults       \* bound: time-outs, failures of Redis or etcd,
                          \*   leases that end, restarts of the lobby

ASSUME LobbyAssumption ==
    /\ BotCounts \subseteq Nat \ {0} /\ Privates \subseteq BOOLEAN
    /\ Local \in Nodes /\ None \notin Nodes \cup Rooms
    /\ Tries \in Nat \ {0} /\ Slots \in SUBSET Nat /\ 0 \notin Slots
    /\ \A s \in 0..3 : <<"bot", s>> \notin Users

VARIABLES rooms,     \* Service.rooms: room -> record
          registry,  \* the Redis hash of lobby rooms
          owner,     \* the owner keys in etcd
          nodes,     \* room nodes whose lease is alive
          rpc,       \* requests being handled by the lobby
          gw,        \* the call each player's connection is making
          told,      \* history: the seat rememberRoomSeat was last called with
                     \*   and the player has not asked to leave since; the
                     \*   gateway's own roomSeats goes on holding it
          lost,      \* history: seats that go without a word to the player,
                     \*   of rooms rolled back and by leaves that broke off
          restarted, \* the lobby has restarted
          spent      \* bounds: calls made, faults met

vars == <<rooms, registry, owner, nodes, rpc, gw, told, lost, restarted, spent>>

Seats == 0..3
NoSeat == -1
Failed == -2
BotMax == 3
Bot(s) == <<"bot", s>>
Members == Users \cup {Bot(s) : s \in Seats}
Empty == [x \in {} |-> 0]
IdleRpc == [kind |-> "none", pc |-> "idle"]
IdleGw == [op |-> "none", pc |-> "idle"]

Init ==
    /\ rooms = Empty /\ registry = Empty
    /\ owner = [r \in Rooms |-> None] /\ nodes = Nodes
    /\ rpc = [i \in Slots |-> IdleRpc] /\ gw = [u \in Users |-> IdleGw]
    /\ told = [u \in Users |-> [r \in Rooms |-> NoSeat]]
    /\ lost = {} /\ restarted = FALSE
    /\ spent = [ops |-> 0, faults |-> 0]

-----------------------------------------------------------------------------
(* The lobby service: what happens to the table under the mutex.           *)

\* ensureRoomLocked: a fresh record, created after all the others.
EnsureRoom(private) ==
    [seats |-> Empty, private |-> private,
     at |-> 1 + Max({0} \cup {rooms[r].at : r \in DOMAIN rooms})]

FreeSeats(seats) == Seats \ Range(seats)
Put(f, x, v) == [y \in DOMAIN f \cup {x} |-> IF y = x THEN v ELSE f[y]]

\* JoinRoom on a record: the seat the user has, or the lowest free one.
Seated(rec, m) ==
    IF m \in DOMAIN rec.seats \/ FreeSeats(rec.seats) = {} THEN rec
    ELSE [rec EXCEPT !.seats = Put(@, m, Min(FreeSeats(rec.seats)))]

BotsIn(seats) == Cardinality({m \in DOMAIN seats : m \notin Users})

\* AddBot on a record: the lowest free seats, as long as there are seats and
\* fewer than three bots.
WithBots(rec, count) ==
    LET n == Min({count, Cardinality(FreeSeats(rec.seats)), BotMax - BotsIn(rec.seats)})
        taken == CHOOSE S \in SUBSET FreeSeats(rec.seats) :
                    /\ Cardinality(S) = n
                    /\ \A s \in S, t \in FreeSeats(rec.seats) \ S : s < t
    IN [rec EXCEPT !.seats = [m \in DOMAIN @ \cup {Bot(s) : s \in taken} |->
                                 IF m \in DOMAIN @ THEN @[m] ELSE m[2]]]

\* ListRooms: the public rooms with a free seat, oldest first; rooms of the
\* same age in either order.
ListRooms ==
    LET open == {r \in DOMAIN rooms : /\ ~rooms[r].private
                                      /\ FreeSeats(rooms[r].seats) # {}}
    IN {l \in [1..Cardinality(open) -> open] :
          /\ Range(l) = open
          /\ \A i, j \in DOMAIN l : i < j => rooms[l[i]].at <= rooms[l[j]].at}

-----------------------------------------------------------------------------
(* One request in the lobby, from the handler's start to its answer.       *)

\* The state of request i after its handler has done a step; the answer to a
\* caller that has given up is thrown away.
Step(i, q) ==
    rpc' = [rpc EXCEPT ![i] =
              IF q.pc = "done" THEN IF q.live THEN [q EXCEPT !.rec = Empty, !.node = None]
                                    ELSE IdleRpc
              ELSE [q EXCEPT !.private = FALSE, !.count = 0,
                             !.rec = IF q.pc = "persist" THEN @ ELSE Empty]]
At(i, pc) == rpc[i].pc = pc

\* A call to Redis or etcd goes through unless the request's context has been
\* cancelled, and may fail by itself.
Fault == spent.faults < MaxFaults /\ spent' = [spent EXCEPT !.faults = @ + 1]
Succeeds(i) == rpc[i].live /\ UNCHANGED spent
Fails(i) == \/ ~rpc[i].live /\ UNCHANGED spent
            \/ rpc[i].live /\ Fault

\* selectNodeID: a node from the registry, of those with the fewest rooms by
\* their own last report; the fixed node when the registry has none.
Selectable == IF nodes = {} THEN {Local} ELSE nodes

\* CreateRoom with a creator: the node is chosen, the room made and its
\* creator seated; no room number left is an error.
LobbyCreate(i) ==
    /\ At(i, "start") /\ rpc[i].kind = "create"
    /\ \/ /\ DOMAIN rooms = Rooms
          /\ Step(i, [rpc[i] EXCEPT !.pc = "done"]) /\ UNCHANGED rooms
       \/ \E r \in Rooms \ DOMAIN rooms, n \in Selectable :
             LET rec == Seated(EnsureRoom(rpc[i].private), rpc[i].user)
             IN /\ rooms' = Put(rooms, r, rec)
                /\ Step(i, [rpc[i] EXCEPT !.pc = "persist", !.room = r, !.node = n,
                                          !.rec = rec, !.res = 0])
    /\ UNCHANGED <<registry, owner, nodes, gw, told, lost, restarted, spent>>

\* Slip: the room is made whether it exists or not.
JoinMakesRoom(i) ==
    /\ At(i, "start") /\ rpc[i].kind = "join"
    /\ LET rec == Seated(EnsureRoom(FALSE), rpc[i].user)
       IN /\ rooms' = Put(rooms, rpc[i].room, rec)
          /\ Step(i, [rpc[i] EXCEPT !.pc = "persist", !.node = Local, !.rec = rec, !.res = 0])
    /\ UNCHANGED <<registry, owner, nodes, gw, told, lost, restarted, spent>>

\* JoinRoom: makes a missing room, gives back the seat the user has, refuses a
\* full room.
LobbyJoin(i) ==
    /\ At(i, "start") /\ rpc[i].kind = "join"
    /\ LET r == rpc[i].room
           old == IF r \in DOMAIN rooms THEN rooms[r] ELSE EnsureRoom(FALSE)
           rec == Seated(old, rpc[i].user)
           here == rpc[i].user \in DOMAIN rec.seats
       IN /\ rooms' = Put(rooms, r, rec)
          /\ Step(i, [rpc[i] EXCEPT
                        !.pc = IF ~here THEN "done" ELSE IF rec = old THEN "get" ELSE "persist",
                        !.node = Local, !.rec = rec,
                        !.res = IF here THEN rec.seats[rpc[i].user] ELSE Failed])
    /\ UNCHANGED <<registry, owner, nodes, gw, told, lost, restarted, spent>>

\* LeaveRoom: drops the user from the record; the room stays.
LobbyLeave(i) ==
    /\ At(i, "start") /\ rpc[i].kind = "leave"
    /\ LET r == rpc[i].room IN
       IF r \notin DOMAIN rooms
       THEN Step(i, [rpc[i] EXCEPT !.pc = "done"]) /\ UNCHANGED rooms
       ELSE LET rec == [rooms[r] EXCEPT !.seats = Restrict(@, DOMAIN @ \ {rpc[i].user})]
            IN /\ rooms' = Put(rooms, r, rec)
               /\ Step(i, [rpc[i] EXCEPT !.pc = "persist", !.rec = rec, !.res = 0])
    /\ UNCHANGED <<registry, owner, nodes, gw, told, lost, restarted, spent>>

\* AddBot: nothing is written when nothing was added.
LobbyAddBot(i) ==
    /\ At(i, "start") /\ rpc[i].kind = "bots"
    /\ LET r == rpc[i].room IN
       IF r \notin DOMAIN rooms
       THEN Step(i, [rpc[i] EXCEPT !.pc = "done"]) /\ UNCHANGED rooms
       ELSE LET rec == WithBots(rooms[r], rpc[i].count)
            IN /\ rooms' = Put(rooms, r, rec)
               /\ Step(i, [rpc[i] EXCEPT !.rec = rec, !.res = 0,
                             !.pc = IF rec = rooms[r] THEN "done" ELSE "persist"])
    /\ UNCHANGED <<registry, owner, nodes, gw, told, lost, restarted, spent>>

\* persistUpsert: outside the mutex, the record as it was when the mutex was
\* let go; a failure is only logged.
PersistUpsert(i) ==
    /\ At(i, "persist")
    /\ \/ Succeeds(i) /\ registry' = Put(registry, rpc[i].room, rpc[i].rec)
       \/ Fails(i) /\ UNCHANGED registry
    /\ Step(i, [rpc[i] EXCEPT !.pc = IF rpc[i].kind \in {"create", "join"}
                                     THEN "get" ELSE "done"])
    /\ UNCHANGED <<rooms, owner, nodes, gw, told, lost, restarted>>

\* Slip: the handler answers as if the claim had been made.
ClaimIgnored(q) == [q EXCEPT !.pc = "done"]

\* What a handler does when its claim has failed: a creation is rolled back, a
\* join answers with an error and leaves the seat taken.
ClaimFailed(q) ==
    [q EXCEPT !.res = Failed, !.pc = IF q.kind = "create" THEN "delete" ELSE "done"]

\* ClaimRoom, first half: the owner is read; its own room is fine.
ClaimGet(i) ==
    /\ At(i, "get")
    /\ \/ /\ Succeeds(i)
          /\ Step(i, [rpc[i] EXCEPT !.pc = IF owner[rpc[i].room] = rpc[i].node
                                           THEN "done" ELSE "txn"])
       \/ Fails(i) /\ Step(i, ClaimFailed(rpc[i]))
    /\ UNCHANGED <<rooms, registry, owner, nodes, gw, told, lost, restarted>>

\* ClaimRoom, second half: put if the key does not exist.  An error may hide a
\* put that was made.
ClaimTxn(i) ==
    /\ At(i, "txn")
    /\ LET r == rpc[i].room
           put == [owner EXCEPT ![r] = IF @ = None THEN rpc[i].node ELSE @]
       IN \/ /\ Succeeds(i) /\ owner' = put
             /\ Step(i, IF owner[r] = None THEN [rpc[i] EXCEPT !.pc = "done"]
                        ELSE ClaimFailed(rpc[i]))
          \/ Fails(i) /\ owner' \in {owner, put} /\ Step(i, ClaimFailed(rpc[i]))
    /\ UNCHANGED <<rooms, registry, nodes, gw, told, lost, restarted>>

\* DeleteRoom, under the mutex: whoever is seated by now goes with the room.
DeleteRoom(i) ==
    /\ At(i, "delete")
    /\ rooms' = Restrict(rooms, DOMAIN rooms \ {rpc[i].room})
    /\ lost' = lost \cup (Users \X {rpc[i].room})
    /\ Step(i, [rpc[i] EXCEPT !.pc = "forget"])
    /\ UNCHANGED <<registry, owner, nodes, gw, told, restarted, spent>>

\* DeleteRoom, after the mutex: the record in Redis.
DeleteRecord(i) ==
    /\ At(i, "forget")
    /\ \/ Succeeds(i) /\ registry' = Restrict(registry, DOMAIN registry \ {rpc[i].room})
       \/ Fails(i) /\ UNCHANGED registry
    /\ Step(i, [rpc[i] EXCEPT !.pc = "done"])
    /\ UNCHANGED <<rooms, owner, nodes, gw, told, lost, restarted>>

\* The process stops and starts again: RecoverFromRegistry fills the table, or
\* leaves it empty when Redis does not answer.
LobbyRestart ==
    /\ Fault /\ restarted' = TRUE
    /\ rooms' \in {registry, Empty}
    /\ rpc' = [i \in Slots |-> IdleRpc]
    /\ gw' = [u \in Users |-> IF gw[u].pc = "wait" THEN [gw[u] EXCEPT !.id = 0] ELSE gw[u]]
    /\ UNCHANGED <<registry, owner, nodes, told, lost>>

-----------------------------------------------------------------------------
(* The room nodes' registration in etcd.                                   *)

\* A lease that is not renewed in time takes the node's key with it; keepAlive
\* only logs the failure.  Stop revokes the lease.
LeaseEnds(n) ==
    /\ n \in nodes /\ nodes' = nodes \ {n} /\ Fault
    /\ UNCHANGED <<rooms, registry, owner, rpc, gw, told, lost, restarted>>

\* RegisterAndKeepAlive: only at the start of the process.
Register(n) ==
    /\ n \notin nodes /\ nodes' = nodes \cup {n}
    /\ UNCHANGED <<rooms, registry, owner, rpc, gw, told, lost, restarted, spent>>

\* roomAddressForRoom: the owner is in etcd and its node is registered, or is
\* the fixed one, whose address the gate knows.
Routable(r) == owner[r] # None /\ (owner[r] \in nodes \/ owner[r] = Local)

-----------------------------------------------------------------------------
(* The gateway's side of a call.                                           *)

\* Sends request c of player u.
Send(u, c, slots) ==
    LET free == {j \in Slots : slots[j].pc = "idle"}
        i == Min(free)
    IN /\ free # {}
       /\ gw' = [gw EXCEPT ![u] = [c EXCEPT !.id = i, !.pc = "wait"]]
       /\ rpc' = [slots EXCEPT ![i] =
            [kind |-> c.kind, user |-> u, room |-> c.room, private |-> c.private,
             count |-> c.count, pc |-> "start", live |-> TRUE, node |-> None,
             rec |-> Empty, res |-> Failed]]

Call(op, kind, r) ==
    [op |-> op, kind |-> kind, room |-> r, private |-> FALSE, count |-> 0,
     try |-> 1, left |-> <<>>, seat |-> NoSeat, id |-> 0, pc |-> "wait"]

\* Slip: AutoMatch tries the same room again.
MatchSame(u, left, slots) ==
    Send(u, IF left = <<>> THEN Call("create", "create", None)
            ELSE [Call("match", "join", Head(left)) EXCEPT !.left = left], slots)

\* AutoMatch: the next room of the list, and a room of one's own at its end.
MatchNext(u, left, slots) ==
    Send(u, IF left = <<>> THEN Call("create", "create", None)
            ELSE [Call("match", "join", Head(left)) EXCEPT !.left = Tail(left)], slots)

\* A player's connection makes a call: CreateRoom, Join, Leave, AddBot or
\* AutoMatch, which begins with the list of rooms.
Begin(u) ==
    /\ gw[u].pc = "idle" /\ spent.ops < MaxOps
    /\ spent' = [spent EXCEPT !.ops = @ + 1]
    /\ \/ \E p \in Privates : Send(u, [Call("create", "create", None) EXCEPT !.private = p], rpc)
          /\ UNCHANGED told
       \/ \E r \in Rooms : Send(u, Call("join", "join", r), rpc) /\ UNCHANGED told
       \/ \E r \in Rooms : /\ Send(u, Call("leave", "leave", r), rpc)
                           /\ told' = [told EXCEPT ![u][r] = NoSeat]
       \/ \E r \in Rooms, n \in BotCounts :
             Send(u, [Call("bots", "bots", r) EXCEPT !.count = n], rpc) /\ UNCHANGED told
       \/ \E l \in ListRooms : MatchNext(u, l, rpc) /\ UNCHANGED told
    /\ UNCHANGED <<rooms, registry, owner, nodes, lost, restarted>>

\* The call has no answer to give: an error to the player, or the next room of
\* the list when it was one of AutoMatch's joins.
GiveUp(u, slots) ==
    IF gw[u].op = "match" THEN MatchNext(u, gw[u].left, slots)
    ELSE rpc' = slots /\ gw' = [gw EXCEPT ![u] = IdleGw]

\* retryGRPC: an attempt that took too long, or that the lobby's end cut off,
\* is made again up to the last attempt.  LeaveRoom and AddBot have no time-out
\* and are not retried: the transport breaks and the call fails, while the
\* request still runs.
Unanswered(u) ==
    /\ gw[u].pc = "wait"
    /\ IF gw[u].id = 0 THEN UNCHANGED spent ELSE Fault
    /\ LET i == gw[u].id
           slots == IF i = 0 THEN rpc
                    ELSE [rpc EXCEPT ![i] = IF @.pc = "done" THEN IdleRpc
                                            ELSE [@ EXCEPT !.live = FALSE]]
       IN IF gw[u].kind \in {"create", "join"} /\ gw[u].try < Tries
          THEN Send(u, [gw[u] EXCEPT !.try = @ + 1], slots)
          ELSE GiveUp(u, slots)
    /\ lost' = IF gw[u].kind = "leave" THEN lost \cup {<<u, gw[u].room>>} ELSE lost
    /\ UNCHANGED <<rooms, registry, owner, nodes, told, restarted>>

\* The lobby's answer.  A seat is remembered and announced, except in
\* AutoMatch, which first looks at the room itself.
Reply(u) ==
    /\ gw[u].pc = "wait" /\ gw[u].id # 0 /\ rpc[gw[u].id].pc = "done"
    /\ LET q == rpc[gw[u].id]
           slots == [rpc EXCEPT ![gw[u].id] = IdleRpc]
           ok == q.res # Failed
       IN IF gw[u].op = "match" /\ q.kind = "join" /\ ok
          THEN /\ gw' = [gw EXCEPT ![u].pc = "probe", ![u].seat = q.res]
               /\ rpc' = slots /\ UNCHANGED told
          ELSE /\ GiveUp(u, slots)
               /\ told' = IF ok /\ q.kind \in {"create", "join"}
                          THEN [told EXCEPT ![u][q.room] = q.res] ELSE told
    /\ UNCHANGED <<rooms, registry, owner, nodes, lost, restarted, spent>>

\* roomAcceptsAutoMatch: a room that can be reached and is waiting is taken;
\* any other is left again and the next one tried.  The state of the room is
\* its node's: either answer is possible here.
Probe(u) ==
    /\ gw[u].pc = "probe"
    /\ LET r == gw[u].room IN
       \/ /\ Routable(r) /\ told' = [told EXCEPT ![u][r] = gw[u].seat]
          /\ gw' = [gw EXCEPT ![u] = IdleGw] /\ UNCHANGED rpc
       \/ /\ Send(u, [Call("match", "leave", r) EXCEPT !.left = gw[u].left], rpc)
          /\ told' = [told EXCEPT ![u][r] = NoSeat]
    /\ UNCHANGED <<rooms, registry, owner, nodes, lost, restarted, spent>>

-----------------------------------------------------------------------------

LobbyStep(i) ==
    \/ LobbyCreate(i) \/ LobbyJoin(i) \/ LobbyLeave(i) \/ LobbyAddBot(i)
    \/ PersistUpsert(i) \/ ClaimGet(i) \/ ClaimTxn(i)
    \/ DeleteRoom(i) \/ DeleteRecord(i)

GatewayStep(u) == Reply(u) \/ Probe(u)

Next ==
    \/ \E i \in Slots : LobbyStep(i)
    \/ \E u \in Users : Begin(u) \/ Unanswered(u) \/ GatewayStep(u)
    \/ \E n \in Nodes : LeaseEnds(n) \/ Register(n)
    \/ LobbyRestart

\* A request in the lobby goes on (its goroutine runs, and Redis and etcd
\* answer or fail within their deadlines), the gateway takes the answer or
\* notices that the lobby is gone.  Nothing is promised about time-outs,
\* faults, leases or restarts.
Fairness ==
    /\ \A i \in Slots : WF_vars(LobbyStep(i))
    /\ \A u \in Users : /\ WF_vars(GatewayStep(u))
                        /\ WF_vars(gw[u].pc = "wait" /\ gw[u].id = 0 /\ Unanswered(u))

Spec == Init /\ [][Next]_vars /\ Fairness

-----------------------------------------------------------------------------
Kinds == {"create", "join", "leave", "bots"}
Steps == {"start", "persist", "get", "txn", "delete", "forget", "done"}

\* A request in the lobby: which fields it has, and what is known of them at
\* which step.
IsRequest(q) ==
    /\ DOMAIN q = {"kind", "user", "room", "private", "count", "pc", "live", "node",
                    "rec", "res"}
    /\ q.kind \in Kinds /\ q.user \in Users /\ q.pc \in Steps
    /\ q.room \in Rooms \cup {None}
    /\ q.kind # "create" \/ q.res # Failed \/ q.pc \notin {"start", "done"} => q.room \in Rooms
    /\ q.private \in BOOLEAN /\ q.live \in BOOLEAN /\ q.count \in Nat
    /\ q.res \in Seats \cup {Failed}
    /\ q.pc \in {"start", "delete", "forget"} => q.res = Failed
    /\ q.pc \in {"delete", "forget"} => q.kind = "create"
    /\ q.pc \in {"get", "txn"} => q.kind \in {"create", "join"}
    /\ q.pc \in {"persist", "get", "txn"} /\ q.kind \in {"create", "join"} => q.node \in Nodes

\* A call of a gateway: a retry keeps its arguments.
Calls == [op : Kinds \cup {"match"}, kind : Kinds, room : Rooms \cup {None},
          private : BOOLEAN, count : Nat, try : 1..Tries, left : Seq(Rooms),
          seat : Seats \cup {NoSeat}, id : Slots \cup {0}, pc : {"wait", "probe"}]

IsCall(c) == /\ c \in Calls
             /\ c.kind # "create" => c.room \in Rooms
             /\ c.op = "match" => c.kind # "create"
             /\ c.pc = "probe" => c.kind = "join" /\ c.seat \in Seats

\* The state stays within its types: finitely many rooms, owners that are nodes,
\* requests and calls at known steps with what these steps need.
TypeOK ==
    /\ DOMAIN rooms \subseteq Rooms /\ IsFiniteSet(DOMAIN rooms)
    /\ DOMAIN registry \subseteq Rooms /\ IsFiniteSet(DOMAIN registry)
    /\ owner \in [Rooms -> Nodes \cup {None}] /\ nodes \subseteq Nodes
    /\ DOMAIN rpc = Slots /\ \A i \in Slots : rpc[i] = IdleRpc \/ IsRequest(rpc[i])
    /\ DOMAIN gw = Users /\ \A u \in Users : gw[u] = IdleGw \/ IsCall(gw[u])
    /\ told \in [Users -> [Rooms -> Seats \cup {NoSeat}]]
    /\ lost \subseteq Users \X Rooms /\ restarted \in BOOLEAN

\* A record of a room: no two members have the same seat, a bot is in the seat
\* its name says, and there is never a fourth bot.
SoundRec(rec) ==
    /\ DOMAIN rec = {"seats", "private", "at"}
    /\ DOMAIN rec.seats \subseteq Members /\ Range(rec.seats) \subseteq Seats
    /\ IsInjective(rec.seats)
    /\ \A s \in Seats : Bot(s) \in DOMAIN rec.seats => rec.seats[Bot(s)] = s
    /\ BotsIn(rec.seats) <= BotMax

\* The records stay sound in the lobby's table, in what a restarted lobby
\* would read and in what is about to be written there, however joins, leaves,
\* bots, retried attempts and restarts follow each other, whoever asks for
\* bots how often and whatever seats were left in between.
RecordsSound ==
    /\ \A r \in DOMAIN rooms : SoundRec(rooms[r])
    /\ \A r \in DOMAIN registry : SoundRec(registry[r])
    /\ \A i \in Slots : rpc[i].pc = "persist" => SoundRec(rpc[i].rec)

\* A request whose caller has not given up is the one its caller waits for;
\* an answer is kept only for a caller; a leave takes a seat that its player
\* counts on no longer, or has lost.
RequestHasCaller(i) ==
    rpc[i] # IdleRpc =>
       /\ rpc[i].live => gw[rpc[i].user].pc = "wait" /\ gw[rpc[i].user].id = i
       /\ rpc[i].pc = "done" => rpc[i].live
       /\ rpc[i].kind = "leave" => \/ <<rpc[i].user, rpc[i].room>> \in lost
                                   \/ rpc[i].live /\ told[rpc[i].user][rpc[i].room] = NoSeat

\* Whoever waits for an answer waits for the one to its own call.
CallHasRequest(u) ==
    gw[u].pc = "wait" /\ gw[u].id # 0 =>
       /\ rpc[gw[u].id] # IdleRpc
       /\ rpc[gw[u].id].live /\ rpc[gw[u].id].user = u
       /\ rpc[gw[u].id].kind = gw[u].kind
       /\ gw[u].kind # "create" => rpc[gw[u].id].room = gw[u].room

\* Calls and requests belong together through time-outs, retries of a call
\* whose first attempt still runs, and restarts of the lobby.
CallsMatchRequests ==
    /\ \A i \in Slots : RequestHasCaller(i)
    /\ \A u \in Users : CallHasRequest(u)

\* Seat k of room r is u's in the lobby, unless the lobby has restarted, the
\* creation of the room has been rolled back or a leave of u's has broken off.
HasSeat(u, r, k) ==
    \/ restarted \/ <<u, r>> \in lost
    \/ r \in DOMAIN rooms /\ u \in DOMAIN rooms[r].seats /\ rooms[r].seats[u] = k

\* While the answer of a creation or a join is on its way, its seat is kept.
AnswerKept(i) ==
    /\ rpc[i] # IdleRpc /\ rpc[i].live
    /\ rpc[i].kind \in {"create", "join"} /\ rpc[i].res # Failed
    => /\ HasSeat(rpc[i].user, rpc[i].room, rpc[i].res)
       /\ rpc[i].pc = "done" => owner[rpc[i].room] # None

\* A seat is the player's from the moment the lobby has given it until the
\* player asks to leave: while the answer is on its way, while AutoMatch looks
\* at the room, and once the gateway has announced it; and who has the answer
\* can be routed, the room has an owner.  A leave whose call has broken off
\* is the exception: it may still take a seat the player has got again since.
SeatKept ==
    /\ \A i \in Slots : AnswerKept(i)
    /\ \A u \in Users : gw[u].pc = "probe" =>
          HasSeat(u, gw[u].room, gw[u].seat) /\ owner[gw[u].room] # None
    /\ \A u \in Users, r \in Rooms : told[u][r] # NoSeat =>
          HasSeat(u, r, told[u][r]) /\ owner[r] # None

\* Whoever has been told a seat can be routed: the room has an owner, and an
\* owner, once claimed, is the owner for ever, whatever fails, times out,
\* restarts or is deleted.
ToldIsOwned ==
    [][\A r \in Rooms : /\ owner[r] # None => owner'[r] = owner[r]
                        /\ \A u \in Users : told'[u][r] # NoSeat => owner'[r] # None]_vars

\* Every call of the gateway comes to an end: the retries and the rooms
\* AutoMatch goes through are bounded.
CallsEnd == \A u \in Users : gw[u].pc # "idle" ~> gw[u].pc = "idle"

\* The lobby's records, its requests, the gateways' calls and what players
\* were told agree: one seat each, three bots at most, every answer goes to
\* its call, and a seat that was given is the player's.
LobbyInv == TypeOK /\ RecordsSound /\ CallsMatchRequests /\ SeatKept
=============================================================================
