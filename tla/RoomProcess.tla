----------------------------- MODULE RoomProcess -----------------------------
(***************************************************************************)
(* One room in a room process: the table of actors (service/room), the     *)
(* requests that drive it (adapter/room), what they leave in PostgreSQL    *)
(* and Redis (store), a crash of the process and the recovery of the room  *)
(* from what was stored.                                                   *)
(*                                                                         *)
(* Requests run concurrently.  A command is one message to the actor and   *)
(* so one action; every call to a store and every other message is an      *)
(* action of its own, because another request may come in between.  The    *)
(* hand being played is reduced to how far it is: its number and its step. *)
(***************************************************************************)
EXTENDS Integers, Sequences, FiniteSets, SequencesExt

CONSTANTS
    Users, Nobody,      \* players, and an empty seat
    Seats,              \* seats of a room, numbered from 1
    Keyed,              \* commands that may come with an idempotency key
    Handlers,           \* requests and timeout callbacks being served at once
    MaxHands,           \* hands played in one room
    MaxRequests,        \* bound: requests and timeouts in all
    MaxSteps,           \* bound: steps of a hand
    MaxCrashes,         \* bound: crashes of the process
    MaxFaults           \* bound: calls to a store that fail, reads of the room
                        \*   that a full mailbox refuses

ASSUME SeatsAssumption == IsFiniteSet(Seats) /\ Seats # {} /\ Seats = 1..Cardinality(Seats)
ASSUME KeyedAssumption == Keyed \subseteq {"join", "ready", "act", "leave"}
ASSUME UsersAssumption == Nobody \notin Users
ASSUME BoundAssumption == {MaxHands, MaxRequests, MaxSteps} \subseteq Nat \ {0}
ASSUME FaultAssumption == {MaxCrashes, MaxFaults} \subseteq Nat

VARIABLES
    up,             \* the process serves: recovered and ready
    room,           \* RoomRegistry: NoRoom or the room of this id
    actor,          \* entry in the table of actors and its Run loop
    loops,          \* Run loops started and not ended
    activeCount,    \* Service.activeCount
    round,          \* the actor's round
    serving,        \* per handler: the request and where it stands
    log,            \* table room_events, by seq
    snap,           \* Redis: RoomSnapMeta
    summary,        \* table game_summaries
    idem,           \* Redis: idempotency keys with result ok
    requests, crashes, faults,
    games, done,    \* history: hands started; last step the actor made
    told,           \* history: events pushed to a gate or answered for, by seq
    unread,         \* history: the last start could not read the round
    rolled          \* history: events stored before the last start

memory == <<up, room, actor, loops, activeCount, round>>
stores == <<log, snap, summary, idem>>
bounds == <<requests, crashes, faults>>
history == <<games, done, told, unread, rolled>>
vars == <<memory, serving, stores, bounds, history>>

-----------------------------------------------------------------------------
NoRoom == [fsm |-> "none", players |-> [s \in Seats |-> Nobody], ready |-> {},
           hand |-> 0]
NoRound == [game |-> 0, step |-> 0]
NoSnap == [seq |-> 0, players |-> <<>>, fsm |-> "none", round |-> NoRound]
NoSummary == [players |-> <<>>, ended |-> FALSE]

(* Every command is an ApplyEvent body; "act" stands for the moves of a    *)
(* hand and "signal" for MarkOffline and CancelOffline.                    *)
Bodies == {"join", "ready", "act", "leave", "signal"}
Idle == [pc |-> "idle", user |-> Nobody, body |-> "none", keyed |-> FALSE,
         batch |-> <<>>, base |-> 0, at |-> 0, seen |-> NoSnap]

Seated(u) == \E s \in Seats : room.players[s] = u
AllSeated(r) == \A s \in Seats : r.players[s] # Nobody

(* One more call to a store, or to an actor with a full mailbox, fails.    *)
Fault == faults < MaxFaults /\ faults' = faults + 1
NoFault == UNCHANGED faults

Goto(h, pc) == serving' = [serving EXCEPT ![h].pc = pc]
Reply(h) == serving' = [serving EXCEPT ![h] = Idle]

(* What the stores do with a call that goes through. *)
CreateGameSummary(s) == [s EXCEPT !.players = room.players]
EndGameSummary(s) == [s EXCEPT !.ended = s.players # <<>>]
MaxSeq == Len(log)
GetIdempotency(u, b) == <<u, b>> \in idem
PutIdempotencyAbsent(u, b) == idem \cup {<<u, b>>}

(* The FSM is restored as it was stored; without a state it waits.         *)
Restored(fsm) == IF fsm = "none" THEN "waiting" ELSE fsm

Init ==
    /\ up = TRUE /\ room = NoRoom /\ actor = "none" /\ loops = 0
    /\ activeCount = 0 /\ round = NoRound
    /\ serving = [h \in Handlers |-> Idle]
    /\ log = <<>> /\ snap = NoSnap /\ summary = NoSummary /\ idem = {}
    /\ requests = 0 /\ crashes = 0 /\ faults = 0
    /\ games = 0 /\ done = NoRound /\ told = {} /\ unread = FALSE /\ rolled = 0

-----------------------------------------------------------------------------
(* ApplyEvent: a process that is recovering refuses; a key marked ok is    *)
(* accepted without running the command again.                             *)
Begin(h) ==
    /\ up /\ serving[h].pc = "idle" /\ requests < MaxRequests
    /\ requests' = requests + 1
    /\ \E u \in Users, b \in Bodies : \E k \in {FALSE, (b \in Keyed)} :
        \/ /\ k => ~GetIdempotency(u, b)
           /\ serving' = [serving EXCEPT ![h] = [Idle EXCEPT
                 !.pc = "ensure", !.user = u, !.body = b, !.keyed = k]]
           /\ NoFault
        \/ k /\ GetIdempotency(u, b) /\ NoFault /\ UNCHANGED serving
        \/ k /\ Fault /\ UNCHANGED serving
    /\ UNCHANGED <<memory, stores, crashes, history>>

(* EnsureRoom: look in the registry; create the room; start its actor.     *)
EnsureRoom(h) ==
    /\ serving[h].pc = "ensure"
    /\ Goto(h, IF room = NoRoom THEN "create" ELSE "existing")
    /\ UNCHANGED <<memory, stores, bounds, history>>

(* NewRoom leaves the idle state at once. *)
NewRoom == [NoRoom EXCEPT !.fsm = "waiting", !.hand = 1]

CreateRoom(h) ==
    /\ serving[h].pc = "create"
    /\ IF room = NoRoom
       THEN room' = NewRoom /\ Goto(h, "start")
       ELSE room' = room /\ Goto(h, "existing")
    /\ UNCHANGED <<up, actor, loops, activeCount, round, stores, bounds,
                   history>>

Starts(counted) ==
    /\ actor' = "run" /\ loops' = loops + 1 /\ round' = NoRound
    /\ activeCount' = activeCount + (IF counted THEN 1 ELSE 0)

(* startActorLocked: the one place that counts the actor in.               *)
StartActorLocked(h) ==
    /\ serving[h].pc = "start"
    /\ Goto(h, "join")
    /\ IF actor = "none" THEN Starts(TRUE)
       ELSE UNCHANGED <<actor, loops, activeCount, round>>
    /\ UNCHANGED <<up, room, stores, bounds, history>>

StartsUnchecked(h) ==
    /\ serving[h].pc = "existing2"
    /\ Goto(h, "join")
    /\ Starts(FALSE)

(* ensureActorForExistingRoom: look, let go of the lock to fetch the room, *)
(* then look again and start an actor that is not counted.                 *)
EnsureActorLook(h) ==
    /\ serving[h].pc = "existing"
    /\ Goto(h, IF actor = "none" THEN "existing2" ELSE "join")
    /\ UNCHANGED <<actor, loops, activeCount, round>>

EnsureActorStart(h) ==
    /\ serving[h].pc = "existing2"
    /\ Goto(h, "join")
    /\ IF actor = "none" THEN Starts(FALSE)
       ELSE UNCHANGED <<actor, loops, activeCount, round>>

EnsureActorForExistingRoom(h) ==
    /\ EnsureActorLook(h) \/ EnsureActorStart(h)
    /\ UNCHANGED <<up, room, stores, bounds, history>>

CountedOut(n) == n - 1

(* removeActor: the loop of a closed room takes its entry and its count.   *)
RemoveActor ==
    /\ actor = "closing"
    /\ actor' = "none" /\ loops' = loops - 1 /\ round' = NoRound
    /\ activeCount' = CountedOut(activeCount)
    /\ UNCHANGED <<up, room, serving, stores, bounds, history>>

(* A message to the actor: refused by one whose room is closed; after any  *)
(* message the loop of a closed room ends.                                 *)
AfterMessage == actor' = IF room'.fsm = "closed" THEN "closing" ELSE "run"

(* The same for a message that leaves the room as it is, if there is an    *)
(* actor to take it.                                                       *)
CloseIfOver ==
    actor' = IF actor = "run" /\ room.fsm = "closed" THEN "closing" ELSE actor

-----------------------------------------------------------------------------
(* Join: getActor, then the actor's doJoin.  A full room is no error.      *)
FirstFree == CHOOSE s \in Seats : /\ room.players[s] = Nobody
                                  /\ \A o \in 1..(s - 1) : room.players[o] # Nobody
Join(h) ==
    LET u == serving[h].user
        refused == actor # "run" \/ (room.fsm \in {"playing", "closed"} /\ ~Seated(u))
    IN  /\ serving[h].pc = "join"
        /\ room' = IF refused \/ Seated(u) \/ AllSeated(room) THEN room
                   ELSE [room EXCEPT !.players[FirstFree] = u]
        /\ IF actor = "run" THEN AfterMessage ELSE UNCHANGED actor
        /\ IF refused THEN Reply(h) ELSE Goto(h, "meta_prev")
        /\ UNCHANGED <<up, loops, activeCount, round, stores, bounds, history>>

-----------------------------------------------------------------------------
(* The commands of the actor.  Each yields the kinds of its notifications. *)

Step(kinds, r) == [i \in DOMAIN kinds |->
                     [kind |-> kinds[i], game |-> r.game, step |-> r.step]]

(* SetReady and StartRound: the last player to be ready starts the hand.   *)
DoReady(u, batch) ==
    LET R == room.ready \cup {s \in Seats : room.players[s] = u}
        start == AllSeated(room) /\ R = Seats /\ room.fsm \in {"waiting", "ready"}
    IN  /\ Seated(u)
        /\ IF start
           THEN /\ room' = [room EXCEPT !.ready = R, !.fsm = "playing"]
                /\ games' = games + 1
                /\ round' = [game |-> games + 1, step |-> 1]
                /\ batch = Step(<<"initial_deal">>, round')
                /\ done' = round'
           ELSE /\ room' = [room EXCEPT !.ready = R,
                              !.fsm = IF @ = "ready" THEN "waiting" ELSE @]
                /\ batch = <<>>
                /\ UNCHANGED <<round, games, done>>

(* A move of the hand, by a player or by a timeout: it goes on, or it is   *)
(* settled and the room closes or waits for the next hand.                 *)
DoMove(batch) ==
    LET r == [round EXCEPT !.step = @ + 1]
    IN  /\ round # NoRound
        /\ done' = r
        /\ \/ /\ r.step < MaxSteps
              /\ round' = r
              /\ batch = Step(<<"action">>, r)
              /\ UNCHANGED room
           \/ /\ round' = NoRound
              /\ batch = Step(<<"action", "settlement">>, r)
              /\ room' = IF room.hand < MaxHands
                         THEN [room EXCEPT !.fsm = "waiting", !.ready = {},
                                           !.hand = @ + 1]
                         ELSE [room EXCEPT !.fsm = "closed"]
        /\ UNCHANGED games

(* doLeave: before play the seat is freed, during play it is kept.         *)
DoLeave(u, batch) ==
    /\ Seated(u) /\ batch = <<>>
    /\ room' = IF room.fsm = "playing" THEN room
               ELSE LET mine == {s \in Seats : room.players[s] = u}
                    IN  [room EXCEPT
                          !.players = [s \in Seats |-> IF s \in mine THEN Nobody
                                                       ELSE @[s]],
                          !.ready = @ \ mine,
                          !.fsm = IF @ = "ready" THEN "waiting" ELSE @]
    /\ UNCHANGED <<round, games, done>>

Nothing(batch) == batch = <<>> /\ UNCHANGED <<room, round, games, done>>

Command(body, u, batch) ==
    CASE body = "ready"   -> DoReady(u, batch)
      [] body = "act"     -> Seated(u) /\ DoMove(batch)
      [] body = "leave"   -> DoLeave(u, batch)
      [] OTHER            -> Nothing(batch)

Batches == {<<>>} \cup {Step(k, [game |-> g, step |-> n]) :
               k \in {<<"initial_deal">>, <<"action">>, <<"action", "settlement">>},
               g \in 1..(games + 1), n \in 1..(MaxSteps + 1)}

(* The switch of ApplyEvent.  A command the actor refuses ends the request *)
(* with an error; join, leave and the signals have nothing to store.       *)
Execute(h) ==
    LET body == serving[h].body
    IN  /\ serving[h].pc = "exec"
        /\ \/ /\ actor = "run" \/ body \in {"join", "signal"}
              /\ \E batch \in Batches :
                    /\ Command(body, serving[h].user, batch)
                    /\ serving' = [serving EXCEPT ![h].batch = batch,
                         ![h].pc = CASE body = "signal" -> "reply"
                                     [] body \in {"join", "leave"} -> "mark"
                                     [] OTHER -> "append"]
              /\ IF body \in {"join"} THEN UNCHANGED actor
                 ELSE IF actor = "run" THEN AfterMessage ELSE UNCHANGED actor
           \/ /\ body \notin {"join", "signal"}      \* refused by the actor
              /\ Reply(h)
              /\ IF actor = "run" THEN actor' = (IF room.fsm = "closed" THEN "closing"
                                                 ELSE "run")
                 ELSE UNCHANGED actor
              /\ UNCHANGED <<room, round, games, done>>
        /\ UNCHANGED <<up, loops, activeCount, stores, bounds, told, unread, rolled>>

(* A deadline passes: the move is made in the actor and its callback runs  *)
(* PersistPublishAndFinalize without a key.                                *)
AutoTimeout(h) ==
    /\ up /\ serving[h].pc = "idle" /\ requests < MaxRequests
    /\ actor = "run"
    /\ requests' = requests + 1
    /\ \E batch \in Batches :
        /\ DoMove(batch)
        /\ serving' = [serving EXCEPT ![h] = [Idle EXCEPT !.pc = "append",
                         !.body = "timeout", !.batch = batch]]
    /\ AfterMessage
    /\ UNCHANGED <<up, loops, activeCount, stores, crashes, faults, told, unread,
                   rolled>>

-----------------------------------------------------------------------------
(* PersistPublishAndFinalize.                                              *)

ReplacesTheLast(h) ==
    /\ serving[h].pc = "append" /\ serving[h].batch # <<>>
    /\ log' = (IF log = <<>> THEN log ELSE Front(log)) \o serving[h].batch
    /\ serving' = [serving EXCEPT ![h].pc = "effects",
                                  ![h].base = Len(log') - Len(serving[h].batch)]
    /\ NoFault

(* persistNotifications and AppendEvents: one transaction numbers and      *)
(* stores the whole batch, or fails and the request with it.               *)
AppendEvents(h) ==
    /\ serving[h].pc = "append"
    /\ IF serving[h].batch = <<>> THEN Goto(h, "mark") /\ NoFault /\ UNCHANGED log
       ELSE \/ /\ log' = log \o serving[h].batch
               /\ serving' = [serving EXCEPT ![h].pc = "effects", ![h].base = Len(log)]
               /\ NoFault
            \/ Fault /\ Reply(h) /\ UNCHANGED log

PersistNotifications(h) ==
    /\ AppendEvents(h)
    /\ UNCHANGED <<memory, snap, summary, idem, requests, crashes, history>>

(* afterEventSideEffects: the summary of the game with the players the     *)
(* actor knows, and its end.  A call that fails is left out.               *)
AfterEventSideEffects(kind, lose) ==
    LET s == IF actor = "closing" \/ "create" \in lose THEN summary
             ELSE CreateGameSummary(summary)
    IN  IF kind = "settlement" /\ "end" \notin lose THEN EndGameSummary(s) ELSE s

(* That, and publishToRedis, for the next event of the batch.              *)
Effects(h) ==
    LET r == serving[h]
        event == r.batch[r.at + 1]
        seq == r.base + r.at + 1
        next == IF r.at + 1 = Len(r.batch) THEN "meta_prev" ELSE "effects"
    IN  /\ r.pc = "effects"
        /\ serving' = [serving EXCEPT ![h].at = @ + 1, ![h].pc = next]
        /\ CloseIfOver
        /\ \E lose \in {{}, {"create"}, {"end"}, {"push"}} :
            /\ IF lose = {} THEN NoFault ELSE Fault
            /\ summary' = AfterEventSideEffects(event.kind, lose)
            /\ told' = IF "push" \in lose THEN told
                       ELSE told \cup {[seq |-> seq, event |-> event]}
        /\ UNCHANGED <<up, room, loops, activeCount, round, log, snap, idem,
                       requests, crashes, games, done, unread, rolled>>

(* persistRoomMeta: the last snapshot, the room, the round, then one write.*)
(* A read that fails, or that a full mailbox refuses, leaves the old       *)
(* snapshot.                                                               *)
MetaDone(h) ==
    serving' = [serving EXCEPT ![h].seen = NoSnap,
                  ![h].pc = IF serving[h].batch = <<>> THEN "exec" ELSE "mark"]

MetaRefused(h) ==
    /\ (actor = "closing" /\ NoFault) \/ (actor = "run" /\ Fault)
    /\ MetaDone(h) /\ UNCHANGED actor

MetaPrev(h) ==
    /\ serving[h].pc = "meta_prev"
    /\ \/ /\ serving' = [serving EXCEPT ![h].seen.seq = snap.seq, ![h].pc = "meta_room"]
          /\ NoFault
       \/ Fault /\ MetaDone(h)
    /\ UNCHANGED <<memory, stores, requests, crashes, history>>

(* RoomSnapshot: a message to the actor, or the registry without one.      *)
MetaRoom(h) ==
    /\ serving[h].pc = "meta_room"
    /\ \/ /\ actor # "closing" /\ NoFault /\ CloseIfOver
          /\ serving' = [serving EXCEPT ![h].pc = "meta_round",
                ![h].seen.players = room.players, ![h].seen.fsm = room.fsm]
       \/ MetaRefused(h)
    /\ UNCHANGED <<up, room, loops, activeCount, round, stores, requests, crashes, history>>

(* RoundPersistSnapshot: a second message; without an actor no round.      *)
MetaRound(h) ==
    /\ serving[h].pc = "meta_round"
    /\ \/ /\ actor # "closing" /\ NoFault /\ CloseIfOver
          /\ serving' = [serving EXCEPT ![h].pc = "meta_put", ![h].seen.round = round]
       \/ MetaRefused(h)
    /\ UNCHANGED <<up, room, loops, activeCount, round, stores, requests, crashes, history>>

SeqOfLogAndOne(h) == Len(log) + 1

(* The seq of the snapshot: of the batch, or the newest one in the log,    *)
(* and never below the snapshot read at the start, whose seq is kept when  *)
(* the log cannot be asked.                                                *)
SnapSeq(h) ==
    LET r == serving[h]
    IN  Max({r.seen.seq, IF r.batch = <<>> THEN MaxSeq ELSE r.base + Len(r.batch)})

MetaPut(h) ==
    /\ serving[h].pc = "meta_put"
    /\ MetaDone(h)
    /\ \/ snap' = [serving[h].seen EXCEPT !.seq = SnapSeq(h)] /\ NoFault
       \/ serving[h].batch = <<>> /\ Fault /\ snap' = serving[h].seen
       \/ Fault /\ UNCHANGED snap
    /\ UNCHANGED <<memory, log, summary, idem, requests, crashes, history>>

(* markIdempotency and the answer: a mark that fails is not reported.      *)
Answer(h) ==
    LET r == serving[h]
    IN  /\ r.pc \in {"mark", "reply", "shown"}
        /\ Reply(h)
        /\ \/ /\ idem' = IF r.keyed /\ r.pc = "mark"
                         THEN PutIdempotencyAbsent(r.user, r.body) ELSE idem
              /\ NoFault
           \/ r.keyed /\ r.pc = "mark" /\ Fault /\ UNCHANGED idem
        /\ told' = told \cup {[seq |-> r.base + i, event |-> r.batch[i]] :
                                 i \in DOMAIN r.batch}
        /\ UNCHANGED <<memory, log, snap, summary, requests, crashes, games, done,
                       unread, rolled>>

-----------------------------------------------------------------------------
(* SnapshotRoom for a client that resumes: the state of the room, the      *)
(* cursor, then the view, read one after the other.                        *)

(* RoomSnapshot, and in Redis a room that this node does not hold, whose   *)
(* actor has ended or refuses the message: its view is of the stored round *)
(* (RoundViewFromPersistJSON), empty for a round the build cannot read.    *)
SnapshotState(h) ==
    LET live == room # NoRoom /\ actor # "closing"
        reads(body, fsm, r) == [serving EXCEPT ![h] = [Idle EXCEPT
              !.pc = "cursor", !.body = body,
              !.seen = [NoSnap EXCEPT !.fsm = fsm, !.round = r]]]
    IN  /\ up /\ serving[h].pc = "idle" /\ requests < MaxRequests
        /\ requests' = requests + 1
        /\ \/ /\ live /\ NoFault /\ CloseIfOver
              /\ serving' = reads("snapshot", room.fsm, NoRound)
           \/ /\ (~live /\ NoFault) \/ (actor = "run" /\ Fault)
              /\ IF snap = NoSnap THEN UNCHANGED serving       \* room not found
                 ELSE \E r \in {snap.round, NoRound} :
                        serving' = reads("stored", snap.fsm, r)
              /\ UNCHANGED actor
           \/ ~live /\ Fault /\ UNCHANGED <<serving, actor>>

(* MaxSeq; no cursor when it fails.  The stored view is already read.      *)
SnapshotCursor(h) ==
    /\ serving[h].pc = "cursor"
    /\ \E failed \in BOOLEAN :
        /\ serving' = [serving EXCEPT
              ![h].seen.seq = IF failed THEN 0 ELSE MaxSeq,
              ![h].pc = IF serving[h].body = "snapshot" THEN "view" ELSE "shown"]
        /\ IF failed THEN Fault ELSE NoFault

CursorLast(h) ==
    /\ serving[h].pc = "view" /\ NoFault /\ CloseIfOver
    /\ serving' = IF serving[h].seen.round = NoRound /\ round # NoRound
                  THEN [serving EXCEPT ![h].seen.round = round]
                  ELSE [serving EXCEPT ![h].pc = "shown", ![h].seen.seq = MaxSeq]

(* RoundView, whose errors are ignored: without a round, without an actor  *)
(* and with one that has ended or refuses the message, the view is empty.  *)
SnapshotView(h) ==
    /\ serving[h].pc = "view"
    /\ \/ /\ serving' = [serving EXCEPT ![h].pc = "shown", ![h].seen.round = round]
          /\ NoFault /\ CloseIfOver
       \/ /\ actor = "run" /\ Fault
          /\ serving' = [serving EXCEPT ![h].pc = "shown", ![h].body = "refused"]
          /\ UNCHANGED actor

SnapshotRoom(h) ==
    /\ \/ SnapshotState(h)
       \/ SnapshotCursor(h) /\ UNCHANGED <<requests, actor>>
       \/ SnapshotView(h) /\ UNCHANGED requests
    /\ UNCHANGED <<up, room, loops, activeCount, round, stores, crashes, history>>

-----------------------------------------------------------------------------
(* A crash loses the memory and every request under way.                   *)
Crash ==
    /\ up /\ crashes < MaxCrashes
    /\ crashes' = crashes + 1
    /\ up' = FALSE /\ room' = NoRoom /\ actor' = "none" /\ loops' = 0
    /\ activeCount' = 0 /\ round' = NoRound
    /\ serving' = [h \in Handlers |-> Idle]
    /\ UNCHANGED <<stores, requests, faults, history>>

(* DeriveRecoveredState: the log decides; moves after a settlement belong  *)
(* to a hand whose snapshot was not written yet.                           *)
DeriveRecoveredState(current) ==
    LET rows == {i \in DOMAIN log : log[i].kind \in {"settlement", "action"}}
        last == log[CHOOSE i \in rows : \A j \in rows : j <= i]
    IN  IF rows = {} THEN current
        ELSE IF last.kind = "settlement" THEN "closed" ELSE "playing"

KeepsTheRound(rows) == FALSE

ClearRound(rows) ==
    \E i, j \in DOMAIN rows : /\ i < j /\ rows[i].kind = "settlement"
                              /\ rows[j].kind = "action"

(* RecoverRoom seats the players from the first seat on: seat s goes to    *)
(* the one who sat in the s-th seat that was taken.                        *)
Reseated(players) ==
    LET nth(s) == {t \in Seats : /\ players[t] # Nobody
                                 /\ s = Cardinality({o \in 1..t : players[o] # Nobody})}
    IN  [s \in Seats |-> IF nth(s) = {} THEN Nobody
                         ELSE players[CHOOSE t \in nth(s) : TRUE]]

PlayingAnyway(derived, kept) == derived

(* Without its round a room that was playing is only ready.                *)
RecoveredState(derived, kept) ==
    IF derived = "playing" /\ kept = NoRound THEN "ready" ELSE derived

(* RecoverSingleRoom and RecoverRoom, before the process serves anyone.  A *)
(* round the build cannot read is given up for a room that is ready; by    *)
(* then the room is in the registry, and the second RecoverRoom keeps it.  *)
Recover ==
    LET known == summary.players # <<>>
        base == IF known /\ summary.ended THEN "closed"
                ELSE Restored(snap.fsm)
        players == IF known THEN summary.players ELSE snap.players
        derived == DeriveRecoveredState(base)
        kept == IF ClearRound(log) THEN NoRound ELSE snap.round
        state == RecoveredState(derived, kept)
        restored == [fsm |-> state, players |-> Reseated(players), ready |-> {},
                     hand |-> 1]
    IN  /\ ~up /\ up' = TRUE
        /\ \/ /\ derived = "closed" \/ players = <<>>
              /\ unread' = FALSE
              /\ UNCHANGED <<room, actor, loops, activeCount, round>>
           \/ /\ derived # "closed" /\ players # <<>>
              /\ room' = restored
              /\ actor' = "run" /\ loops' = loops + 1
              /\ \/ /\ round' = IF state = "playing" THEN kept ELSE NoRound
                    /\ activeCount' = activeCount + 1 /\ unread' = FALSE
                 \/ /\ state = "playing"
                    /\ round' = NoRound /\ UNCHANGED activeCount /\ unread' = TRUE
        /\ done' = round' /\ rolled' = Len(log)
        /\ UNCHANGED <<serving, stores, bounds, games, told>>

Next ==
    \/ \E h \in Handlers :
        \/ Begin(h) \/ EnsureRoom(h) \/ CreateRoom(h) \/ StartActorLocked(h)
        \/ EnsureActorForExistingRoom(h) \/ Join(h) \/ Execute(h) \/ AutoTimeout(h)
        \/ PersistNotifications(h) \/ Effects(h)
        \/ MetaPrev(h) \/ MetaRoom(h) \/ MetaRound(h) \/ MetaPut(h) \/ Answer(h) \/ SnapshotRoom(h)
    \/ RemoveActor \/ Crash \/ Recover

Spec == Init /\ [][Next]_vars

-----------------------------------------------------------------------------
States == {"none", "waiting", "ready", "playing", "closed"}
Seatings == [Seats -> Users \cup {Nobody}]
Rooms == [fsm : States, players : Seatings, ready : SUBSET Seats, hand : Nat]
Rounds == [game : Nat, step : Nat]
Events == [kind : {"initial_deal", "action", "settlement"}, game : Nat, step : Nat]
Snapshots == [seq : Nat, players : Seatings \cup {<<>>}, fsm : States, round : Rounds]
Places == {"idle", "ensure", "create", "start", "existing", "existing2", "join", "exec",
           "append", "effects", "meta_prev", "meta_room", "meta_round", "meta_put",
           "mark", "reply", "cursor", "view", "shown"}
Requests ==
    [pc : Places, user : Users \cup {Nobody},
     body : Bodies \cup {"none", "timeout", "snapshot", "stored", "refused"},
     keyed : BOOLEAN, batch : Seq(Events), base : Nat, at : Nat, seen : Snapshots]

TypeOK ==
    /\ up \in BOOLEAN /\ actor \in {"none", "run", "closing"}
    /\ room \in Rooms
    /\ loops \in Nat /\ activeCount \in Int
    /\ {round, done} \subseteq Rounds /\ {round.step, snap.round.step} \subseteq 0..MaxSteps
    /\ serving \in [Handlers -> Requests]
    /\ log \in Seq(Events) /\ snap \in Snapshots
    /\ summary \in [players : Seatings \cup {<<>>}, ended : BOOLEAN]
    /\ summary.ended => summary.players # <<>>
    /\ {requests, crashes, faults, games, rolled} \subseteq Nat /\ unread \in BOOLEAN
    /\ told \subseteq [seq : Nat, event : Events]

(* However many requests ensure the room at once, one Run loop serves it   *)
(* and the table of actors holds it (EnsureRoom, startActorLocked,         *)
(* ensureActorForExistingRoom, removeActor).                               *)
OneActor == loops = IF actor = "none" THEN 0 ELSE 1

(* ActiveRoomCount, the load a room node reports, never exceeds the actors *)
(* the node runs; an actor started for an existing room is left out.       *)
NeverOvercounts == activeCount <= loops

(* An event that was pushed to a gate or answered for is in room_events    *)
(* under the seq it was told with, through any crash                       *)
(* (PersistPublishAndFinalize stores the batch before anything else).      *)
ToldIsStored == \A t \in told : t.seq \in DOMAIN log /\ log[t.seq] = t.event

(* The snapshot never claims a seq the log has not reached, although its   *)
(* seq is read while other requests append and write snapshots of their    *)
(* own (persistRoomMeta, AppendEvents).                                    *)
SnapshotWithinLog == snap.seq <= Len(log)

(* A hand whose settlement is stored is never played on, not even after a  *)
(* crash between the settlement and the snapshot (RecoverSingleRoom).      *)
SettledHandStaysSettled ==
    round # NoRound => \A i \in DOMAIN log :
                          log[i].kind = "settlement" => log[i].game # round.game

(* A room that is playing has the round it plays (RecoverRoom refuses      *)
(* a playing room without one): without it no move is accepted and no      *)
(* deadline armed.  Only a build that cannot read the stored round makes   *)
(* such a room.                                                            *)
PlayingHasRound ==
    room.fsm = "playing" /\ actor = "run" /\ ~unread => round # NoRound

(* The client asks for events after the cursor only, so what SnapshotRoom  *)
(* shows must stand for the ones before it: a view of the actor's round    *)
(* covers every event up to the cursor (MaxSeq before RoundView), and an   *)
(* empty view that the actor gave hides no hand still being played.  Left  *)
(* out are a view the mailbox refused or Redis gave, and events of before  *)
(* the last start, which a recovery from an older snapshot does not play   *)
(* again.                                                                  *)
Covers(view, event) == event.game < view.game
                       \/ (event.game = view.game /\ event.step <= view.step)
Hides(event) == round # NoRound /\ event.game = round.game
ViewCoversCursor ==
    \A h \in Handlers : serving[h].pc = "shown" /\ serving[h].body = "snapshot" =>
        \A i \in (rolled + 1)..serving[h].seen.seq :
            IF serving[h].seen.round = NoRound THEN ~Hides(log[i])
            ELSE Covers(serving[h].seen.round, log[i])

(* The process implements the journal: whatever handlers, timeouts, failing*)
(* stores and crashes do, stored rows stay and only stored rows are told.  *)
Journal == INSTANCE RoomJournal WITH journal <- log
ImplementsJournal == Journal!Spec

-----------------------------------------------------------------------------
(* What the properties rest on; with them it is inductive.                 *)

(* Before the recovery there is no room, no actor and no request.          *)
DownIsEmpty ==
    ~up => /\ room = NoRoom /\ actor = "none" /\ round = NoRound
           /\ \A h \in Handlers : serving[h] = Idle

(* A request has a batch from its command to its answer; once appended it  *)
(* is in the log where its base says.                                      *)
BatchInLog(r) ==
    /\ r.pc \in {"idle", "ensure", "create", "start", "existing", "existing2", "join",
                 "exec", "reply", "cursor", "view", "shown"} => r.batch = <<>>
    /\ r.batch = <<>> \/ r.pc = "append" => r.at = 0
    /\ r.pc = "effects" => r.at < Len(r.batch)
    /\ r.pc # "append" => \A i \in DOMAIN r.batch :
          r.base + i <= Len(log) /\ log[r.base + i] = r.batch[i]

(* What a request has read for the snapshot it will write.                 *)
SeenIsPast(r) ==
    /\ r.seen.seq <= Len(log) /\ r.seen.round.game <= games
    /\ r.pc \in {"meta_round", "meta_put"} => r.seen.players \in Seatings
    /\ r.pc = "meta_put" => r.seen.round.step <= MaxSteps

(* Only an actor that runs plays: one that ends has closed its room.       *)
ActorFitsRoom ==
    /\ actor = "closing" => room.fsm = "closed"
    /\ actor = "none" => room.fsm \in {"none", "waiting", "closed"}
    /\ round # NoRound => room.fsm = "playing" /\ done = round

(* Every event belongs to a hand that was started and, since the last      *)
(* start of the process, to a step that was made; the hand being played    *)
(* has no settlement, stored or on its way.                                *)
EventSound(e) ==
    e.game <= games /\ (round # NoRound /\ e.kind = "settlement" => e.game # round.game)
EventsSound ==
    /\ {round.game, done.game, snap.round.game} \subseteq 0..games
    /\ \A i \in DOMAIN log : EventSound(log[i])
    /\ \A i \in (rolled + 1)..Len(log) : Covers(done, log[i])
    /\ \A h \in Handlers : \A i \in DOMAIN serving[h].batch :
          EventSound(serving[h].batch[i]) /\ Covers(done, serving[h].batch[i])

RequestsSound == \A h \in Handlers : BatchInLog(serving[h]) /\ SeenIsPast(serving[h])

(* One loop per room, counted at most once, nothing told that is not       *)
(* stored, and what requests carry agrees with the room and the log.       *)
ProcessInv == /\ TypeOK /\ OneActor /\ NeverOvercounts /\ ToldIsStored
              /\ DownIsEmpty /\ RequestsSound /\ ActorFitsRoom /\ EventsSound
=============================================================================
