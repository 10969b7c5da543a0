---------------------------- MODULE RoomLifecycle ----------------------------
(***************************************************************************)
(* The room aggregate: who sits where, who is ready, which hand is being   *)
(* played, and the life cycle from waiting over playing to closed.         *)
(* internal/domain/room, driven by the commands of actor_dispatch.go; each *)
(* command is one action, the transitions it makes on the way included.    *)
(***************************************************************************)
EXTENDS Integers, FiniteSets

CONSTANTS
    Users,
    Nobody,         \* an empty seat
    MaxHands,       \* hands played in one room
    AllowLeave      \* runtime.room.allow_leave_during_play

ASSUME UsersAssumption == Nobody \notin Users
ASSUME HandsAssumption == MaxHands \in Nat \ {0}
ASSUME LeaveAssumption == AllowLeave \in BOOLEAN

Seats == 0..3
States == {"idle", "waiting", "ready", "playing", "settling", "closed"}

VARIABLES
    fsm, players,
    ready,              \* seats that are ready
    surrendered,        \* Room.Surrendered
    handIndex,
    round,              \* the actor holds a round
    out                 \* seats surrendered in that round

vars == <<fsm, players, ready, surrendered, handIndex, round, out>>

(* FSM.Transition: the legal moves; an illegal one is refused. *)
Legal == {<<"idle", "waiting">>, <<"waiting", "ready">>, <<"waiting", "closed">>,
          <<"ready", "playing">>, <<"ready", "waiting">>,
          <<"playing", "settling">>, <<"playing", "closed">>,
          <<"settling", "closed">>, <<"settling", "waiting">>,
          <<"settling", "ready">>}
Transition(f, next) == IF <<f, next>> \in Legal THEN next ELSE f

SeatsOf(u) == {s \in Seats : players[s] = u}
AllSeated == \A s \in Seats : players[s] # Nobody

(* NewRoom *)
Init ==
    /\ fsm = Transition("idle", "waiting")
    /\ players = [s \in Seats |-> Nobody]
    /\ ready = {} /\ surrendered = {}
    /\ handIndex = 1
    /\ round = FALSE /\ out = {}

-----------------------------------------------------------------------------
(* doJoin and JoinAutoSeat: the first empty seat, before play starts.      *)
FreeSeat(u, s) ==
    /\ SeatsOf(u) = {}
    /\ players[s] = Nobody
    /\ \A o \in Seats : players[o] = Nobody => s <= o

Join(u) ==
    /\ fsm \in {"waiting", "ready"}
    /\ \E s \in Seats : FreeSeat(u, s) /\ players' = [players EXCEPT ![s] = u]
    /\ UNCHANGED <<fsm, ready, surrendered, handIndex, round, out>>

-----------------------------------------------------------------------------
AfterReadyAnyState(R) == IF AllSeated /\ R = Seats THEN "ready" ELSE fsm

(* SetReady: four seated players that are all ready make the room ready.   *)
AfterReady(R) ==
    LET all == AllSeated /\ R = Seats
    IN  IF all /\ fsm = "waiting" THEN Transition(fsm, "ready")
        ELSE IF ~all /\ fsm = "ready" THEN Transition(fsm, "waiting")
        ELSE fsm

(* StartPlaying: from ready only. *)
StartPlaying(f) == IF f = "ready" THEN Transition(f, "playing") ELSE f

(* doReady: a ready room starts playing at once. *)
Ready(u) ==
    \E s \in SeatsOf(u) :
        LET f == AfterReady(ready \cup {s})
        IN  /\ ready' = ready \cup {s}
            /\ IF f = "ready"
               THEN /\ fsm' = StartPlaying(f)
                    /\ round' = TRUE
                    /\ out' = IF round THEN out ELSE {}
               ELSE fsm' = f /\ UNCHANGED <<round, out>>
            /\ UNCHANGED <<players, surrendered, handIndex>>

-----------------------------------------------------------------------------
StillReady(s) == ready

(* Room.Leave frees the seat and with it its readiness. *)
ReadyWithout(s) == ready \ {s}

(* Room.Surrender: the seat keeps its player. *)
Surrender(s) == players[s] # Nobody /\ surrendered' = surrendered \cup {s}

(* doLeave: during play the seat is surrendered and keeps its player.      *)
Leave(u) ==
    \E s \in SeatsOf(u) :
        \/ /\ fsm = "playing" /\ AllowLeave
           /\ Surrender(s)
           /\ out' = IF round THEN out \cup {s} ELSE out
           /\ UNCHANGED <<fsm, players, ready, handIndex, round>>
        \/ /\ fsm # "playing"
           /\ players' = [players EXCEPT ![s] = Nobody]
           /\ ready' = ReadyWithout(s)
           /\ surrendered' = surrendered \ {s}
           /\ fsm' = IF fsm = "ready" THEN Transition(fsm, "waiting") ELSE fsm
           /\ UNCHANGED <<handIndex, round, out>>

-----------------------------------------------------------------------------
(* doAutoTimeout: the engine surrenders the seat it acts for.  The room    *)
(* takes that over (syncSurrenderedFromRound) unless the engine failed     *)
(* after it.                                                               *)
TimeoutSurrenders(s) ==
    /\ fsm = "playing" /\ round
    /\ out' = out \cup {s}
    /\ surrendered' \in {surrendered, surrendered \cup out'}
    /\ UNCHANGED <<fsm, players, ready, handIndex, round>>

(* CanStartNextHand *)
CanStartNextHand == handIndex > 0 /\ handIndex < MaxHands

CloseKeepsSurrendered(sur) ==
    /\ round' = FALSE /\ out' = {} /\ surrendered' = sur
    /\ fsm' = IF CanStartNextHand THEN "waiting" ELSE "closed"
    /\ handIndex' = IF CanStartNextHand THEN handIndex + 1 ELSE handIndex
    /\ ready' = IF CanStartNextHand THEN {} ELSE ready
    /\ UNCHANGED players

(* CloseToSettling, and what follows it. *)
CloseToSettling == IF fsm = "playing" THEN Transition(fsm, "settling") ELSE fsm

PrepareNextHand(f) ==
    /\ fsm' = Transition(f, "waiting")
    /\ handIndex' = handIndex + 1
    /\ ready' = {} /\ surrendered' = {}

CloseRoom(f, sur) ==
    /\ fsm' = Transition(f, "closed")
    /\ surrendered' = sur
    /\ UNCHANGED <<handIndex, ready>>

(* closeRoomAfterRound: settle, then the next hand or the end of the room. *)
(* Between hands the seats keep their players.                             *)
CloseRoomAfterRound(sur) ==
    /\ round' = FALSE /\ out' = {}
    /\ IF CanStartNextHand THEN PrepareNextHand(CloseToSettling) ELSE CloseRoom(CloseToSettling, sur)
    /\ UNCHANGED players

(* The round closes under an action of a player, or under a timeout.       *)
RoundCloses ==
    /\ fsm = "playing" /\ round
    /\ \/ CloseRoomAfterRound(surrendered)
       \/ \E s \in Seats : CloseRoomAfterRound(surrendered \cup out \cup {s})

Next ==
    \/ \E u \in Users : Join(u) \/ Ready(u) \/ Leave(u)
    \/ \E s \in Seats : TimeoutSurrenders(s)
    \/ RoundCloses

Spec == Init /\ [][Next]_vars

-----------------------------------------------------------------------------
TypeOK ==
    /\ fsm \in States
    /\ players \in [Seats -> Users \cup {Nobody}]
    /\ ready \in SUBSET Seats /\ surrendered \in SUBSET Seats
    /\ handIndex \in 1..MaxHands
    /\ round \in BOOLEAN /\ out \in SUBSET Seats

(* A user sits on at most one seat, whatever joins, departures and hands   *)
(* came before: seatOf finds the one seat an action is for.                *)
OneSeatPerUser ==
    \A s, o \in Seats : players[s] = players[o] /\ players[s] # Nobody => s = o

(* Between two commands a room is waiting, playing or closed; it plays     *)
(* exactly while the actor holds a round, then every seat is taken, and it *)
(* closes only after its last hand.                                        *)
PlaysWithARound ==
    /\ fsm \in {"waiting", "playing", "closed"}
    /\ fsm = "playing" <=> round
    /\ round => AllSeated
    /\ fsm = "closed" => handIndex = MaxHands

(* Four seated players who are all ready never sit in a waiting room: no   *)
(* order of joins, departures and ready commands misses the start, and a   *)
(* newcomer never inherits the readiness of the player before it.          *)
NeverMissesTheStart ==
    fsm = "waiting" => /\ ~(AllSeated /\ ready = Seats)
                       /\ \A s \in ready : players[s] # Nobody

(* A seat is surrendered in the room only if it is in the round, however   *)
(* departures and failed or successful timeouts mix, and no surrender      *)
(* outlives its hand.                                                      *)
SurrenderMirrorsRound ==
    /\ fsm = "playing" => surrendered \subseteq out
    /\ fsm = "waiting" => surrendered = {}

(* While a hand is played nobody gains or loses a seat, so its scores go   *)
(* to the players who started it; a closed room stays closed.              *)
SeatsHoldDuringPlay ==
    [][ /\ fsm = "playing" => players' = players
        /\ fsm = "closed" => fsm' = "closed" ]_vars

(* What every command on the aggregate finds and leaves: unique seats, a   *)
(* state that agrees with round, hand and surrenders, and no missed start. *)
LifecycleInv ==
    /\ TypeOK /\ OneSeatPerUser /\ PlaysWithARound /\ NeverMissesTheStart
    /\ SurrenderMirrorsRound
=============================================================================
