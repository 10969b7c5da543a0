------------------------- MODULE RoomLifecycleProofs -------------------------
(***************************************************************************)
(* RoomLifecycle for every set of users and every number of hands.  The    *)
(* conjunction of the safety properties is inductive as it stands.         *)
(***************************************************************************)
EXTENDS RoomLifecycle, TLAPS

(* A new room satisfies every invariant (NewRoom). *)
LEMMA InitLifecycle == Init => LifecycleInv
<1> SUFFICES ASSUME Init PROVE LifecycleInv
  OBVIOUS
<1>1. fsm = "waiting"
  BY DEF Init, Transition, Legal
<1> USE <1>1 DEF Init
<1>2. TypeOK
  <2>1. players \in [Seats -> Users \cup {Nobody}]
    OBVIOUS
  <2>2. handIndex \in 1..MaxHands
    BY HandsAssumption
  <2>3. QED
    BY <2>1, <2>2 DEF TypeOK, States
<1>3. OneSeatPerUser
  BY DEF OneSeatPerUser
<1>4. PlaysWithARound /\ SurrenderMirrorsRound
  BY DEF PlaysWithARound, SurrenderMirrorsRound
<1>5. NeverMissesTheStart
  BY DEF NeverMissesTheStart, AllSeated, Seats
<1>6. QED
  BY <1>2, <1>3, <1>4, <1>5 DEF LifecycleInv

(* Joining takes one empty seat of a user without a seat (doJoin).         *)
LEMMA JoinStep ==
    ASSUME LifecycleInv, NEW u \in Users, Join(u)
    PROVE  LifecycleInv'
<1>1. PICK s \in Seats : FreeSeat(u, s) /\ players' = [players EXCEPT ![s] = u]
  BY DEF Join
<1> USE <1>1 DEF Join, LifecycleInv
<1>2. TypeOK'
  BY DEF TypeOK
<1>3. OneSeatPerUser'
  BY DEF OneSeatPerUser, TypeOK, FreeSeat, SeatsOf
<1>4. PlaysWithARound'
  BY DEF PlaysWithARound, AllSeated
<1>5. NeverMissesTheStart'
  BY UsersAssumption DEF NeverMissesTheStart, TypeOK, FreeSeat, AllSeated
<1>6. SurrenderMirrorsRound'
  BY DEF SurrenderMirrorsRound
<1>7. QED
  BY <1>2, <1>3, <1>4, <1>5, <1>6

(* Being ready starts the round exactly when four seated players are all   *)
(* ready (doReady, SetReady, StartPlaying).                                *)
LEMMA ReadyStep ==
    ASSUME LifecycleInv, NEW u \in Users, Ready(u)
    PROVE  LifecycleInv'
<1> DEFINE f(s) == AfterReady(ready \cup {s})
<1>1. PICK s \in SeatsOf(u) :
          /\ ready' = ready \cup {s}
          /\ IF f(s) = "ready"
             THEN /\ fsm' = Transition(f(s), "playing")
                  /\ round' = TRUE
                  /\ out' = IF round THEN out ELSE {}
             ELSE fsm' = f(s) /\ UNCHANGED <<round, out>>
          /\ UNCHANGED <<players, surrendered, handIndex>>
  BY DEF Ready, StartPlaying
<1>2. s \in Seats /\ players[s] = u /\ u # Nobody
  BY <1>1, UsersAssumption DEF SeatsOf
<1>3. fsm \in {"waiting", "playing", "closed"}
  BY DEF LifecycleInv, PlaysWithARound
<1>4. CASE f(s) = "ready"
  <2>1. fsm = "waiting" /\ AllSeated /\ ready \cup {s} = Seats
    BY <1>3, <1>4 DEF AfterReady, Transition
  <2>2. fsm' = "playing" /\ round' = TRUE /\ ~round /\ out' = {}
    BY <1>1, <1>4, <2>1 DEF Transition, Legal, LifecycleInv, PlaysWithARound
  <2> USE <1>1, <1>2, <2>1, <2>2 DEF LifecycleInv
  <2>3. TypeOK'
    BY DEF TypeOK, States
  <2>4. OneSeatPerUser' /\ PlaysWithARound'
    BY DEF OneSeatPerUser, PlaysWithARound, AllSeated
  <2>5. NeverMissesTheStart' /\ SurrenderMirrorsRound'
    BY DEF NeverMissesTheStart, SurrenderMirrorsRound
  <2>6. QED
    BY <2>3, <2>4, <2>5
<1>5. CASE f(s) # "ready"
  <2>1. fsm' = fsm /\ UNCHANGED <<round, out>>
    BY <1>1, <1>3, <1>5 DEF AfterReady, Transition, Legal
  <2>2. fsm = "waiting" => ~(AllSeated /\ ready \cup {s} = Seats)
    BY <1>5 DEF AfterReady, Transition, Legal
  <2> USE <1>1, <1>2, <2>1 DEF LifecycleInv
  <2>3. TypeOK'
    BY DEF TypeOK
  <2>4. OneSeatPerUser' /\ PlaysWithARound'
    BY DEF OneSeatPerUser, PlaysWithARound, AllSeated
  <2>5. NeverMissesTheStart' /\ SurrenderMirrorsRound'
    BY <2>2 DEF NeverMissesTheStart, SurrenderMirrorsRound, AllSeated
  <2>6. QED
    BY <2>3, <2>4, <2>5
<1>6. QED
  BY <1>4, <1>5

(* Leaving frees the seat, or surrenders it during play (doLeave).         *)
LEMMA LeaveStep ==
    ASSUME LifecycleInv, NEW u \in Users, Leave(u)
    PROVE  LifecycleInv'
<1>1. PICK s \in SeatsOf(u) :
        \/ /\ fsm = "playing" /\ AllowLeave
           /\ surrendered' = surrendered \cup {s}
           /\ out' = IF round THEN out \cup {s} ELSE out
           /\ UNCHANGED <<fsm, players, ready, handIndex, round>>
        \/ /\ fsm # "playing"
           /\ players' = [players EXCEPT ![s] = Nobody]
           /\ ready' = ready \ {s}
           /\ surrendered' = surrendered \ {s}
           /\ fsm' = IF fsm = "ready" THEN Transition(fsm, "waiting") ELSE fsm
           /\ UNCHANGED <<handIndex, round, out>>
  BY DEF Leave, ReadyWithout, Surrender
<1>2. s \in Seats
  BY <1>1 DEF SeatsOf
<1>3. CASE fsm = "playing"
  <2> USE <1>1, <1>2, <1>3 DEF LifecycleInv
  <2>1. round
    BY DEF PlaysWithARound
  <2>2. TypeOK'
    BY DEF TypeOK
  <2>3. OneSeatPerUser' /\ PlaysWithARound' /\ NeverMissesTheStart'
    BY DEF OneSeatPerUser, PlaysWithARound, NeverMissesTheStart, AllSeated
  <2>4. SurrenderMirrorsRound'
    BY <2>1 DEF SurrenderMirrorsRound
  <2>5. QED
    BY <2>2, <2>3, <2>4
<1>4. CASE fsm # "playing"
  <2> USE <1>1, <1>2, <1>4 DEF LifecycleInv
  <2>1. fsm' = fsm /\ ~round /\ UNCHANGED round
    BY DEF PlaysWithARound
  <2>2. TypeOK'
    BY <2>1 DEF TypeOK
  <2>3. players'[s] = Nobody /\ \A o \in Seats \ {s} : players'[o] = players[o]
    BY DEF TypeOK
  <2>4. OneSeatPerUser'
    BY <2>3 DEF OneSeatPerUser
  <2>5. PlaysWithARound'
    BY <2>1 DEF PlaysWithARound
  <2>6. NeverMissesTheStart'
    <3>1. ready' = ready \ {s} /\ ready \subseteq Seats
      BY DEF TypeOK
    <3>2. \A o \in ready' : o \in Seats \ {s}
      BY <3>1
    <3>3. QED
      BY <2>1, <2>3, <3>1, <3>2 DEF NeverMissesTheStart, AllSeated
  <2>7. SurrenderMirrorsRound'
    BY <2>1 DEF SurrenderMirrorsRound
  <2>8. QED
    BY <2>2, <2>4, <2>5, <2>6, <2>7
<1>5. QED
  BY <1>3, <1>4

(* A timeout surrenders a seat in the round before it does in the room     *)
(* (doAutoTimeout, syncSurrenderedFromRound).                              *)
LEMMA TimeoutSurrenderStep ==
    ASSUME LifecycleInv, NEW s \in Seats, TimeoutSurrenders(s)
    PROVE  LifecycleInv'
<1> USE DEF LifecycleInv, TimeoutSurrenders
<1>1. TypeOK'
  BY DEF TypeOK
<1>2. OneSeatPerUser' /\ PlaysWithARound' /\ NeverMissesTheStart'
  BY DEF OneSeatPerUser, PlaysWithARound, NeverMissesTheStart, AllSeated
<1>3. SurrenderMirrorsRound'
  BY DEF SurrenderMirrorsRound
<1>4. QED
  BY <1>1, <1>2, <1>3

(* The end of a round leads to the next hand or to the end of the room     *)
(* (closeRoomAfterRound, PrepareNextHand, CloseRoom).                      *)
LEMMA CloseStep ==
    ASSUME LifecycleInv, fsm = "playing",
           NEW T \in SUBSET Seats, CloseRoomAfterRound(T)
    PROVE  LifecycleInv'
<1> USE DEF LifecycleInv, CloseRoomAfterRound
<1>1. CloseToSettling = "settling"
  BY DEF CloseToSettling, Transition, Legal
<1>2. handIndex \in 1..MaxHands /\ MaxHands \in Nat
  BY HandsAssumption DEF TypeOK
<1>3. CASE CanStartNextHand
  <2>1. /\ fsm' = "waiting" /\ handIndex' = handIndex + 1
        /\ ready' = {} /\ surrendered' = {}
    BY <1>1, <1>3 DEF PrepareNextHand, Transition, Legal
  <2>2. handIndex' \in 1..MaxHands
    BY <1>2, <1>3, <2>1 DEF CanStartNextHand
  <2>3. TypeOK'
    BY <2>1, <2>2 DEF TypeOK, States
  <2>4. OneSeatPerUser' /\ PlaysWithARound' /\ SurrenderMirrorsRound'
    BY <2>1 DEF OneSeatPerUser, PlaysWithARound, SurrenderMirrorsRound
  <2>5. NeverMissesTheStart'
    BY <2>1 DEF NeverMissesTheStart, Seats
  <2>6. QED
    BY <2>3, <2>4, <2>5
<1>4. CASE ~CanStartNextHand
  <2>1. fsm' = "closed" /\ surrendered' = T /\ UNCHANGED <<handIndex, ready>>
    BY <1>1, <1>4 DEF CloseRoom, Transition, Legal
  <2>2. handIndex = MaxHands
    BY <1>2, <1>4 DEF CanStartNextHand
  <2>3. TypeOK'
    BY <2>1 DEF TypeOK, States
  <2>4. OneSeatPerUser' /\ PlaysWithARound' /\ SurrenderMirrorsRound'
    BY <2>1, <2>2 DEF OneSeatPerUser, PlaysWithARound, SurrenderMirrorsRound
  <2>5. NeverMissesTheStart'
    BY <2>1 DEF NeverMissesTheStart
  <2>6. QED
    BY <2>3, <2>4, <2>5
<1>5. QED
  BY <1>3, <1>4

(* The room's invariants hold for every set of users and every number of   *)
(* hands, whatever order the commands come in.                             *)
THEOREM LifecycleHolds == Spec => []LifecycleInv
<1>1. Init => LifecycleInv
  BY InitLifecycle
<1>2. LifecycleInv /\ [Next]_vars => LifecycleInv'
  <2> SUFFICES ASSUME LifecycleInv, [Next]_vars
               PROVE  LifecycleInv'
    OBVIOUS
  <2>1. CASE \E u \in Users : Join(u) \/ Ready(u) \/ Leave(u)
    BY <2>1, JoinStep, ReadyStep, LeaveStep
  <2>2. CASE \E s \in Seats : TimeoutSurrenders(s)
    BY <2>2, TimeoutSurrenderStep
  <2>3. CASE RoundCloses
    <3>1. fsm = "playing" /\ surrendered \in SUBSET Seats /\ out \in SUBSET Seats
      BY <2>3 DEF RoundCloses, LifecycleInv, TypeOK
    <3>2. PICK T \in SUBSET Seats : CloseRoomAfterRound(T)
      BY <2>3, <3>1 DEF RoundCloses
    <3>3. QED
      BY <3>1, <3>2, CloseStep
  <2>4. CASE UNCHANGED vars
    BY <2>4 DEF vars, LifecycleInv, TypeOK, OneSeatPerUser, PlaysWithARound,
                NeverMissesTheStart, SurrenderMirrorsRound, AllSeated
  <2>5. QED
    BY <2>1, <2>2, <2>3, <2>4 DEF Next
<1>3. QED
  BY <1>1, <1>2, PTL DEF Spec

(* Four seated and ready players never wait in vain (SetReady, doReady).   *)
THEOREM StartIsNeverMissed == Spec => []NeverMissesTheStart
BY LifecycleHolds, PTL DEF LifecycleInv

(* A user never holds two seats (JoinAutoSeat). *)
THEOREM SeatsAreUnique == Spec => []OneSeatPerUser
BY LifecycleHolds, PTL DEF LifecycleInv

(* A room plays exactly while it holds a round (doReady,                   *)
(* closeRoomAfterRound).                                                   *)
THEOREM PlayingHasARound == Spec => []PlaysWithARound
BY LifecycleHolds, PTL DEF LifecycleInv

(* The surrenders of the room are surrenders of its round                  *)
(* (syncSurrenderedFromRound, PrepareNextHand).                            *)
THEOREM SurrendersMirrorTheRound == Spec => []SurrenderMirrorsRound
BY LifecycleHolds, PTL DEF LifecycleInv

(* Nobody gains or loses a seat during a hand (Room.Leave surrenders       *)
(* instead), and a closed room stays closed.                               *)
THEOREM SeatsHold == Spec => SeatsHoldDuringPlay
<1>1. [Next]_vars => [/\ fsm = "playing" => players' = players
                      /\ fsm = "closed" => fsm' = "closed"]_vars
  BY DEF Next, Join, Ready, Leave, TimeoutSurrenders, RoundCloses,
         CloseRoomAfterRound, CloseToSettling, PrepareNextHand, CloseRoom,
         Surrender, StartPlaying, AfterReady, vars, Transition, Legal
<1>2. QED
  BY <1>1, PTL DEF Spec, SeatsHoldDuringPlay
=============================================================================
