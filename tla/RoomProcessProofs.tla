-------------------------- MODULE RoomProcessProofs --------------------------
(***************************************************************************)
(* RoomProcess for every number of players, seats, handlers, hands, steps, *)
(* requests, crashes and failing store calls: one loop serves the room,    *)
(* nothing is told that is not stored, a settled hand is never played on,  *)
(* a view of the round covers its cursor, and the log is a journal.        *)
(***************************************************************************)
EXTENDS RoomProcess, SequenceTheorems, WellFoundedInduction, TLAPS

(* The inductive invariant: the safety properties and what they rest on.   *)
IInv == ProcessInv /\ SnapshotWithinLog /\ PlayingHasRound /\ ViewCoversCursor

-----------------------------------------------------------------------------
(* The operators. *)

(* The values every variable starts from. *)
LEMMA Blanks ==
    /\ NoRound \in Rounds /\ NoSnap \in Snapshots /\ Idle \in Requests
    /\ NoRoom \in Rooms
    /\ <<>> \notin Seatings
<1>1. NoRound \in Rounds
  BY DEF NoRound, Rounds
<1>2. NoSnap \in Snapshots
  BY <1>1 DEF NoSnap, Snapshots, States
<1>3. Idle \in Requests
  BY <1>2 DEF Idle, Requests, Bodies, Places
<1>4. NoRoom \in Rooms
  BY DEF NoRoom, Rooms, States, Seatings
<1>5. ASSUME <<>> \in Seatings PROVE FALSE
  BY <1>5, SeatsAssumption DEF Seatings
<1>6. QED
  BY <1>1, <1>2, <1>3, <1>4, <1>5

(* The notifications of a command. *)
LEMMA StepType ==
    ASSUME NEW r \in Rounds
    PROVE  \A k \in {<<"initial_deal">>, <<"action">>, <<"action", "settlement">>} :
              /\ Step(k, r) \in Seq(Events) /\ Len(Step(k, r)) = Len(k)
              /\ DOMAIN Step(k, r) = DOMAIN k /\ Step(k, r) # <<>>
              /\ \A i \in DOMAIN k : Step(k, r)[i] =
                    [kind |-> k[i], game |-> r.game, step |-> r.step]
<1> SUFFICES ASSUME NEW k \in {<<"initial_deal">>, <<"action">>, <<"action", "settlement">>}
             PROVE  /\ Step(k, r) \in Seq(Events) /\ Len(Step(k, r)) = Len(k)
                    /\ DOMAIN Step(k, r) = DOMAIN k /\ Step(k, r) # <<>>
                    /\ \A i \in DOMAIN k : Step(k, r)[i] =
                          [kind |-> k[i], game |-> r.game, step |-> r.step]
  OBVIOUS
<1>1. /\ Len(k) \in {1, 2} /\ DOMAIN k = 1..Len(k)
      /\ \A i \in DOMAIN k : k[i] \in {"initial_deal", "action", "settlement"}
  OBVIOUS
<1>2. \A i \in DOMAIN k : [kind |-> k[i], game |-> r.game, step |-> r.step] \in Events
  BY <1>1 DEF Events, Rounds
<1>3. Step(k, r) \in [1..Len(k) -> Events]
  BY <1>1, <1>2 DEF Step
<1>4. Step(k, r) \in Seq(Events) /\ Len(Step(k, r)) = Len(k)
  BY <1>1, <1>3, IsASeq
<1>5. DOMAIN Step(k, r) = DOMAIN k
  BY DEF Step
<1>6. Step(k, r) # <<>>
  BY <1>1, <1>4
<1>7. \A i \in DOMAIN k : Step(k, r)[i] = [kind |-> k[i], game |-> r.game, step |-> r.step]
  BY DEF Step
<1>8. QED
  BY <1>4, <1>5, <1>6, <1>7

LEMMA BatchType ==
    ASSUME TypeOK
    PROVE  Batches \subseteq Seq(Events)
<1>1. \A g \in 1..(games + 1), n \in 1..(MaxSteps + 1) : [game |-> g, step |-> n] \in Rounds
  BY BoundAssumption DEF TypeOK, Rounds
<1>2. \A k \in {<<"initial_deal">>, <<"action">>, <<"action", "settlement">>} :
          \A g \in 1..(games + 1), n \in 1..(MaxSteps + 1) :
              Step(k, [game |-> g, step |-> n]) \in Seq(Events)
  BY <1>1, StepType
<1>3. <<>> \in Seq(Events)
  OBVIOUS
<1>4. ASSUME NEW b \in Batches PROVE b \in Seq(Events)
  <2>1. CASE b = <<>>
    BY <1>3, <2>1
  <2>2. CASE b # <<>>
    <3>1. PICK k \in {<<"initial_deal">>, <<"action">>, <<"action", "settlement">>},
               g \in 1..(games + 1), n \in 1..(MaxSteps + 1) :
                  b = Step(k, [game |-> g, step |-> n])
      BY <2>2 DEF Batches
    <3>2. QED
      BY <1>2, <3>1, Zenon
  <2>3. QED
    BY <2>1, <2>2
<1>5. QED
  BY <1>4

(* AppendEvents: stored rows keep their number, the batch comes behind.    *)
LEMMA LogGrows ==
    ASSUME log \in Seq(Events), NEW b \in Seq(Events), log' = log \o b
    PROVE  /\ log' \in Seq(Events) /\ Len(log') = Len(log) + Len(b)
           /\ Len(log) \in Nat /\ Len(b) \in Nat
           /\ DOMAIN log = 1..Len(log) /\ DOMAIN b = 1..Len(b)
           /\ DOMAIN log' = 1..(Len(log) + Len(b))
           /\ \A i \in DOMAIN log : log'[i] = log[i]
           /\ \A i \in DOMAIN b : log'[Len(log) + i] = b[i]
           /\ \A i \in DOMAIN log' : i \in DOMAIN log
                                     \/ (i - Len(log) \in DOMAIN b /\ log'[i] = b[i - Len(log)])
  BY ConcatProperties

(* What is never below one seq and another is one of them.                 *)
LEMMA MaxOfTwo ==
    ASSUME NEW a \in Nat, NEW b \in Nat
    PROVE  Max({a, b}) \in {a, b}
<1>1. PICK m \in {a, b} : \A y \in {a, b} : m >= y
  <2>1. CASE a >= b
    BY <2>1
  <2>2. CASE b >= a
    BY <2>2
  <2>3. QED
    BY <2>1, <2>2
<1>2. QED
  BY <1>1 DEF Max

-----------------------------------------------------------------------------
(* The requests.  A step of handler h moves only its own request.          *)

Moved(h) ==
    /\ serving' \in [Handlers -> Requests]
    /\ \A g \in Handlers \ {h} : serving'[g] = serving[g]

(* Where that request then stands and what it carries.                     *)
Stands(h, pc, batch, base, at, seen) ==
    /\ Moved(h)
    /\ serving'[h].pc = pc /\ serving'[h].batch = batch
    /\ serving'[h].base = base /\ serving'[h].at = at /\ serving'[h].seen = seen

LEMMA OneRequest ==
    ASSUME TypeOK, NEW h \in Handlers, NEW q \in Requests,
           serving' = [serving EXCEPT ![h] = q]
    PROVE  Moved(h) /\ serving'[h] = q
  BY DEF TypeOK, Moved

LEMMA ReplyServes ==
    ASSUME TypeOK, NEW h \in Handlers, Reply(h)
    PROVE  Moved(h) /\ serving'[h] = Idle
  BY Blanks, OneRequest DEF Reply

LEMMA GotoServes ==
    ASSUME TypeOK, NEW h \in Handlers, NEW pc \in Places, Goto(h, pc)
    PROVE  Stands(h, pc, serving[h].batch, serving[h].base, serving[h].at, serving[h].seen)
<1> DEFINE q == [serving[h] EXCEPT !.pc = pc]
<1>1. serving[h] \in Requests
  BY DEF TypeOK
<1>2. q \in Requests
  BY <1>1 DEF Requests
<1>3. serving' = [serving EXCEPT ![h] = q]
  BY DEF Goto
<1>4. Moved(h) /\ serving'[h] = q
  BY <1>2, <1>3, OneRequest
<1>5. QED
  BY <1>1, <1>4 DEF Stands, Requests

LEMMA MetaDoneServes ==
    ASSUME TypeOK, NEW h \in Handlers, MetaDone(h)
    PROVE  Stands(h, IF serving[h].batch = <<>> THEN "exec" ELSE "mark", serving[h].batch,
                  serving[h].base, serving[h].at, NoSnap)
<1> DEFINE pc == IF serving[h].batch = <<>> THEN "exec" ELSE "mark"
           q == [serving[h] EXCEPT !.seen = NoSnap, !.pc = pc]
<1>1. serving[h] \in Requests
  BY DEF TypeOK
<1>2. q \in Requests
  BY <1>1, Blanks DEF Requests, Places
<1>3. serving' = [serving EXCEPT ![h] = q]
  BY <1>1 DEF MetaDone, TypeOK
<1>4. Moved(h) /\ serving'[h] = q
  BY <1>2, <1>3, OneRequest
<1>5. QED
  BY <1>1, <1>4 DEF Stands, Requests

LEMMA BeginServes ==
    ASSUME TypeOK, NEW h \in Handlers, Begin(h)
    PROVE  \/ UNCHANGED serving
           \/ Stands(h, "ensure", <<>>, 0, 0, NoSnap)
<1>1. SUFFICES ASSUME NEW u \in Users, NEW b \in Bodies, NEW k \in {FALSE, (b \in Keyed)},
                      serving' = [serving EXCEPT ![h] = [Idle EXCEPT
                         !.pc = "ensure", !.user = u, !.body = b, !.keyed = k]]
               PROVE  Stands(h, "ensure", <<>>, 0, 0, NoSnap)
  BY Zenon DEF Begin
<1> DEFINE q == [Idle EXCEPT !.pc = "ensure", !.user = u, !.body = b, !.keyed = k]
<1>2. k \in BOOLEAN
  <2>1. (b \in Keyed) \in BOOLEAN
    OBVIOUS
  <2>2. k = FALSE \/ k = (b \in Keyed)
    BY Zenon
  <2>3. QED
    BY <2>1, <2>2, Zenon
<1>3. q \in Requests
  BY <1>2, Blanks DEF Requests, Places
<1>4. Moved(h) /\ serving'[h] = q
  BY <1>1, <1>3, OneRequest
<1>5. /\ q.pc = "ensure" /\ q.batch = <<>> /\ q.base = 0 /\ q.at = 0 /\ q.seen = NoSnap
  BY DEF Idle
<1>6. QED
  BY <1>4, <1>5 DEF Stands

LEMMA TimeoutServes ==
    ASSUME TypeOK, NEW h \in Handlers, AutoTimeout(h)
    PROVE  \E batch \in Seq(Events) : DoMove(batch) /\ Stands(h, "append", batch, 0, 0, NoSnap)
<1>1. PICK batch \in Batches :
         /\ DoMove(batch)
         /\ serving' = [serving EXCEPT ![h] = [Idle EXCEPT !.pc = "append",
                          !.body = "timeout", !.batch = batch]]
  BY DEF AutoTimeout
<1>2. batch \in Seq(Events)
  BY BatchType
<1> DEFINE q == [Idle EXCEPT !.pc = "append", !.body = "timeout", !.batch = batch]
<1>3. q \in Requests
  BY <1>2, Blanks DEF Requests, Places
<1>4. Moved(h) /\ serving'[h] = q
  BY <1>1, <1>3, OneRequest
<1>5. /\ q.pc = "append" /\ q.batch = batch /\ q.base = 0 /\ q.at = 0 /\ q.seen = NoSnap
  BY DEF Idle
<1>6. Stands(h, "append", batch, 0, 0, NoSnap)
  BY <1>4, <1>5 DEF Stands
<1>7. QED
  BY <1>1, <1>2, <1>6

(* A command runs and its batch waits to be stored, or it is refused.      *)
LEMMA ExecuteServes ==
    ASSUME TypeOK, NEW h \in Handlers, Execute(h)
    PROVE  \/ /\ Moved(h) /\ serving'[h] = Idle
              /\ UNCHANGED <<room, round, games, done>>
              /\ IF actor = "run" THEN AfterMessage ELSE UNCHANGED actor
           \/ \E batch \in Seq(Events) :
                /\ Command(serving[h].body, serving[h].user, batch)
                /\ actor = "run" \/ serving[h].body \in {"join", "signal"}
                /\ IF serving[h].body = "join" \/ actor # "run" THEN UNCHANGED actor
                   ELSE AfterMessage
                /\ Stands(h, CASE serving[h].body = "signal" -> "reply"
                               [] serving[h].body \in {"join", "leave"} -> "mark"
                               [] OTHER -> "append",
                          batch, serving[h].base, serving[h].at, serving[h].seen)
<1> DEFINE body == serving[h].body
           pc == CASE body = "signal" -> "reply"
                   [] body \in {"join", "leave"} -> "mark"
                   [] OTHER -> "append"
<1>1. CASE /\ Reply(h)
           /\ IF actor = "run" THEN actor' = (IF room.fsm = "closed" THEN "closing" ELSE "run")
              ELSE UNCHANGED actor
           /\ UNCHANGED <<room, round, games, done>>
  BY <1>1, ReplyServes DEF AfterMessage
<1>2. CASE /\ actor = "run" \/ body \in {"join", "signal"}
           /\ \E batch \in Batches :
                 /\ Command(body, serving[h].user, batch)
                 /\ serving' = [serving EXCEPT ![h].batch = batch, ![h].pc = pc]
           /\ IF body \in {"join"} THEN UNCHANGED actor
              ELSE IF actor = "run" THEN AfterMessage ELSE UNCHANGED actor
  <2>1. PICK batch \in Batches :
                 /\ Command(body, serving[h].user, batch)
                 /\ serving' = [serving EXCEPT ![h].batch = batch, ![h].pc = pc]
    BY <1>2
  <2>2. batch \in Seq(Events)
    BY BatchType
  <2> DEFINE q == [serving[h] EXCEPT !.batch = batch, !.pc = pc]
  <2>3. serving[h] \in Requests /\ pc \in Places
    BY DEF TypeOK, Places
  <2> HIDE DEF pc
  <2>4. q \in Requests
    BY <2>2, <2>3 DEF Requests
  <2>5. serving' = [serving EXCEPT ![h] = q]
    BY <2>1, <2>3 DEF TypeOK
  <2>6. Moved(h) /\ serving'[h] = q
    BY <2>4, <2>5, OneRequest
  <2>7. Stands(h, pc, batch, serving[h].base, serving[h].at, serving[h].seen)
    BY <2>3, <2>6 DEF Stands, Requests
  <2>8. IF body = "join" \/ actor # "run" THEN UNCHANGED actor ELSE AfterMessage
    BY <1>2
  <2> USE DEF pc
  <2>9. QED
    BY <1>2, <2>1, <2>2, <2>7, <2>8, Zenon
<1>3. QED
  BY <1>1, <1>2, Zenon DEF Execute

LEMMA AppendServes ==
    ASSUME TypeOK, NEW h \in Handlers, AppendEvents(h)
    PROVE  \/ /\ UNCHANGED log /\ serving[h].batch = <<>>
              /\ Stands(h, "mark", <<>>, serving[h].base, serving[h].at, serving[h].seen)
           \/ /\ log' = log \o serving[h].batch /\ serving[h].batch # <<>>
              /\ Stands(h, "effects", serving[h].batch, Len(log), serving[h].at,
                        serving[h].seen)
           \/ UNCHANGED log /\ Moved(h) /\ serving'[h] = Idle
<1>1. serving[h] \in Requests /\ {"mark", "effects"} \subseteq Places
  BY DEF TypeOK, Places
<1>2. CASE serving[h].batch = <<>> /\ Goto(h, "mark") /\ UNCHANGED log
  BY <1>1, <1>2, GotoServes
<1>3. CASE Reply(h) /\ UNCHANGED log
  BY <1>3, ReplyServes
<1>4. CASE /\ log' = log \o serving[h].batch /\ serving[h].batch # <<>>
           /\ serving' = [serving EXCEPT ![h].pc = "effects", ![h].base = Len(log)]
  <2> DEFINE q == [serving[h] EXCEPT !.pc = "effects", !.base = Len(log)]
  <2>1. Len(log) \in Nat
    BY DEF TypeOK
  <2>2. q \in Requests
    BY <1>1, <2>1 DEF Requests
  <2>3. serving' = [serving EXCEPT ![h] = q]
    BY <1>1, <1>4 DEF TypeOK
  <2>4. Moved(h) /\ serving'[h] = q
    BY <2>2, <2>3, OneRequest
  <2>5. Stands(h, "effects", serving[h].batch, Len(log), serving[h].at, serving[h].seen)
    BY <1>1, <2>4 DEF Stands, Requests
  <2>6. QED
    BY <1>4, <2>5
<1>5. QED
  BY <1>2, <1>3, <1>4 DEF AppendEvents

LEMMA EffectsServes ==
    ASSUME TypeOK, NEW h \in Handlers, Effects(h)
    PROVE  Stands(h, IF serving[h].at + 1 = Len(serving[h].batch) THEN "meta_prev"
                     ELSE "effects",
                  serving[h].batch, serving[h].base, serving[h].at + 1, serving[h].seen)
<1> DEFINE pc == IF serving[h].at + 1 = Len(serving[h].batch) THEN "meta_prev" ELSE "effects"
           q == [serving[h] EXCEPT !.at = @ + 1, !.pc = pc]
<1>1. serving[h] \in Requests /\ pc \in Places
  BY DEF TypeOK, Places
<1>2. serving' = [serving EXCEPT ![h].at = @ + 1, ![h].pc = pc]
  BY DEF Effects
<1> HIDE DEF pc
<1>3. q \in Requests
  <2>1. serving[h].at + 1 \in Nat
    BY <1>1 DEF Requests
  <2>2. q = [serving[h] EXCEPT !.at = serving[h].at + 1, !.pc = pc]
    BY <1>1
  <2>3. \A n \in Nat : [serving[h] EXCEPT !.at = n, !.pc = pc] \in Requests
    BY <1>1 DEF Requests
  <2>4. QED
    BY <2>1, <2>2, <2>3
<1>4. serving' = [serving EXCEPT ![h] = q]
  BY <1>1, <1>2 DEF TypeOK
<1>5. Moved(h) /\ serving'[h] = q
  BY <1>3, <1>4, OneRequest
<1>6. Stands(h, pc, serving[h].batch, serving[h].base, serving[h].at + 1, serving[h].seen)
  BY <1>1, <1>5 DEF Stands, Requests
<1>7. QED
  BY <1>6 DEF pc

(* What the reads of persistRoomMeta leave in the request.                 *)
LEMMA SeenServes ==
    ASSUME TypeOK, NEW h \in Handlers, NEW pc \in Places, NEW s \in Snapshots,
           serving' = [serving EXCEPT ![h] = [serving[h] EXCEPT !.pc = pc, !.seen = s]]
    PROVE  Stands(h, pc, serving[h].batch, serving[h].base, serving[h].at, s)
<1> DEFINE q == [serving[h] EXCEPT !.pc = pc, !.seen = s]
<1>1. serving[h] \in Requests
  BY DEF TypeOK
<1>2. q \in Requests
  BY <1>1 DEF Requests
<1>3. Moved(h) /\ serving'[h] = q
  BY <1>2, OneRequest
<1>4. /\ q.pc = pc /\ q.seen = s /\ q.batch = serving[h].batch /\ q.base = serving[h].base
      /\ q.at = serving[h].at
  BY <1>1 DEF Requests
<1>5. QED
  BY <1>3, <1>4, Zenon DEF Stands

LEMMA MetaPrevServes ==
    ASSUME TypeOK, NEW h \in Handlers, MetaPrev(h)
    PROVE  \/ MetaDone(h)
           \/ Stands(h, "meta_room", serving[h].batch, serving[h].base, serving[h].at,
                     [serving[h].seen EXCEPT !.seq = snap.seq])
<1>1. SUFFICES ASSUME serving' = [serving EXCEPT ![h].seen.seq = snap.seq,
                                                 ![h].pc = "meta_room"]
               PROVE  Stands(h, "meta_room", serving[h].batch, serving[h].base,
                             serving[h].at, [serving[h].seen EXCEPT !.seq = snap.seq])
  BY DEF MetaPrev
<1> DEFINE s == [serving[h].seen EXCEPT !.seq = snap.seq]
<1>2. serving[h] \in Requests /\ snap \in Snapshots
  BY DEF TypeOK
<1>3. s \in Snapshots /\ "meta_room" \in Places
  BY <1>2 DEF Snapshots, Requests, Places
<1>4. serving' = [serving EXCEPT ![h] = [serving[h] EXCEPT !.pc = "meta_room", !.seen = s]]
  BY <1>1, <1>2 DEF TypeOK, Requests
<1>5. QED
  BY <1>3, <1>4, SeenServes

LEMMA MetaRoomServes ==
    ASSUME TypeOK, NEW h \in Handlers, MetaRoom(h)
    PROVE  \/ MetaDone(h)
           \/ Stands(h, "meta_round", serving[h].batch, serving[h].base, serving[h].at,
                     [serving[h].seen EXCEPT !.players = room.players, !.fsm = room.fsm])
<1>1. SUFFICES ASSUME serving' = [serving EXCEPT ![h].pc = "meta_round",
                         ![h].seen.players = room.players, ![h].seen.fsm = room.fsm]
               PROVE  Stands(h, "meta_round", serving[h].batch, serving[h].base,
                             serving[h].at, [serving[h].seen EXCEPT
                                !.players = room.players, !.fsm = room.fsm])
  BY DEF MetaRoom, MetaRefused
<1> DEFINE s == [serving[h].seen EXCEPT !.players = room.players, !.fsm = room.fsm]
<1>2. /\ serving[h] \in Requests /\ room.players \in Seatings /\ room.fsm \in States
      /\ serving[h].seen \in Snapshots
  BY DEF TypeOK, Requests, Rooms
<1>3. s \in Snapshots /\ "meta_round" \in Places
  BY <1>2 DEF Snapshots, Places
<1>4. serving' = [serving EXCEPT ![h] = [serving[h] EXCEPT !.pc = "meta_round", !.seen = s]]
  BY <1>1, <1>2 DEF TypeOK, Requests
<1>5. QED
  BY <1>3, <1>4, SeenServes

LEMMA MetaRoundServes ==
    ASSUME TypeOK, NEW h \in Handlers, MetaRound(h)
    PROVE  \/ MetaDone(h)
           \/ Stands(h, "meta_put", serving[h].batch, serving[h].base, serving[h].at,
                     [serving[h].seen EXCEPT !.round = round])
<1>1. SUFFICES ASSUME serving' = [serving EXCEPT ![h].pc = "meta_put", ![h].seen.round = round]
               PROVE  Stands(h, "meta_put", serving[h].batch, serving[h].base,
                             serving[h].at, [serving[h].seen EXCEPT !.round = round])
  BY DEF MetaRound, MetaRefused
<1> DEFINE s == [serving[h].seen EXCEPT !.round = round]
<1>2. serving[h] \in Requests /\ round \in Rounds /\ serving[h].seen \in Snapshots
  BY DEF TypeOK, Requests
<1>3. s \in Snapshots /\ "meta_put" \in Places
  BY <1>2 DEF Snapshots, Places
<1>4. serving' = [serving EXCEPT ![h] = [serving[h] EXCEPT !.pc = "meta_put", !.seen = s]]
  BY <1>1, <1>2 DEF TypeOK, Requests
<1>5. QED
  BY <1>3, <1>4, SeenServes

(* What the reads of SnapshotRoom leave in it.                             *)
LEMMA SnapshotServes ==
    ASSUME TypeOK, NEW h \in Handlers, SnapshotRoom(h)
    PROVE  \/ UNCHANGED serving
           \/ \E f \in States, r \in {NoRound, snap.round} :
                 Stands(h, "cursor", <<>>, 0, 0, [NoSnap EXCEPT !.fsm = f, !.round = r])
           \/ /\ serving[h].pc = "cursor"
              /\ \E n \in {0, Len(log)}, pc \in {"view", "shown"} :
                    /\ Stands(h, pc, serving[h].batch, serving[h].base, serving[h].at,
                              [serving[h].seen EXCEPT !.seq = n])
                    /\ pc = "shown" => serving'[h].body # "snapshot"
           \/ /\ serving[h].pc = "view"
              /\ \/ Stands(h, "shown", serving[h].batch, serving[h].base, serving[h].at,
                           [serving[h].seen EXCEPT !.round = round])
                 \/ /\ Stands(h, "shown", serving[h].batch, serving[h].base, serving[h].at,
                              serving[h].seen)
                    /\ serving'[h].body # "snapshot"
<1>1. /\ serving[h] \in Requests /\ round \in Rounds /\ snap \in Snapshots
      /\ serving[h].seen \in Snapshots /\ Len(log) \in Nat /\ room.fsm \in States
      /\ serving[h].body \in Bodies \cup {"none", "timeout", "snapshot", "stored", "refused"}
  BY DEF TypeOK, Requests, Rooms
<1>2. snap.round \in Rounds /\ snap.fsm \in States
  BY <1>1 DEF Snapshots
<1>3. ASSUME NEW body \in {"snapshot", "stored"}, NEW f \in States, NEW r \in Rounds,
             serving' = [serving EXCEPT ![h] = [Idle EXCEPT !.pc = "cursor", !.body = body,
                           !.seen = [NoSnap EXCEPT !.fsm = f, !.round = r]]]
      PROVE  Stands(h, "cursor", <<>>, 0, 0, [NoSnap EXCEPT !.fsm = f, !.round = r])
  <2> DEFINE s == [NoSnap EXCEPT !.fsm = f, !.round = r]
             q == [Idle EXCEPT !.pc = "cursor", !.body = body, !.seen = s]
  <2>1. s \in Snapshots
    BY Blanks DEF Snapshots
  <2> HIDE DEF s
  <2>2. q \in Requests
    BY <2>1, Blanks DEF Requests, Places
  <2>3. Moved(h) /\ serving'[h] = q
    BY <1>3, <2>2, OneRequest DEF s
  <2>4. q.pc = "cursor" /\ q.batch = <<>> /\ q.base = 0 /\ q.at = 0 /\ q.seen = s
    BY DEF Idle
  <2>5. QED
    BY <2>3, <2>4 DEF Stands, s
<1>4. CASE SnapshotState(h)
  <2>1. NoRound \in Rounds
    BY Blanks
  <2>2. QED
    BY <1>1, <1>2, <1>3, <1>4, <2>1 DEF SnapshotState
<1>5. CASE SnapshotCursor(h)
  <2> DEFINE pc == IF serving[h].body = "snapshot" THEN "view" ELSE "shown"
  <2>1. PICK n \in {0, Len(log)} :
           serving' = [serving EXCEPT ![h].seen.seq = n, ![h].pc = pc]
    BY <1>5 DEF SnapshotCursor, MaxSeq
  <2> DEFINE s == [serving[h].seen EXCEPT !.seq = n]
             q == [serving[h] EXCEPT !.pc = pc, !.seen = s]
  <2>2. s \in Snapshots /\ pc \in Places /\ pc \in {"view", "shown"}
    BY <1>1 DEF Snapshots, Places
  <2>3. serving' = [serving EXCEPT ![h] = q]
    BY <1>1, <2>1 DEF TypeOK, Requests
  <2>4. pc = "shown" => serving[h].body # "snapshot"
    OBVIOUS
  <2> HIDE DEF s, pc
  <2>5. Stands(h, pc, serving[h].batch, serving[h].base, serving[h].at, s)
    BY <2>2, <2>3, SeenServes
  <2>6. serving'[h].body = serving[h].body
    BY <1>1, <2>3 DEF TypeOK, Requests
  <2>7. QED
    BY <1>5, <2>2, <2>4, <2>5, <2>6 DEF SnapshotCursor, s
<1>6. CASE SnapshotView(h)
  <2>1. CASE serving' = [serving EXCEPT ![h].pc = "shown", ![h].seen.round = round]
    <3> DEFINE s == [serving[h].seen EXCEPT !.round = round]
    <3>1. s \in Snapshots /\ "shown" \in Places
      BY <1>1 DEF Snapshots, Places
    <3>2. serving' = [serving EXCEPT ![h] = [serving[h] EXCEPT !.pc = "shown", !.seen = s]]
      BY <1>1, <2>1 DEF TypeOK, Requests
    <3>3. QED
      BY <1>6, <3>1, <3>2, SeenServes DEF SnapshotView
  <2>2. CASE serving' = [serving EXCEPT ![h].pc = "shown", ![h].body = "refused"]
    <3> DEFINE q == [serving[h] EXCEPT !.pc = "shown", !.body = "refused"]
    <3>1. q \in Requests
      BY <1>1 DEF Requests, Places
    <3>2. serving' = [serving EXCEPT ![h] = q]
      BY <1>1, <2>2 DEF TypeOK, Requests
    <3>3. Moved(h) /\ serving'[h] = q
      BY <3>1, <3>2, OneRequest
    <3>4. /\ q.pc = "shown" /\ q.body = "refused" /\ q.seen = serving[h].seen
          /\ q.batch = serving[h].batch /\ q.base = serving[h].base /\ q.at = serving[h].at
      BY <1>1 DEF Requests
    <3>5. QED
      BY <1>6, <3>3, <3>4 DEF Stands, SnapshotView
  <2>3. QED
    BY <1>6, <2>1, <2>2 DEF SnapshotView
<1>7. QED
  BY <1>4, <1>5, <1>6 DEF SnapshotRoom

-----------------------------------------------------------------------------
(* The commands of the actor. *)

LEMMA ReadyTypes ==
    ASSUME TypeOK, NEW u, NEW batch, DoReady(u, batch)
    PROVE  /\ room' \in Rooms /\ round' \in Rounds /\ done' \in Rounds
           /\ round'.step \in 0..MaxSteps /\ games' \in Nat
<1> DEFINE R == room.ready \cup {s \in Seats : room.players[s] = u}
<1>1. room \in Rooms /\ R \in SUBSET Seats /\ games \in Nat
  BY DEF TypeOK, Rooms
<1>2. CASE /\ room' = [room EXCEPT !.ready = R, !.fsm = "playing"]
           /\ games' = games + 1 /\ round' = [game |-> games + 1, step |-> 1]
           /\ done' = round'
  <2>1. room' \in Rooms
    BY <1>1, <1>2 DEF Rooms, States
  <2>2. round' \in Rounds /\ round'.step \in 0..MaxSteps
    BY <1>1, <1>2, BoundAssumption DEF Rounds
  <2>3. QED
    BY <1>1, <1>2, <2>1, <2>2
<1>3. CASE /\ room' = [room EXCEPT !.ready = R,
                         !.fsm = IF @ = "ready" THEN "waiting" ELSE @]
           /\ UNCHANGED <<round, games, done>>
  <2>1. room' \in Rooms
    BY <1>1, <1>3 DEF Rooms, States
  <2>2. QED
    BY <1>3, <2>1 DEF TypeOK
<1>4. QED
  BY <1>2, <1>3 DEF DoReady

LEMMA MoveTypes ==
    ASSUME TypeOK, NEW batch, DoMove(batch)
    PROVE  /\ room' \in Rooms /\ round' \in Rounds /\ done' \in Rounds
           /\ round'.step \in 0..MaxSteps /\ games' \in Nat
<1> DEFINE r == [round EXCEPT !.step = @ + 1]
<1>1. room \in Rooms /\ round \in Rounds /\ games \in Nat /\ round.step \in Nat
  BY DEF TypeOK, Rounds
<1>2. r \in Rounds /\ r.step = round.step + 1 /\ r.game = round.game
  BY <1>1 DEF Rounds
<1>3. done' = r /\ games' = games
  BY DEF DoMove
<1>4. CASE r.step < MaxSteps /\ round' = r /\ UNCHANGED room
  BY <1>1, <1>2, <1>3, <1>4, BoundAssumption
<1>5. CASE round' = NoRound /\ room' = [room EXCEPT !.fsm = "waiting", !.ready = {},
                                                    !.hand = @ + 1]
  <2>1. room' \in Rooms
    <3>1. \A n \in Nat : [room EXCEPT !.fsm = "waiting", !.ready = {}, !.hand = n] \in Rooms
      BY <1>1 DEF Rooms, States
    <3>2. room.hand + 1 \in Nat
      BY <1>1 DEF Rooms
    <3>3. QED
      BY <1>1, <1>5, <3>1, <3>2
  <2>2. QED
    BY <1>1, <1>2, <1>3, <1>5, <2>1, Blanks, BoundAssumption DEF NoRound
<1>6. CASE round' = NoRound /\ room' = [room EXCEPT !.fsm = "closed"]
  <2>1. room' \in Rooms
    BY <1>1, <1>6 DEF Rooms, States
  <2>2. QED
    BY <1>1, <1>2, <1>3, <1>6, <2>1, Blanks, BoundAssumption DEF NoRound
<1>7. QED
  BY <1>4, <1>5, <1>6 DEF DoMove

LEMMA LeaveTypes ==
    ASSUME TypeOK, NEW u, NEW batch, DoLeave(u, batch)
    PROVE  /\ room' \in Rooms /\ round' \in Rounds /\ done' \in Rounds
           /\ round'.step \in 0..MaxSteps /\ games' \in Nat
<1> DEFINE mine == {s \in Seats : room.players[s] = u}
           freed == [s \in Seats |-> IF s \in mine THEN Nobody ELSE room.players[s]]
           fsm == IF room.fsm = "ready" THEN "waiting" ELSE room.fsm
<1>1. room \in Rooms /\ room.players \in Seatings /\ room.ready \in SUBSET Seats
  BY DEF TypeOK, Rooms
<1>2. freed \in Seatings /\ room.ready \ mine \in SUBSET Seats /\ fsm \in States
  BY <1>1 DEF Seatings, Rooms, States
<1>3. room' \in Rooms
  <2>1. CASE room' = room
    BY <1>1, <2>1
  <2>2. CASE room' = [room EXCEPT !.players = freed, !.ready = room.ready \ mine, !.fsm = fsm]
    <3> HIDE DEF freed, mine, fsm
    <3>1. QED
      BY <1>1, <1>2, <2>2 DEF Rooms
  <2>3. QED
    BY <1>1, <2>1, <2>2 DEF DoLeave, Rooms
<1>4. QED
  BY <1>3 DEF DoLeave, TypeOK

LEMMA CommandTypes ==
    ASSUME TypeOK, NEW body, NEW u, NEW batch, Command(body, u, batch)
    PROVE  /\ room' \in Rooms /\ round' \in Rounds /\ done' \in Rounds
           /\ round'.step \in 0..MaxSteps /\ games' \in Nat
<1>1. CASE DoReady(u, batch)
  BY <1>1, ReadyTypes
<1>2. CASE DoMove(batch)
  BY <1>2, MoveTypes
<1>3. CASE DoLeave(u, batch)
  BY <1>3, LeaveTypes
<1>4. CASE Nothing(batch)
  BY <1>4 DEF Nothing, TypeOK
<1>5. QED
  BY <1>1, <1>2, <1>3, <1>4 DEF Command

LEMMA JoinTypes ==
    ASSUME TypeOK, NEW h \in Handlers, Join(h)
    PROVE  /\ room' \in Rooms /\ room'.fsm = room.fsm
           /\ actor' \in {"none", "run", "closing"}
           /\ \/ Moved(h) /\ serving'[h] = Idle
              \/ Stands(h, "meta_prev", serving[h].batch, serving[h].base, serving[h].at,
                        serving[h].seen)
<1> DEFINE u == serving[h].user
           p == [room.players EXCEPT ![FirstFree] = u]
<1>1. u \in Users \cup {Nobody} /\ room \in Rooms /\ room.players \in Seatings
  BY DEF TypeOK, Requests, Rooms
<1>2. p \in Seatings
  BY <1>1 DEF Seatings
<1>3. room' = room \/ room' = [room EXCEPT !.players = p]
  BY <1>1 DEF Join, Rooms
<1>4. room' \in Rooms /\ room'.fsm = room.fsm
  <2> HIDE DEF p
  <2>1. QED
    BY <1>1, <1>2, <1>3 DEF Rooms
<1>5. actor' \in {"none", "run", "closing"}
  BY DEF Join, AfterMessage, TypeOK
<1>6. \/ Moved(h) /\ serving'[h] = Idle
      \/ Stands(h, "meta_prev", serving[h].batch, serving[h].base, serving[h].at,
                serving[h].seen)
  <2>1. CASE Reply(h)
    BY <2>1, ReplyServes
  <2>2. CASE Goto(h, "meta_prev")
    BY <2>2, GotoServes DEF Places
  <2>3. QED
    BY <2>1, <2>2 DEF Join
<1>7. QED
  BY <1>4, <1>5, <1>6

-----------------------------------------------------------------------------
(* The recovery. *)

LEMMA ReseatedType ==
    ASSUME NEW players \in Seatings
    PROVE  Reseated(players) \in Seatings
<1> DEFINE nth(s) == {t \in Seats : /\ players[t] # Nobody
                                    /\ s = Cardinality({o \in 1..t : players[o] # Nobody})}
<1>1. ASSUME NEW s \in Seats, nth(s) # {}
      PROVE  players[CHOOSE t \in nth(s) : TRUE] \in Users \cup {Nobody}
  <2>1. (CHOOSE t \in nth(s) : TRUE) \in nth(s)
    BY <1>1, Zenon
  <2>2. (CHOOSE t \in nth(s) : TRUE) \in Seats
    BY <2>1
  <2>3. QED
    BY <2>2 DEF Seatings
<1>2. Reseated(players) = [s \in Seats |-> IF nth(s) = {} THEN Nobody
                                           ELSE players[CHOOSE t \in nth(s) : TRUE]]
  BY Zenon DEF Reseated
<1> HIDE DEF nth
<1>3. QED
  BY <1>1, <1>2 DEF Seatings

(* A set of numbers that is not empty and has a bound has a greatest one.  *)
LEMMA Greatest ==
    ASSUME NEW n \in Nat, NEW T, T \subseteq 1..n, T # {}
    PROVE  \E m \in T : \A j \in T : j <= m
<1> DEFINE below == {n - i : i \in T}
           R == {ss \in Nat \X Nat : ss[1] < ss[2]}
<1>1. below \subseteq Nat /\ below # {}
  <2>1. \A i \in T : n - i \in Nat
    OBVIOUS
  <2>2. QED
    BY <2>1
<1>2. PICK d \in below : \A y \in below : ~(<<y, d>> \in R)
  <2>1. IsWellFoundedOn(R, Nat)
    BY NatLessThanWellFounded DEF OpToRel
  <2> HIDE DEF below, R
  <2>2. QED
    BY <1>1, <2>1, WFMin
<1>3. \A y \in below : d <= y
  <2>1. \A y \in Nat : <<y, d>> \in R <=> y < d
    BY <1>1
  <2> HIDE DEF below, R
  <2>2. \A y \in below : ~(y < d)
    BY <1>1, <1>2, <2>1
  <2>3. QED
    BY <1>1, <2>2
<1>4. PICK m \in T : d = n - m
  OBVIOUS
<1>5. \A j \in T : n - j \in below
  OBVIOUS
<1>6. QED
  BY <1>3, <1>4, <1>5, SMTT(30)

(* The log says that the room was playing, and no move follows a           *)
(* settlement: then no hand in the log is settled at all.                  *)
LEMMA NoSettlement ==
    ASSUME log \in Seq(Events), NEW current, ~ClearRound(log),
           DeriveRecoveredState(current) = "playing"
    PROVE  \A i \in DOMAIN log : log[i].kind # "settlement"
<1> DEFINE rows == {i \in DOMAIN log : log[i].kind \in {"settlement", "action"}}
           last == CHOOSE i \in rows : \A j \in rows : j <= i
<1>1. SUFFICES ASSUME NEW i \in DOMAIN log, log[i].kind = "settlement"
               PROVE  FALSE
  OBVIOUS
<1>2. i \in rows /\ rows # {}
  BY <1>1
<1>3. DOMAIN log = 1..Len(log) /\ Len(log) \in Nat /\ rows \subseteq 1..Len(log)
  OBVIOUS
<1>4. \E m \in rows : \A j \in rows : j <= m
  <2> HIDE DEF rows
  <2>1. QED
    BY <1>2, <1>3, Greatest
<1>5. last \in rows /\ \A j \in rows : j <= last
  <2> HIDE DEF rows
  <2>1. QED
    BY <1>4
<1>6. log[last].kind = "action"
  <2>1. DeriveRecoveredState(current) = IF rows = {} THEN current
            ELSE IF log[last].kind = "settlement" THEN "closed" ELSE "playing"
    BY DEF DeriveRecoveredState
  <2>2. log[last].kind # "settlement"
    BY <1>2, <2>1
  <2>3. QED
    BY <1>5, <2>2
<1>7. i < last /\ last \in DOMAIN log
  <2> HIDE DEF last
  <2>1. i <= last /\ last \in 1..Len(log) /\ i \in 1..Len(log)
    BY <1>1, <1>2, <1>3, <1>5
  <2>2. i # last
    BY <1>1, <1>6
  <2>3. QED
    BY <1>3, <2>1, <2>2
<1>8. QED
  BY <1>1, <1>6, <1>7 DEF ClearRound

(* What a process finds when it starts: nothing to serve, or a room that   *)
(* plays the stored round only when no stored settlement ends it.          *)
LEMMA RecoverFacts ==
    ASSUME TypeOK, Recover
    PROVE  \/ /\ UNCHANGED <<room, actor, loops, activeCount, round>>
              /\ unread' = FALSE
           \/ /\ room' \in Rooms /\ actor' = "run" /\ loops' = loops + 1
              /\ activeCount' \in {activeCount, activeCount + 1}
              /\ unread' \in BOOLEAN
              /\ \/ round' = NoRound
                 \/ /\ round' = snap.round /\ room'.fsm = "playing"
                    /\ \A i \in DOMAIN log : log[i].kind # "settlement"
              /\ room'.fsm = "playing" /\ ~unread' => round' # NoRound
<1> DEFINE known == summary.players # <<>>
           base == IF known /\ summary.ended THEN "closed" ELSE Restored(snap.fsm)
           players == IF known THEN summary.players ELSE snap.players
           derived == DeriveRecoveredState(base)
           kept == IF ClearRound(log) THEN NoRound ELSE snap.round
           state == RecoveredState(derived, kept)
           restored == [fsm |-> state, players |-> Reseated(players), ready |-> {},
                        hand |-> 1]
<1>1. CASE /\ derived = "closed" \/ players = <<>>
           /\ unread' = FALSE
           /\ UNCHANGED <<room, actor, loops, activeCount, round>>
  BY <1>1
<1>2. CASE /\ derived # "closed" /\ players # <<>>
           /\ room' = restored /\ actor' = "run" /\ loops' = loops + 1
           /\ \/ /\ round' = IF state = "playing" THEN kept ELSE NoRound
                 /\ activeCount' = activeCount + 1 /\ unread' = FALSE
              \/ /\ state = "playing"
                 /\ round' = NoRound /\ UNCHANGED activeCount /\ unread' = TRUE
  <2>1. snap.fsm \in States /\ base \in States
    BY DEF TypeOK, Snapshots, Restored, States
  <2>2. derived \in States /\ state \in States
    BY <2>1 DEF DeriveRecoveredState, RecoveredState, States
  <2>3. players \in Seatings \cup {<<>>}
    BY DEF TypeOK, Snapshots
  <2>4. Reseated(players) \in Seatings
    BY <1>2, <2>3, ReseatedType
  <2>5. room' \in Rooms /\ room'.fsm = state
    <3> HIDE DEF state, players
    <3>1. QED
      BY <1>2, <2>2, <2>4 DEF Rooms
  <2>6. state = "playing" => derived = "playing" /\ kept # NoRound
    BY DEF RecoveredState
  <2>7. derived = "playing" /\ ~ClearRound(log) =>
            \A i \in DOMAIN log : log[i].kind # "settlement"
    BY NoSettlement DEF TypeOK
  <2>8. kept # NoRound => kept = snap.round /\ ~ClearRound(log)
    OBVIOUS
  <2> HIDE DEF known, base, players, derived, kept, state, restored
  <2>9. /\ activeCount' \in {activeCount, activeCount + 1} /\ unread' \in BOOLEAN
    BY <1>2
  <2>10. \/ round' = NoRound
         \/ /\ round' = snap.round /\ room'.fsm = "playing"
            /\ \A i \in DOMAIN log : log[i].kind # "settlement"
    BY <1>2, <2>5, <2>6, <2>7, <2>8
  <2>11. room'.fsm = "playing" /\ ~unread' => round' # NoRound
    BY <1>2, <2>5, <2>6
  <2>12. QED
    BY <1>2, <2>5, <2>9, <2>10, <2>11
<1>3. QED
  BY <1>1, <1>2, Zenon DEF Recover

-----------------------------------------------------------------------------
(* The stores. *)

(* The event that Effects is at is in the log under the seq it is told by. *)
LEMMA EffectsFacts ==
    ASSUME TypeOK, RequestsSound, NEW h \in Handlers, Effects(h)
    PROVE  /\ summary' \in [players : Seatings \cup {<<>>}, ended : BOOLEAN]
           /\ summary'.ended => summary'.players # <<>>
           /\ \/ UNCHANGED told
              \/ \E n \in DOMAIN log : told' = told \cup {[seq |-> n, event |-> log[n]]}
<1> DEFINE r == serving[h]
<1>1. r \in Requests /\ r.pc = "effects" /\ r.at < Len(r.batch)
  BY DEF TypeOK, Effects, RequestsSound, BatchInLog
<1>2. r.batch \in Seq(Events) /\ r.base \in Nat /\ r.at \in Nat /\ log \in Seq(Events)
  BY <1>1 DEF Requests, TypeOK
<1>3. r.at + 1 \in DOMAIN r.batch
  BY <1>1, <1>2
<1>4. r.base + (r.at + 1) <= Len(log) /\ log[r.base + (r.at + 1)] = r.batch[r.at + 1]
  BY <1>1, <1>3 DEF RequestsSound, BatchInLog
<1>5. r.base + r.at + 1 = r.base + (r.at + 1) /\ r.base + r.at + 1 \in DOMAIN log
  <2> HIDE DEF r
  <2>1. DOMAIN log = 1..Len(log) /\ Len(log) \in Nat
    BY <1>2
  <2>2. QED
    BY <1>2, <1>4, <2>1
<1>6. PICK lose : /\ summary' = AfterEventSideEffects(r.batch[r.at + 1].kind, lose)
                  /\ told' = IF "push" \in lose THEN told
                       ELSE told \cup {[seq |-> r.base + r.at + 1, event |-> r.batch[r.at + 1]]}
  <2>1. \E lose \in {{}, {"create"}, {"end"}, {"push"}} :
            /\ IF lose = {} THEN NoFault ELSE Fault
            /\ summary' = AfterEventSideEffects(r.batch[r.at + 1].kind, lose)
            /\ told' = IF "push" \in lose THEN told
                  ELSE told \cup {[seq |-> r.base + r.at + 1, event |-> r.batch[r.at + 1]]}
    BY DEF Effects
  <2>2. QED
    BY <2>1, Zenon
<1>7. \/ UNCHANGED told
      \/ \E n \in DOMAIN log : told' = told \cup {[seq |-> n, event |-> log[n]]}
  <2>1. r.batch[r.at + 1] = log[r.base + r.at + 1]
    BY <1>4, <1>5
  <2>2. QED
    BY <1>5, <1>6, <2>1
<1> DEFINE S == [players : Seatings \cup {<<>>}, ended : BOOLEAN]
           s == IF actor = "closing" \/ "create" \in lose THEN summary
                ELSE CreateGameSummary(summary)
<1>8. s \in S /\ (s.ended => s.players # <<>>)
  <2>1. summary \in S /\ room.players \in Seatings
    BY DEF TypeOK, Rooms
  <2>2. CreateGameSummary(summary) \in S /\ CreateGameSummary(summary).players = room.players
    BY <2>1 DEF CreateGameSummary
  <2>3. QED
    BY <2>1, <2>2, Blanks DEF TypeOK
<1>9. summary' = s \/ summary' = [s EXCEPT !.ended = s.players # <<>>]
  BY <1>6, Zenon DEF AfterEventSideEffects, EndGameSummary
<1>10. summary' \in S /\ (summary'.ended => summary'.players # <<>>)
  <2> HIDE DEF s
  <2>1. CASE summary' = s
    BY <1>8, <2>1
  <2>2. CASE summary' = [s EXCEPT !.ended = s.players # <<>>]
    <3>1. \A b \in BOOLEAN : [s EXCEPT !.ended = b] \in S /\ [s EXCEPT !.ended = b].ended = b
                             /\ [s EXCEPT !.ended = b].players = s.players
      BY <1>8
    <3>2. (s.players # <<>>) \in BOOLEAN
      OBVIOUS
    <3>3. QED
      BY <2>2, <3>1, <3>2
  <2>3. QED
    BY <1>9, <2>1, <2>2
<1>11. QED
  BY <1>7, <1>10

(* The snapshot that is written. *)
LEMMA PutFacts ==
    ASSUME TypeOK, RequestsSound, NEW h \in Handlers, MetaPut(h)
    PROVE  \/ UNCHANGED snap
           \/ /\ snap' \in Snapshots /\ snap'.seq \in 0..Len(log)
              /\ snap'.round = serving[h].seen.round
              /\ snap'.round.step \in 0..MaxSteps /\ snap'.round.game \in 0..games
<1> DEFINE r == serving[h]
           top == IF r.batch = <<>> THEN MaxSeq ELSE r.base + Len(r.batch)
<1>1. SUFFICES ASSUME snap' \in {[r.seen EXCEPT !.seq = SnapSeq(h)], r.seen}
               PROVE  /\ snap' \in Snapshots /\ snap'.seq \in 0..Len(log)
                      /\ snap'.round = r.seen.round
                      /\ snap'.round.step \in 0..MaxSteps /\ snap'.round.game \in 0..games
  BY DEF MetaPut
<1>2. r \in Requests /\ r.pc = "meta_put" /\ r.seen \in Snapshots
  BY DEF TypeOK, Requests, MetaPut
<1>3. /\ r.batch \in Seq(Events) /\ r.base \in Nat /\ Len(log) \in Nat /\ Len(r.batch) \in Nat
      /\ r.seen.seq \in Nat /\ r.seen.round \in Rounds
  BY <1>2 DEF Requests, TypeOK, Snapshots
<1>4. r.seen.seq <= Len(log) /\ r.seen.round.game <= games /\ r.seen.round.step <= MaxSteps
  BY <1>2 DEF RequestsSound, SeenIsPast
<1>5. top \in 0..Len(log)
  <2>1. CASE r.batch = <<>>
    BY <1>3, <2>1 DEF MaxSeq
  <2>2. CASE r.batch # <<>>
    <3>1. Len(r.batch) \in DOMAIN r.batch
      BY <1>3, <2>2
    <3>2. r.base + Len(r.batch) <= Len(log)
      BY <1>2, <3>1 DEF RequestsSound, BatchInLog
    <3>3. QED
      BY <1>3, <2>2, <3>2
  <2>3. QED
    BY <2>1, <2>2
<1>6. SnapSeq(h) = Max({r.seen.seq, top})
  BY DEF SnapSeq
<1>7. SnapSeq(h) \in 0..Len(log)
  <2> HIDE DEF top
  <2>1. top \in Nat
    BY <1>3, <1>5
  <2>2. Max({r.seen.seq, top}) \in {r.seen.seq, top}
    BY <1>3, <2>1, MaxOfTwo
  <2>3. r.seen.seq \in 0..Len(log)
    BY <1>3, <1>4
  <2>4. QED
    BY <1>5, <1>6, <2>2, <2>3
<1>8. \A n \in Nat : /\ [r.seen EXCEPT !.seq = n] \in Snapshots
                     /\ [r.seen EXCEPT !.seq = n].seq = n
                     /\ [r.seen EXCEPT !.seq = n].round = r.seen.round
  BY <1>2 DEF Snapshots
<1>9. SnapSeq(h) \in Nat
  BY <1>3, <1>7
<1>10. snap' \in Snapshots /\ snap'.seq \in 0..Len(log) /\ snap'.round = r.seen.round
  <2>1. r.seen.seq \in 0..Len(log)
    BY <1>3, <1>4
  <2>2. QED
    BY <1>1, <1>2, <1>7, <1>8, <1>9, <2>1
<1>11. games \in Nat /\ MaxSteps \in Nat
  BY BoundAssumption DEF TypeOK
<1>12. QED
  BY <1>3, <1>4, <1>10, <1>11 DEF Rounds

-----------------------------------------------------------------------------
(* The invariants, one by one. *)

LEMMA Faults ==
    ASSUME TypeOK
    PROVE  (NoFault \/ Fault => faults' \in Nat) /\ (requests' \in {requests, requests + 1}
              => requests' \in Nat)
  BY DEF TypeOK, NoFault, Fault

LEMMA TypeStep ==
    ASSUME TypeOK, OneActor, RequestsSound, Next
    PROVE  TypeOK'
<1> USE DEF memory, stores, bounds, history
<1>1. ASSUME NEW h \in Handlers, Begin(h) PROVE TypeOK'
  <2>1. serving' \in [Handlers -> Requests]
    BY <1>1, BeginServes DEF Stands, Moved, TypeOK
  <2>2. faults' \in Nat /\ requests' \in Nat
    BY <1>1, Faults DEF Begin
  <2>3. UNCHANGED <<memory, stores, crashes, history>>
    BY <1>1 DEF Begin
  <2>4. QED
    BY <2>1, <2>2, <2>3 DEF TypeOK
<1>2. ASSUME NEW h \in Handlers, EnsureRoom(h) PROVE TypeOK'
  <2>1. serving' \in [Handlers -> Requests]
    <3>1. \E pc \in Places : Goto(h, pc)
      BY <1>2 DEF EnsureRoom, Places
    <3>2. QED
      BY <3>1, GotoServes DEF Stands, Moved
  <2>2. QED
    BY <1>2, <2>1 DEF EnsureRoom, TypeOK
<1>3. ASSUME NEW h \in Handlers, CreateRoom(h) PROVE TypeOK'
  <2>1. serving' \in [Handlers -> Requests]
    <3>1. \E pc \in Places : Goto(h, pc)
      BY <1>3 DEF CreateRoom, Places
    <3>2. QED
      BY <3>1, GotoServes DEF Stands, Moved
  <2>2. NewRoom \in Rooms
    BY Blanks DEF NewRoom, Rooms, States
  <2>3. room' \in Rooms
    BY <1>3, <2>2 DEF CreateRoom, TypeOK
  <2>4. QED
    BY <1>3, <2>1, <2>3 DEF CreateRoom, TypeOK
<1>4. ASSUME NEW counted \in BOOLEAN, Starts(counted)
      PROVE  /\ actor' = "run" /\ loops' \in Nat /\ activeCount' \in Int
             /\ round' \in Rounds /\ round'.step \in 0..MaxSteps
  BY <1>4, Blanks, BoundAssumption DEF Starts, TypeOK, NoRound
<1>5. ASSUME NEW h \in Handlers,
             StartActorLocked(h) \/ EnsureActorForExistingRoom(h)
      PROVE  TypeOK'
  <2>1. serving' \in [Handlers -> Requests]
    <3>1. \E pc \in Places : Goto(h, pc)
      BY <1>5 DEF StartActorLocked, EnsureActorForExistingRoom, EnsureActorLook,
                  EnsureActorStart, Places
    <3>2. QED
      BY <3>1, GotoServes DEF Stands, Moved
  <2>2. \/ \E counted \in BOOLEAN : Starts(counted)
        \/ UNCHANGED <<actor, loops, activeCount, round>>
    BY <1>5 DEF StartActorLocked, EnsureActorForExistingRoom, EnsureActorLook, EnsureActorStart
  <2>3. UNCHANGED <<up, room, stores, bounds, history>>
    BY <1>5 DEF StartActorLocked, EnsureActorForExistingRoom
  <2>4. /\ actor' \in {"none", "run", "closing"} /\ loops' \in Nat /\ activeCount' \in Int
        /\ round' \in Rounds /\ round'.step \in 0..MaxSteps
    BY <1>4, <2>2 DEF TypeOK
  <2>5. QED
    BY <2>1, <2>3, <2>4 DEF TypeOK
<1>6. ASSUME NEW h \in Handlers, Join(h) PROVE TypeOK'
  <2>1. serving' \in [Handlers -> Requests] /\ room' \in Rooms
        /\ actor' \in {"none", "run", "closing"}
    BY <1>6, JoinTypes DEF Stands, Moved
  <2>2. UNCHANGED <<up, loops, activeCount, round, stores, bounds, history>>
    BY <1>6 DEF Join
  <2>3. QED
    BY <2>1, <2>2 DEF TypeOK
<1>7. ASSUME NEW h \in Handlers, Execute(h) PROVE TypeOK'
  <2>1. serving' \in [Handlers -> Requests]
    BY <1>7, ExecuteServes DEF Stands, Moved
  <2>2. /\ room' \in Rooms /\ round' \in Rounds /\ done' \in Rounds
        /\ round'.step \in 0..MaxSteps /\ games' \in Nat
    <3>1. CASE UNCHANGED <<room, round, games, done>>
      BY <3>1 DEF TypeOK
    <3>2. CASE \E batch : Command(serving[h].body, serving[h].user, batch)
      BY <3>2, CommandTypes
    <3>3. QED
      BY <1>7, <3>1, <3>2, ExecuteServes
  <2>3. actor' \in {"none", "run", "closing"}
    BY <1>7 DEF Execute, AfterMessage, TypeOK
  <2>4. UNCHANGED <<up, loops, activeCount, stores, bounds, told, unread, rolled>>
    BY <1>7 DEF Execute
  <2>5. QED
    BY <2>1, <2>2, <2>3, <2>4 DEF TypeOK
<1>8. ASSUME NEW h \in Handlers, AutoTimeout(h) PROVE TypeOK'
  <2>1. serving' \in [Handlers -> Requests] /\ \E batch : DoMove(batch)
    BY <1>8, TimeoutServes DEF Stands, Moved
  <2>2. /\ room' \in Rooms /\ round' \in Rounds /\ done' \in Rounds
        /\ round'.step \in 0..MaxSteps /\ games' \in Nat
    BY <2>1, MoveTypes
  <2>3. actor' \in {"none", "run", "closing"} /\ requests' \in Nat
    BY <1>8 DEF AutoTimeout, AfterMessage, TypeOK
  <2>4. UNCHANGED <<up, loops, activeCount, stores, crashes, faults, told, unread, rolled>>
    BY <1>8 DEF AutoTimeout
  <2>5. QED
    BY <2>1, <2>2, <2>3, <2>4 DEF TypeOK
<1>9. ASSUME NEW h \in Handlers, PersistNotifications(h) PROVE TypeOK'
  <2>1. AppendEvents(h) /\ faults' \in Nat
    BY <1>9, Faults DEF PersistNotifications, AppendEvents
  <2>2. serving' \in [Handlers -> Requests]
    BY <2>1, AppendServes DEF Stands, Moved
  <2>3. serving[h].batch \in Seq(Events)
    BY DEF TypeOK, Requests
  <2>4. log' \in Seq(Events)
    BY <2>1, <2>3, LogGrows DEF AppendEvents, TypeOK
  <2>5. UNCHANGED <<memory, snap, summary, idem, requests, crashes, history>>
    BY <1>9 DEF PersistNotifications
  <2>6. QED
    BY <2>1, <2>2, <2>4, <2>5 DEF TypeOK
<1>10. ASSUME NEW h \in Handlers, Effects(h) PROVE TypeOK'
  <2>1. serving' \in [Handlers -> Requests]
    BY <1>10, EffectsServes DEF Stands, Moved
  <2>2. faults' \in Nat /\ actor' \in {"none", "run", "closing"}
    BY <1>10, Faults DEF Effects, CloseIfOver, TypeOK
  <2>3. told' \subseteq [seq : Nat, event : Events]
    <3>1. log \in Seq(Events) /\ told \subseteq [seq : Nat, event : Events]
      BY DEF TypeOK
    <3>2. \A n \in DOMAIN log : [seq |-> n, event |-> log[n]] \in [seq : Nat, event : Events]
      BY <3>1
    <3>3. QED
      BY <1>10, <3>1, <3>2, EffectsFacts
  <2>4. /\ summary' \in [players : Seatings \cup {<<>>}, ended : BOOLEAN]
        /\ summary'.ended => summary'.players # <<>>
    BY <1>10, EffectsFacts
  <2>5. UNCHANGED <<up, room, loops, activeCount, round, log, snap, idem, requests, crashes,
                    games, done, unread, rolled>>
    BY <1>10 DEF Effects
  <2>6. QED
    BY <2>1, <2>2, <2>3, <2>4, <2>5 DEF TypeOK
<1>11. ASSUME NEW h \in Handlers, MetaPrev(h) PROVE TypeOK'
  <2>1. serving' \in [Handlers -> Requests]
    BY <1>11, MetaPrevServes, MetaDoneServes DEF Stands, Moved
  <2>2. faults' \in Nat /\ UNCHANGED <<memory, stores, requests, crashes, history>>
    BY <1>11, Faults DEF MetaPrev
  <2>3. QED
    BY <2>1, <2>2 DEF TypeOK
<1>12. ASSUME NEW h \in Handlers, MetaRoom(h) \/ MetaRound(h) PROVE TypeOK'
  <2>1. serving' \in [Handlers -> Requests]
    BY <1>12, MetaRoomServes, MetaRoundServes, MetaDoneServes DEF Stands, Moved
  <2>2. actor' \in {"none", "run", "closing"}
    BY <1>12 DEF MetaRoom, MetaRound, MetaRefused, CloseIfOver, TypeOK
  <2>3. /\ faults' \in Nat
        /\ UNCHANGED <<up, room, loops, activeCount, round, stores, requests, crashes, history>>
    BY <1>12, Faults DEF MetaRoom, MetaRound, MetaRefused
  <2>4. QED
    BY <2>1, <2>2, <2>3 DEF TypeOK
<1>13. ASSUME NEW h \in Handlers, MetaPut(h) PROVE TypeOK'
  <2>1. serving' \in [Handlers -> Requests]
    BY <1>13, MetaDoneServes DEF MetaPut, Stands, Moved
  <2>2. faults' \in Nat /\ UNCHANGED <<memory, log, summary, idem, requests, crashes, history>>
    BY <1>13, Faults DEF MetaPut
  <2>3. snap' \in Snapshots /\ snap'.round.step \in 0..MaxSteps
    BY <1>13, PutFacts DEF TypeOK
  <2>4. QED
    BY <2>1, <2>2, <2>3 DEF TypeOK
<1>14. ASSUME NEW h \in Handlers, Answer(h) PROVE TypeOK'
  <2>1. serving' \in [Handlers -> Requests]
    BY <1>14, ReplyServes DEF Answer, Moved
  <2>2. faults' \in Nat
    BY <1>14, Faults DEF Answer
  <2>3. told' \subseteq [seq : Nat, event : Events]
    <3>1. /\ serving[h].batch \in Seq(Events) /\ serving[h].base \in Nat
          /\ told \subseteq [seq : Nat, event : Events]
      BY DEF TypeOK, Requests
    <3>2. \A i \in DOMAIN serving[h].batch :
             [seq |-> serving[h].base + i, event |-> serving[h].batch[i]]
                \in [seq : Nat, event : Events]
      BY <3>1
    <3>3. told' = told \cup {[seq |-> serving[h].base + i, event |-> serving[h].batch[i]] :
                               i \in DOMAIN serving[h].batch}
      BY <1>14 DEF Answer
    <3>4. QED
      BY <3>1, <3>2, <3>3
  <2>4. UNCHANGED <<memory, log, snap, summary, requests, crashes, games, done, unread, rolled>>
    BY <1>14 DEF Answer
  <2>5. QED
    BY <2>1, <2>2, <2>3, <2>4 DEF TypeOK
<1>15. ASSUME NEW h \in Handlers, SnapshotRoom(h) PROVE TypeOK'
  <2>1. serving' \in [Handlers -> Requests]
    BY <1>15, SnapshotServes DEF Stands, Moved, TypeOK
  <2>2. actor' \in {"none", "run", "closing"}
    BY <1>15 DEF SnapshotRoom, SnapshotState, SnapshotCursor, SnapshotView, CloseIfOver, TypeOK
  <2>3. requests' \in Nat /\ faults' \in Nat
    BY <1>15, Faults DEF SnapshotRoom, SnapshotState, SnapshotCursor, SnapshotView
  <2>4. UNCHANGED <<up, room, loops, activeCount, round, stores, crashes, history>>
    BY <1>15 DEF SnapshotRoom
  <2>5. QED
    BY <2>1, <2>2, <2>3, <2>4 DEF TypeOK
<1>16. ASSUME RemoveActor PROVE TypeOK'
  <2>1. actor' = "none" /\ loops' \in Nat /\ activeCount' \in Int
    BY <1>16 DEF RemoveActor, CountedOut, TypeOK, OneActor
  <2>2. round' \in Rounds /\ round'.step \in 0..MaxSteps
    BY <1>16, Blanks, BoundAssumption DEF RemoveActor, NoRound
  <2>3. UNCHANGED <<up, room, serving, stores, bounds, history>>
    BY <1>16 DEF RemoveActor
  <2>4. QED
    BY <2>1, <2>2, <2>3 DEF TypeOK
<1>17. ASSUME Crash PROVE TypeOK'
  <2>1. /\ up' \in BOOLEAN /\ room' \in Rooms /\ actor' = "none" /\ loops' \in Nat
        /\ activeCount' \in Int /\ crashes' \in Nat
    <3>1. crashes \in Nat
      BY DEF TypeOK
    <3>2. up' = FALSE /\ room' = NoRoom /\ actor' = "none" /\ loops' = 0 /\ activeCount' = 0
          /\ crashes' = crashes + 1
      BY <1>17, Zenon DEF Crash
    <3>3. up' \in BOOLEAN
      BY <3>2, Zenon
    <3>4. loops' \in Nat /\ activeCount' \in Int /\ crashes' \in Nat
      BY <3>1, <3>2
    <3>5. room' \in Rooms
      BY <3>2, Blanks
    <3>6. QED
      BY <3>2, <3>3, <3>4, <3>5, Zenon
  <2>2. round' \in Rounds /\ round'.step \in 0..MaxSteps
    BY <1>17, Blanks, BoundAssumption DEF Crash, NoRound
  <2>3. serving' \in [Handlers -> Requests]
    BY <1>17, Blanks DEF Crash
  <2>4. UNCHANGED <<stores, requests, faults, history>>
    BY <1>17 DEF Crash
  <2>5. QED
    BY <2>1, <2>2, <2>3, <2>4 DEF TypeOK
<1>18. ASSUME Recover PROVE TypeOK'
  <2>1. UNCHANGED <<serving, stores, bounds, games, told>>
    BY <1>18 DEF Recover
  <2>2. up' \in BOOLEAN /\ done' = round' /\ rolled' \in Nat
    BY <1>18 DEF Recover, TypeOK
  <2>3. snap.round \in Rounds /\ snap.round.step \in 0..MaxSteps
    BY DEF TypeOK, Snapshots
  <2>4. round' \in Rounds /\ round'.step \in 0..MaxSteps
    <3>1. round' \in {round, NoRound, snap.round}
      BY <1>18, RecoverFacts
    <3>2. round \in Rounds /\ round.step \in 0..MaxSteps
      BY DEF TypeOK
    <3>3. NoRound \in Rounds /\ NoRound.step \in 0..MaxSteps
      BY Blanks, BoundAssumption DEF NoRound
    <3>4. QED
      BY <2>3, <3>1, <3>2, <3>3
  <2>5. room' \in Rooms /\ actor' \in {"none", "run", "closing"} /\ loops' \in Nat
        /\ activeCount' \in Int
    <3>1. \/ UNCHANGED <<room, actor, loops, activeCount>>
          \/ /\ room' \in Rooms /\ actor' = "run" /\ loops' = loops + 1
             /\ activeCount' \in {activeCount, activeCount + 1}
      BY <1>18, RecoverFacts
    <3>2. room \in Rooms /\ actor \in {"none", "run", "closing"} /\ loops \in Nat
          /\ activeCount \in Int
      BY DEF TypeOK
    <3>3. QED
      BY <3>1, <3>2
  <2>6. unread' \in BOOLEAN
    BY <1>18, RecoverFacts
  <2>7. QED
    BY <2>1, <2>2, <2>4, <2>5, <2>6 DEF TypeOK
<1>19. QED
  BY <1>1, <1>2, <1>3, <1>5, <1>6, <1>7, <1>8, <1>9, <1>10, <1>11, <1>12, <1>13, <1>14,
     <1>15, <1>16, <1>17, <1>18 DEF Next

(* A command plays a round in a room that is playing, and leaves no room   *)
(* playing without one.                                                    *)
LEMMA MoveFits ==
    ASSUME TypeOK, ActorFitsRoom, NEW batch, DoMove(batch)
    PROVE  /\ round' # NoRound => room'.fsm = "playing" /\ done' = round'
           /\ room'.fsm = "playing" => round' # NoRound
<1> DEFINE r == [round EXCEPT !.step = @ + 1]
<1>1. room \in Rooms /\ round \in Rounds /\ round # NoRound /\ room.fsm = "playing"
  BY DEF TypeOK, DoMove, ActorFitsRoom
<1>2. r.step = round.step + 1 /\ r.step \in Nat \ {0}
  BY <1>1 DEF Rounds
<1>3. r # NoRound
  BY <1>2 DEF NoRound
<1>4. done' = r
  BY DEF DoMove
<1>5. CASE round' = r /\ UNCHANGED room
  BY <1>1, <1>3, <1>4, <1>5
<1>6. CASE /\ round' = NoRound
           /\ room' = IF room.hand < MaxHands
                      THEN [room EXCEPT !.fsm = "waiting", !.ready = {}, !.hand = @ + 1]
                      ELSE [room EXCEPT !.fsm = "closed"]
  <2>1. room'.fsm \in {"waiting", "closed"}
    BY <1>1, <1>6 DEF Rooms
  <2>2. QED
    BY <1>6, <2>1
<1>7. QED
  BY <1>5, <1>6 DEF DoMove

LEMMA CommandFits ==
    ASSUME TypeOK, ActorFitsRoom, NEW body, NEW u, NEW batch, Command(body, u, batch)
    PROVE  /\ round' # NoRound => room'.fsm = "playing" /\ done' = round'
           /\ room'.fsm = "playing" /\ (room.fsm = "playing" => round # NoRound)
                => round' # NoRound
<1>1. room \in Rooms /\ games \in Nat
  BY DEF TypeOK
<1>2. CASE DoReady(u, batch)
  <2> DEFINE R == room.ready \cup {s \in Seats : room.players[s] = u}
  <2>1. CASE /\ room' = [room EXCEPT !.ready = R, !.fsm = "playing"]
             /\ round' = [game |-> games + 1, step |-> 1] /\ done' = round'
    <3>1. room'.fsm = "playing"
      BY <1>1, <2>1 DEF Rooms
    <3>2. round' # NoRound
      BY <2>1 DEF NoRound
    <3>3. QED
      BY <2>1, <3>1, <3>2
  <2>2. CASE /\ room' = [room EXCEPT !.ready = R,
                           !.fsm = IF @ = "ready" THEN "waiting" ELSE @]
             /\ UNCHANGED <<round, games, done>>
    <3>1. room'.fsm = IF room.fsm = "ready" THEN "waiting" ELSE room.fsm
      BY <1>1, <2>2 DEF Rooms
    <3>2. QED
      BY <2>2, <3>1 DEF ActorFitsRoom
  <2>3. QED
    BY <1>2, <2>1, <2>2 DEF DoReady
<1>3. CASE DoMove(batch)
  BY <1>3, MoveFits
<1>4. CASE DoLeave(u, batch)
  <2>1. room'.fsm = IF room.fsm = "ready" THEN "waiting" ELSE room.fsm
    BY <1>1, <1>4 DEF DoLeave, Rooms
  <2>2. UNCHANGED <<round, games, done>>
    BY <1>4 DEF DoLeave
  <2>3. QED
    BY <2>1, <2>2 DEF ActorFitsRoom
<1>5. CASE Nothing(batch)
  BY <1>5 DEF Nothing, ActorFitsRoom
<1>6. QED
  BY <1>2, <1>3, <1>4, <1>5 DEF Command

(* Only a process that is up serves. *)
LEMMA UpWhileServing ==
    ASSUME DownIsEmpty, NEW h \in Handlers, serving[h].pc # "idle"
    PROVE  up
  BY DEF DownIsEmpty, Idle

(* One loop, counted at most once, that plays a room which is playing.     *)
LEMMA ActorStep ==
    ASSUME TypeOK, OneActor, NeverOvercounts, DownIsEmpty, ActorFitsRoom, PlayingHasRound, Next
    PROVE  /\ OneActor' /\ NeverOvercounts' /\ ActorFitsRoom' /\ PlayingHasRound'
           /\ DownIsEmpty'
<1> USE DEF memory, stores, bounds, history
<1> DEFINE Goal == OneActor' /\ NeverOvercounts' /\ ActorFitsRoom' /\ PlayingHasRound'
<1>0. /\ actor \in {"none", "run", "closing"} /\ loops \in Nat /\ activeCount \in Int
      /\ room \in Rooms
  BY DEF TypeOK
<1>1. ASSUME UNCHANGED <<room, loops, activeCount, round, done, unread>>,
             actor' \in {actor, IF actor = "run" /\ room.fsm = "closed" THEN "closing" ELSE actor}
      PROVE  Goal
  <2>1. CASE actor' = actor
    BY <1>1, <2>1 DEF OneActor, NeverOvercounts, ActorFitsRoom, PlayingHasRound
  <2>2. CASE actor = "run" /\ room.fsm = "closed" /\ actor' = "closing"
    BY <1>1, <2>2 DEF OneActor, NeverOvercounts, ActorFitsRoom, PlayingHasRound
  <2>3. QED
    BY <1>1, <2>1, <2>2
<1>2. ASSUME actor = "none", NEW counted \in BOOLEAN, Starts(counted),
             UNCHANGED <<room, done, unread>>
      PROVE  Goal
  BY <1>0, <1>2 DEF Starts, OneActor, NeverOvercounts, ActorFitsRoom, PlayingHasRound
<1>3. ASSUME NEW body, NEW u, NEW batch, Command(body, u, batch), actor = "run", AfterMessage,
             UNCHANGED <<loops, activeCount, unread>>
      PROVE  Goal
  <2>1. actor' \in {"run", "closing"} /\ (actor' = "closing" => room'.fsm = "closed")
    BY <1>3 DEF AfterMessage
  <2>2. /\ round' # NoRound => room'.fsm = "playing" /\ done' = round'
        /\ room'.fsm = "playing" /\ (room.fsm = "playing" => round # NoRound)
                => round' # NoRound
    BY <1>3, CommandFits
  <2>3. OneActor' /\ NeverOvercounts'
    BY <1>0, <1>3, <2>1 DEF OneActor, NeverOvercounts
  <2>4. ActorFitsRoom' /\ PlayingHasRound'
    BY <1>3, <2>1, <2>2 DEF ActorFitsRoom, PlayingHasRound
  <2>5. QED
    BY <2>3, <2>4
<1>4. ASSUME NEW h \in Handlers, Begin(h) \/ EnsureRoom(h) \/ PersistNotifications(h) \/ Effects(h)
             \/ MetaPrev(h) \/ MetaRoom(h) \/ MetaRound(h) \/ MetaPut(h) \/ Answer(h)
             \/ SnapshotRoom(h)
      PROVE  Goal /\ up /\ up' = up
  <2>1. UNCHANGED <<room, loops, activeCount, round, done, unread>> /\ up' = up
    BY <1>4 DEF Begin, EnsureRoom, PersistNotifications, Effects, MetaPrev, MetaRoom, MetaRound,
                MetaPut, Answer, SnapshotRoom
  <2>2. actor' \in {actor, IF actor = "run" /\ room.fsm = "closed" THEN "closing" ELSE actor}
    BY <1>4 DEF Begin, EnsureRoom, PersistNotifications, Effects, MetaPrev, MetaRoom, MetaRound,
                MetaRefused, MetaPut, Answer, SnapshotRoom, SnapshotState, SnapshotCursor,
                SnapshotView, CloseIfOver
  <2>3. up
    BY <1>4, UpWhileServing DEF Begin, EnsureRoom, PersistNotifications, AppendEvents, Effects,
                MetaPrev, MetaRoom, MetaRound, MetaPut, Answer, SnapshotRoom, SnapshotState,
                SnapshotCursor, SnapshotView
  <2>4. QED
    BY <1>1, <2>1, <2>2, <2>3
<1>5. ASSUME NEW h \in Handlers, CreateRoom(h) PROVE Goal /\ up /\ up' = up
  <2>1. up /\ up' = up
    BY <1>5, UpWhileServing DEF CreateRoom
  <2>2. UNCHANGED <<actor, loops, activeCount, round, done, unread>>
    BY <1>5 DEF CreateRoom
  <2>3. CASE room = NoRoom
    <3>1. room.fsm = "none" /\ room'.fsm = "waiting"
      BY <1>5, <2>3 DEF CreateRoom, NewRoom, NoRoom
    <3>2. QED
      BY <2>1, <2>2, <3>1 DEF OneActor, NeverOvercounts, ActorFitsRoom, PlayingHasRound
  <2>4. CASE room # NoRoom
    <3>1. room' = room
      BY <1>5, <2>4 DEF CreateRoom
    <3>2. QED
      BY <1>1, <2>1, <2>2, <3>1
  <2>5. QED
    BY <2>3, <2>4
<1>6. ASSUME NEW h \in Handlers, StartActorLocked(h) \/ EnsureActorForExistingRoom(h)
      PROVE  Goal /\ up /\ up' = up
  <2>1. up /\ up' = up
    BY <1>6, UpWhileServing DEF StartActorLocked, EnsureActorForExistingRoom, EnsureActorLook,
                                EnsureActorStart
  <2>2. UNCHANGED <<room, done, unread>>
    BY <1>6 DEF StartActorLocked, EnsureActorForExistingRoom
  <2>3. \/ actor = "none" /\ \E counted \in BOOLEAN : Starts(counted)
        \/ UNCHANGED <<actor, loops, activeCount, round>>
    BY <1>6 DEF StartActorLocked, EnsureActorForExistingRoom, EnsureActorLook, EnsureActorStart
  <2>4. QED
    BY <1>1, <1>2, <2>1, <2>2, <2>3
<1>7. ASSUME NEW h \in Handlers, Join(h) PROVE Goal /\ up /\ up' = up
  <2>1. up /\ up' = up
    BY <1>7, UpWhileServing DEF Join
  <2>2. room'.fsm = room.fsm /\ UNCHANGED <<loops, activeCount, round, done, unread>>
    BY <1>7, JoinTypes DEF Join
  <2>3. \/ UNCHANGED <<actor>> /\ actor # "run"
        \/ actor = "run" /\ actor' = IF room.fsm = "closed" THEN "closing" ELSE "run"
    BY <1>7, <2>2 DEF Join, AfterMessage
  <2>4. QED
    BY <2>1, <2>2, <2>3 DEF OneActor, NeverOvercounts, ActorFitsRoom, PlayingHasRound
<1>8. ASSUME NEW h \in Handlers, Execute(h) PROVE Goal /\ up /\ up' = up
  <2>1. up /\ up' = up /\ UNCHANGED <<loops, activeCount, unread>>
    BY <1>8, UpWhileServing DEF Execute
  <2>2. CASE /\ UNCHANGED <<room, round, games, done>>
             /\ IF actor = "run" THEN AfterMessage ELSE UNCHANGED actor
    <3>1. actor' \in {actor, IF actor = "run" /\ room.fsm = "closed" THEN "closing" ELSE actor}
      BY <2>2 DEF AfterMessage
    <3>2. QED
      BY <1>1, <2>1, <2>2, <3>1
  <2>3. CASE \E batch \in Seq(Events) :
               /\ Command(serving[h].body, serving[h].user, batch)
               /\ actor = "run" \/ serving[h].body \in {"join", "signal"}
               /\ IF serving[h].body = "join" \/ actor # "run" THEN UNCHANGED actor
                  ELSE AfterMessage
    <3>1. CASE serving[h].body = "join" \/ actor # "run"
      <4>1. \E batch : Nothing(batch)
        BY <2>3, <3>1 DEF Command
      <4>2. UNCHANGED <<room, round, games, done, actor>>
        BY <2>3, <3>1, <4>1 DEF Nothing
      <4>3. QED
        BY <1>1, <2>1, <4>2
    <3>2. CASE ~(serving[h].body = "join" \/ actor # "run")
      BY <1>3, <2>1, <2>3, <3>2
    <3>3. QED
      BY <3>1, <3>2
  <2>4. QED
    BY <1>8, <2>2, <2>3, ExecuteServes
<1>9. ASSUME NEW h \in Handlers, AutoTimeout(h) PROVE Goal /\ up /\ up' = up
  <2>1. up /\ up' = up /\ UNCHANGED <<loops, activeCount, unread>> /\ actor = "run" /\ AfterMessage
    BY <1>9 DEF AutoTimeout
  <2>2. \E batch : DoMove(batch)
    BY <1>9 DEF AutoTimeout
  <2>3. /\ round' # NoRound => room'.fsm = "playing" /\ done' = round'
        /\ room'.fsm = "playing" => round' # NoRound
    BY <2>2, MoveFits
  <2>4. actor' \in {"run", "closing"} /\ (actor' = "closing" => room'.fsm = "closed")
    BY <2>1 DEF AfterMessage
  <2>5. QED
    BY <1>0, <2>1, <2>3, <2>4 DEF OneActor, NeverOvercounts, ActorFitsRoom, PlayingHasRound
<1>10. ASSUME RemoveActor PROVE Goal /\ up /\ up' = up
  <2>1. up
    BY <1>10 DEF DownIsEmpty, RemoveActor
  <2>2. QED
    BY <1>0, <1>10, <2>1 DEF RemoveActor, CountedOut, OneActor, NeverOvercounts, ActorFitsRoom,
                             PlayingHasRound
<1>11. ASSUME Crash PROVE Goal /\ DownIsEmpty'
  <2>1. Goal
    BY <1>11 DEF Crash, OneActor, NeverOvercounts, ActorFitsRoom, PlayingHasRound, NoRoom
  <2>2. room' = NoRoom /\ actor' = "none" /\ round' = NoRound
        /\ \A h \in Handlers : serving'[h] = Idle
    BY <1>11 DEF Crash
  <2>3. QED
    BY <2>1, <2>2 DEF DownIsEmpty
<1>12. ASSUME Recover PROVE Goal /\ up' = TRUE
  <2>1. ~up /\ up' = TRUE /\ done' = round'
    BY <1>12 DEF Recover
  <2>2. room = NoRoom /\ actor = "none" /\ round = NoRound /\ room.fsm = "none"
    BY <2>1 DEF DownIsEmpty, NoRoom
  <2>3. CASE UNCHANGED <<room, actor, loops, activeCount, round>>
    BY <2>1, <2>2, <2>3 DEF OneActor, NeverOvercounts, ActorFitsRoom, PlayingHasRound
  <2>4. CASE /\ actor' = "run" /\ loops' = loops + 1
             /\ activeCount' \in {activeCount, activeCount + 1}
             /\ round' = NoRound \/ room'.fsm = "playing"
             /\ room'.fsm = "playing" /\ ~unread' => round' # NoRound
    <3>1. OneActor' /\ NeverOvercounts'
      BY <1>0, <2>2, <2>4 DEF OneActor, NeverOvercounts
    <3>2. ActorFitsRoom' /\ PlayingHasRound'
      BY <2>1, <2>4 DEF ActorFitsRoom, PlayingHasRound
    <3>3. QED
      BY <2>1, <3>1, <3>2
  <2>5. QED
    BY <1>12, <2>3, <2>4, RecoverFacts
<1>13. up' => DownIsEmpty'
  BY DEF DownIsEmpty
<1>14. Goal /\ (up' \/ DownIsEmpty')
  <2> HIDE DEF Goal
  <2>1. ASSUME up, up' = up PROVE up'
    BY <2>1, Zenon
  <2>2. ASSUME up' = TRUE PROVE up'
    BY <2>2, Zenon
  <2>3. QED
    BY <1>4, <1>5, <1>6, <1>7, <1>8, <1>9, <1>10, <1>11, <1>12, <2>1, <2>2, Zenon DEF Next
<1>15. QED
  BY <1>13, <1>14, Zenon

-----------------------------------------------------------------------------
(* Stored rows stay, under the seq they have. *)
RowsStay ==
    /\ Len(log) <= Len(log')
    /\ \A i \in DOMAIN log : i \in DOMAIN log' /\ log'[i] = log[i]

LEMMA RowsStep ==
    ASSUME TypeOK, Next
    PROVE  /\ RowsStay /\ games <= games'
           /\ UNCHANGED log \/ (\E h \in Handlers : AppendEvents(h))
<1> USE DEF memory, stores, bounds, history
<1>1. log \in Seq(Events) /\ games \in Nat
  BY DEF TypeOK
<1>2. ASSUME UNCHANGED log PROVE RowsStay
  BY <1>1, <1>2 DEF RowsStay
<1>3. ASSUME NEW h \in Handlers, AppendEvents(h) PROVE RowsStay
  <2>1. CASE log' = log \o serving[h].batch
    <3>1. serving[h].batch \in Seq(Events)
      BY DEF TypeOK, Requests
    <3>2. QED
      BY <1>1, <2>1, <3>1, LogGrows DEF RowsStay
  <2>2. CASE UNCHANGED log
    BY <1>2, <2>2
  <2>3. QED
    BY <1>3, <2>1, <2>2, AppendServes
<1>4. ASSUME NEW body, NEW u, NEW batch, Command(body, u, batch)
      PROVE  games <= games'
  BY <1>1, <1>4 DEF Command, DoReady, DoMove, DoLeave, Nothing
<1>5. UNCHANGED log \/ (\E h \in Handlers : AppendEvents(h))
  BY ZenonT(60) DEF Next, Begin, EnsureRoom, CreateRoom, StartActorLocked, EnsureActorForExistingRoom, Join,
         Execute, AutoTimeout, PersistNotifications, Effects, MetaPrev, MetaRoom, MetaRound,
         MetaPut, Answer, SnapshotRoom, RemoveActor, Crash, Recover
<1>6. UNCHANGED games \/ \E h \in Handlers : Execute(h)
  BY ZenonT(60) DEF Next, Begin, EnsureRoom, CreateRoom, StartActorLocked, EnsureActorForExistingRoom, Join,
         AutoTimeout, DoMove, PersistNotifications, Effects, MetaPrev, MetaRoom, MetaRound,
         MetaPut, Answer, SnapshotRoom, RemoveActor, Crash, Recover
<1>7. games <= games'
  <2>1. CASE UNCHANGED games
    BY <1>1, <2>1
  <2>2. ASSUME NEW h \in Handlers, Execute(h) PROVE games <= games'
    BY <1>1, <1>4, <2>2, ExecuteServes
  <2>3. QED
    BY <1>6, <2>1, <2>2
<1>8. QED
  BY <1>2, <1>3, <1>5, <1>7

(* What is told is a row, and stays one. *)
LEMMA ToldStep ==
    ASSUME TypeOK, RequestsSound, ToldIsStored, Next
    PROVE  ToldIsStored' /\ told \subseteq told'
<1> USE DEF memory, stores, bounds, history
<1>1. RowsStay
  BY RowsStep
<1>2. CASE UNCHANGED told
  BY <1>1, <1>2 DEF ToldIsStored, RowsStay
<1>3. ASSUME NEW h \in Handlers, Effects(h) PROVE ToldIsStored' /\ told \subseteq told'
  <2>1. UNCHANGED log
    BY <1>3 DEF Effects
  <2>2. CASE UNCHANGED told
    BY <2>1, <2>2 DEF ToldIsStored
  <2>3. ASSUME NEW n \in DOMAIN log, told' = told \cup {[seq |-> n, event |-> log[n]]}
        PROVE  ToldIsStored' /\ told \subseteq told'
    BY <2>1, <2>3 DEF ToldIsStored
  <2>4. QED
    BY <1>3, <2>2, <2>3, EffectsFacts
<1>4. ASSUME NEW h \in Handlers, Answer(h) PROVE ToldIsStored' /\ told \subseteq told'
  <2> DEFINE r == serving[h]
  <2>1. r \in Requests /\ log \in Seq(Events)
    BY DEF TypeOK
  <2>2. r.batch \in Seq(Events) /\ r.base \in Nat
    BY <2>1 DEF Requests
  <2>3. \A i \in DOMAIN r.batch : r.base + i <= Len(log) /\ log[r.base + i] = r.batch[i]
    BY <1>4 DEF Answer, RequestsSound, BatchInLog
  <2>4. \A i \in DOMAIN r.batch : r.base + i \in DOMAIN log /\ log[r.base + i] = r.batch[i]
    <3> HIDE DEF r
    <3>1. QED
      BY <2>1, <2>2, <2>3
  <2>5. told' = told \cup {[seq |-> r.base + i, event |-> r.batch[i]] : i \in DOMAIN r.batch}
    BY <1>4 DEF Answer
  <2>6. UNCHANGED log
    BY <1>4 DEF Answer
  <2> HIDE DEF r
  <2>7. QED
    BY <2>4, <2>5, <2>6 DEF ToldIsStored
<1>5. UNCHANGED told \/ (\E h \in Handlers : Effects(h)) \/ (\E h \in Handlers : Answer(h))
  BY ZenonT(60) DEF Next, Begin, EnsureRoom, CreateRoom, StartActorLocked, EnsureActorForExistingRoom, Join,
         Execute, AutoTimeout, PersistNotifications, MetaPrev, MetaRoom, MetaRound,
         MetaPut, SnapshotRoom, RemoveActor, Crash, Recover
<1>6. QED
  BY <1>2, <1>3, <1>4, <1>5

LEMMA SnapshotStep ==
    ASSUME TypeOK, RequestsSound, SnapshotWithinLog, Next
    PROVE  SnapshotWithinLog'
<1> USE DEF memory, stores, bounds, history
<1>1. RowsStay /\ snap.seq \in Nat /\ Len(log) \in Nat /\ Len(log') \in Nat
  <2>1. CASE UNCHANGED log
    BY <2>1, RowsStep DEF TypeOK, Snapshots
  <2>2. ASSUME NEW h \in Handlers, AppendEvents(h) PROVE Len(log') \in Nat
    <3>1. serving[h].batch \in Seq(Events)
      BY DEF TypeOK, Requests
    <3>2. QED
      BY <2>2, <3>1, LogGrows DEF AppendEvents, TypeOK
  <2>3. QED
    BY <2>1, <2>2, RowsStep DEF TypeOK, Snapshots
<1>2. CASE UNCHANGED snap
  BY <1>1, <1>2 DEF SnapshotWithinLog, RowsStay
<1>3. ASSUME NEW h \in Handlers, MetaPut(h) PROVE SnapshotWithinLog'
  <2>1. UNCHANGED log
    BY <1>3 DEF MetaPut
  <2>2. CASE UNCHANGED snap
    BY <1>2, <2>2
  <2>3. CASE snap'.seq \in 0..Len(log)
    BY <2>1, <2>3 DEF SnapshotWithinLog
  <2>4. QED
    BY <1>3, <2>2, <2>3, PutFacts
<1>4. UNCHANGED snap \/ \E h \in Handlers : MetaPut(h)
  BY ZenonT(60) DEF Next, Begin, EnsureRoom, CreateRoom, StartActorLocked, EnsureActorForExistingRoom, Join,
         Execute, AutoTimeout, PersistNotifications, Effects, MetaPrev, MetaRoom, MetaRound,
         Answer, SnapshotRoom, RemoveActor, Crash, Recover
<1>5. QED
  BY <1>2, <1>3, <1>4

-----------------------------------------------------------------------------
(* What requests carry. *)

(* A request that does not move keeps what it carries and has read.        *)
LEMMA RequestStays ==
    ASSUME TypeOK, RowsStay, Len(log') \in Nat, games <= games', games' \in Nat,
           NEW q \in Requests, BatchInLog(q), SeenIsPast(q)
    PROVE  BatchInLog(q)' /\ SeenIsPast(q)'
<1>1. /\ log \in Seq(Events) /\ Len(log) \in Nat /\ DOMAIN log = 1..Len(log) /\ games \in Nat
      /\ q.base \in Nat /\ q.batch \in Seq(Events) /\ q.seen.seq \in Nat
      /\ q.seen.round.game \in Nat
  <2>1. log \in Seq(Events) /\ games \in Nat
    BY DEF TypeOK
  <2>2. q.base \in Nat /\ q.batch \in Seq(Events) /\ q.seen \in Snapshots
    BY DEF Requests
  <2>3. q.seen.seq \in Nat /\ q.seen.round.game \in Nat
    BY <2>2 DEF Snapshots, Rounds
  <2>4. QED
    BY <2>1, <2>2, <2>3
<1>2. DOMAIN q.batch = 1..Len(q.batch) /\ Len(q.batch) \in Nat
  BY <1>1
<1>3. ASSUME q.pc # "append", NEW i \in DOMAIN q.batch
      PROVE  q.base + i <= Len(log') /\ log'[q.base + i] = q.batch[i]
  <2>1. q.base + i <= Len(log) /\ log[q.base + i] = q.batch[i]
    BY <1>3 DEF BatchInLog
  <2>2. q.base + i \in DOMAIN log
    BY <1>1, <1>2, <2>1
  <2>3. QED
    BY <1>1, <1>2, <2>1, <2>2 DEF RowsStay
<1>4. BatchInLog(q)'
  BY <1>3 DEF BatchInLog
<1>5. SeenIsPast(q)'
  BY <1>1 DEF SeenIsPast, RowsStay
<1>6. QED
  BY <1>4, <1>5

LEMMA RequestsStep ==
    ASSUME TypeOK, RequestsSound, EventsSound, SnapshotWithinLog, Next, TypeOK'
    PROVE  RequestsSound'
<1> USE DEF memory, stores, bounds, history
<1>1. RowsStay /\ games <= games' /\ Len(log') \in Nat /\ games' \in Nat /\ Len(log) \in Nat
  <2>1. RowsStay /\ games <= games'
    BY RowsStep
  <2>2. Len(log') \in Nat /\ games' \in Nat /\ Len(log) \in Nat
    BY SMTT(30) DEF TypeOK
  <2>3. QED
    BY <2>1, <2>2
<1>2. ASSUME NEW g \in Handlers, serving'[g] = serving[g]
      PROVE  BatchInLog(serving[g])' /\ SeenIsPast(serving[g])'
  <2>1. PICK q \in Requests : q = serving[g]
    BY DEF TypeOK
  <2>2. BatchInLog(q) /\ SeenIsPast(q)
    BY <2>1 DEF RequestsSound
  <2>3. BatchInLog(q)' /\ SeenIsPast(q)'
    BY <1>1, <2>2, RequestStays
  <2>4. q = serving'[g]
    BY <1>2, <2>1
  <2>5. QED
    BY <2>3, <2>4
<1>3. CASE UNCHANGED serving
  BY <1>2, <1>3 DEF RequestsSound
<1>4. ASSUME NEW h \in Handlers, Moved(h), BatchInLog(serving[h])', SeenIsPast(serving[h])'
      PROVE  RequestsSound'
  BY <1>2, <1>4 DEF RequestsSound, Moved
<1>5. ASSUME NEW h \in Handlers, Moved(h), serving'[h] = Idle PROVE RequestsSound'
  <2>1. PICK q \in Requests : q = Idle
    BY Blanks
  <2>2. BatchInLog(q)'
    BY <2>1 DEF BatchInLog, Idle
  <2>3. SeenIsPast(q)'
    BY <1>1, <2>1 DEF SeenIsPast, Idle, NoSnap, NoRound
  <2>4. q = serving'[h]
    BY <1>5, <2>1
  <2>5. QED
    BY <1>4, <1>5, <2>2, <2>3, <2>4
<1>6. ASSUME NEW h \in Handlers PROVE BatchInLog(serving[h]) /\ SeenIsPast(serving[h])
  BY DEF RequestsSound
(* Nothing but its place changes. *)
<1>7. ASSUME NEW h \in Handlers, NEW pc \in Places,
             Stands(h, pc, serving[h].batch, serving[h].base, serving[h].at, serving[h].seen),
             pc # "append", pc \notin {"effects", "meta_round", "meta_put"},
             serving[h].batch = <<>> \/ (serving[h].pc # "append" /\ pc \in {"meta_prev", "mark"})
      PROVE  RequestsSound'
  <2>1. PICK q \in Requests : q = serving[h]
    BY DEF TypeOK
  <2>2. BatchInLog(q) /\ SeenIsPast(q) /\ BatchInLog(q)' /\ SeenIsPast(q)'
    BY <1>1, <1>6, <2>1, RequestStays
  <2>3. /\ serving'[h].pc = pc /\ serving'[h].batch = q.batch /\ serving'[h].base = q.base
        /\ serving'[h].at = q.at /\ serving'[h].seen = q.seen
    BY <1>7, <2>1 DEF Stands
  <2>4. q.batch = <<>> \/ (q.pc # "append" /\ pc \in {"meta_prev", "mark"})
    BY <1>7, <2>1
  <2>5. BatchInLog(serving[h])'
    BY <1>7, <2>2, <2>3, <2>4 DEF BatchInLog
  <2>6. SeenIsPast(serving[h])'
    BY <1>7, <2>2, <2>3 DEF SeenIsPast
  <2>7. QED
    BY <1>4, <1>7, <2>5, <2>6 DEF Stands

(* A request that begins. *)
<1>8. ASSUME NEW h \in Handlers, NEW pc \in {"ensure", "cursor"}, NEW s \in Snapshots,
             Stands(h, pc, <<>>, 0, 0, s), s.seq <= Len(log'), s.round.game <= games'
      PROVE  RequestsSound'
  <2>1. /\ serving'[h].pc = pc /\ serving'[h].batch = <<>> /\ serving'[h].at = 0
        /\ serving'[h].seen = s
    BY <1>8 DEF Stands
  <2>2. BatchInLog(serving[h])'
    BY <2>1 DEF BatchInLog
  <2>3. SeenIsPast(serving[h])'
    BY <1>8, <2>1 DEF SeenIsPast
  <2>4. QED
    BY <1>4, <1>8, <2>2, <2>3 DEF Stands
(* persistRoomMeta: the batch is stored, and what was read is past. *)
<1>9. ASSUME NEW h \in Handlers, NEW pc \in {"meta_room", "meta_round", "meta_put", "exec", "mark"},
             NEW s \in Snapshots,
             Stands(h, pc, serving[h].batch, serving[h].base, serving[h].at, s),
             serving[h].pc \in {"meta_prev", "meta_room", "meta_round", "meta_put"},
             pc = "exec" => serving[h].batch = <<>>,
             s.seq <= Len(log'), s.round.game <= games',
             pc \in {"meta_round", "meta_put"} => s.players \in Seatings,
             pc = "meta_put" => s.round.step <= MaxSteps
      PROVE  RequestsSound'
  <2>1. PICK q \in Requests : q = serving[h]
    BY DEF TypeOK
  <2>2. BatchInLog(q)'
    BY <1>1, <1>6, <2>1, RequestStays
  <2>3. /\ serving'[h].pc = pc /\ serving'[h].batch = q.batch /\ serving'[h].base = q.base
        /\ serving'[h].at = q.at /\ serving'[h].seen = s
    BY <1>9, <2>1 DEF Stands
  <2>4. /\ q.pc \in {"meta_prev", "meta_room", "meta_round", "meta_put"}
        /\ pc = "exec" => q.batch = <<>>
    BY <1>9, <2>1
  <2>5. BatchInLog(serving[h])'
    BY <2>2, <2>3, <2>4 DEF BatchInLog
  <2>6. SeenIsPast(serving[h])'
    BY <1>9, <2>3 DEF SeenIsPast
  <2>7. QED
    BY <1>4, <1>9, <2>5, <2>6 DEF Stands
<1>10. ASSUME NEW h \in Handlers, MetaDone(h),
             serving[h].pc \in {"meta_prev", "meta_room", "meta_round", "meta_put"}
       PROVE RequestsSound'
  <2> DEFINE pc == IF serving[h].batch = <<>> THEN "exec" ELSE "mark"
  <2>1. Stands(h, pc, serving[h].batch, serving[h].base, serving[h].at, NoSnap)
    BY <1>10, MetaDoneServes
  <2>2. NoSnap.seq <= Len(log') /\ NoSnap.round.game <= games'
    BY <1>1 DEF NoSnap, NoRound
  <2>3. pc \in {"exec", "mark"} /\ (pc = "exec" => serving[h].batch = <<>>)
    OBVIOUS
  <2> HIDE DEF pc
  <2>4. QED
    BY <1>9, <1>10, <2>1, <2>2, <2>3, Blanks
<1>11. ASSUME NEW h \in Handlers, Begin(h) PROVE RequestsSound'
  <2>1. NoSnap.seq <= Len(log') /\ NoSnap.round.game <= games'
    BY <1>1 DEF NoSnap, NoRound
  <2>2. QED
    BY <1>3, <1>8, <1>11, <2>1, BeginServes, Blanks
<1>12. ASSUME NEW h \in Handlers, EnsureRoom(h) \/ CreateRoom(h) \/ StartActorLocked(h)
              \/ EnsureActorForExistingRoom(h)
       PROVE RequestsSound'
  <2>1. \E pc \in {"create", "existing", "start", "existing2", "join"} : Goto(h, pc)
    BY <1>12 DEF EnsureRoom, CreateRoom, StartActorLocked, EnsureActorForExistingRoom,
                 EnsureActorLook, EnsureActorStart
  <2>2. PICK pc \in {"create", "existing", "start", "existing2", "join"} : Goto(h, pc)
    BY <2>1
  <2>3. pc \in Places
    BY DEF Places
  <2>4. Stands(h, pc, serving[h].batch, serving[h].base, serving[h].at, serving[h].seen)
    BY <2>2, <2>3, GotoServes
  <2>5. serving[h].pc \in {"ensure", "create", "start", "existing", "existing2"}
    BY <1>12 DEF EnsureRoom, CreateRoom, StartActorLocked, EnsureActorForExistingRoom,
                 EnsureActorLook, EnsureActorStart
  <2>6. serving[h].batch = <<>>
    BY <1>6, <2>5 DEF BatchInLog
  <2>7. QED
    BY <1>7, <2>3, <2>4, <2>6
<1>13. ASSUME NEW h \in Handlers, Join(h) PROVE RequestsSound'
  <2>1. serving[h].batch = <<>>
    BY <1>6, <1>13 DEF BatchInLog, Join
  <2>2. "meta_prev" \in Places
    BY DEF Places
  <2>3. QED
    BY <1>5, <1>7, <1>13, <2>1, <2>2, JoinTypes
<1>14. ASSUME NEW h \in Handlers, NEW batch \in Seq(Events), NEW pc \in {"append", "mark", "reply"},
              NEW base \in Nat, NEW s \in Snapshots, Stands(h, pc, batch, base, 0, s),
              pc # "append" => batch = <<>>, s.seq <= Len(log'), s.round.game <= games'
       PROVE  RequestsSound'
  <2>1. /\ serving'[h].pc = pc /\ serving'[h].batch = batch /\ serving'[h].at = 0
        /\ serving'[h].seen = s
    BY <1>14 DEF Stands
  <2>2. BatchInLog(serving[h])'
    BY <1>14, <2>1 DEF BatchInLog
  <2>3. SeenIsPast(serving[h])'
    BY <1>14, <2>1 DEF SeenIsPast
  <2>4. QED
    BY <1>4, <1>14, <2>2, <2>3 DEF Stands
<1>15. ASSUME NEW h \in Handlers, Execute(h) PROVE RequestsSound'
  <2> DEFINE body == serving[h].body
             pc == CASE body = "signal" -> "reply"
                     [] body \in {"join", "leave"} -> "mark"
                     [] OTHER -> "append"
  <2>1. serving[h].batch = <<>> /\ serving[h].at = 0
    BY <1>6, <1>15 DEF BatchInLog, Execute
  <2>2. serving[h].base \in Nat /\ serving[h].seen \in Snapshots
    BY DEF TypeOK, Requests
  <2>3. serving[h].seen.seq <= Len(log') /\ serving[h].seen.round.game <= games'
    <3>1. serving[h].seen.seq \in Nat /\ serving[h].seen.round.game \in Nat /\ games \in Nat
      BY <2>2 DEF Snapshots, Rounds, TypeOK
    <3>2. serving[h].seen.seq <= Len(log) /\ serving[h].seen.round.game <= games
      BY <1>6 DEF SeenIsPast
    <3>3. QED
      BY <1>1, <3>1, <3>2 DEF RowsStay
  <2>4. pc \in {"append", "mark", "reply"}
    OBVIOUS
  <2>5. ASSUME NEW batch \in Seq(Events), Command(body, serving[h].user, batch),
               Stands(h, pc, batch, serving[h].base, serving[h].at, serving[h].seen)
        PROVE  RequestsSound'
    <3>1. pc # "append" => batch = <<>>
      BY <2>5 DEF Command, DoLeave, Nothing
    <3> HIDE DEF pc
    <3>2. QED
      BY <1>14, <2>1, <2>2, <2>3, <2>4, <2>5, <3>1
  <2>6. QED
    BY <1>5, <1>15, <2>5, ExecuteServes
<1>16. ASSUME NEW h \in Handlers, AutoTimeout(h) PROVE RequestsSound'
  <2>1. NoSnap.seq <= Len(log') /\ NoSnap.round.game <= games'
    BY <1>1 DEF NoSnap, NoRound
  <2>2. PICK batch \in Seq(Events) : Stands(h, "append", batch, 0, 0, NoSnap)
    BY <1>16, TimeoutServes
  <2>3. QED
    BY <1>14, <2>1, <2>2, Blanks

<1>17. ASSUME NEW h \in Handlers, AppendEvents(h) PROVE RequestsSound'
  <2>1. serving[h].pc = "append" /\ serving[h].at = 0
    BY <1>6, <1>17 DEF AppendEvents, BatchInLog
  <2>2. /\ serving[h].batch \in Seq(Events) /\ serving[h].seen \in Snapshots
        /\ serving[h].base \in Nat /\ log \in Seq(Events) /\ games \in Nat
    BY DEF TypeOK, Requests
  <2>3. serving[h].seen.seq <= Len(log') /\ serving[h].seen.round.game <= games'
    <3>1. serving[h].seen.seq \in Nat /\ serving[h].seen.round.game \in Nat
      BY <2>2 DEF Snapshots, Rounds
    <3>2. serving[h].seen.seq <= Len(log) /\ serving[h].seen.round.game <= games
      BY <1>6 DEF SeenIsPast
    <3>3. QED
      BY <1>1, <2>2, <3>1, <3>2 DEF RowsStay
  <2>4. CASE Stands(h, "mark", <<>>, serving[h].base, serving[h].at, serving[h].seen)
    <3>1. <<>> \in Seq(Events)
      OBVIOUS
    <3>2. QED
      BY <1>14, <2>1, <2>2, <2>3, <2>4, <3>1
  <2>5. CASE /\ log' = log \o serving[h].batch /\ serving[h].batch # <<>>
             /\ Stands(h, "effects", serving[h].batch, Len(log), serving[h].at, serving[h].seen)
    <3>1. PICK b \in Seq(Events) : b = serving[h].batch
      BY <2>2
    <3>2. /\ serving'[h].pc = "effects" /\ serving'[h].batch = b /\ serving'[h].base = Len(log)
          /\ serving'[h].at = 0 /\ serving'[h].seen = serving[h].seen
      BY <2>1, <2>5, <3>1 DEF Stands
    <3>3. b # <<>> /\ Len(b) \in Nat \ {0}
      BY <2>5, <3>1
    <3>4. \A i \in DOMAIN b : Len(log) + i <= Len(log') /\ log'[Len(log) + i] = b[i]
      <4>1. log' = log \o b
        BY <2>5, <3>1
      <4>2. /\ Len(log') = Len(log) + Len(b) /\ DOMAIN b = 1..Len(b)
            /\ \A i \in DOMAIN b : log'[Len(log) + i] = b[i]
        BY <2>2, <4>1, LogGrows
      <4>3. QED
        BY <1>1, <3>3, <4>2
    <3>5. BatchInLog(serving[h])'
      BY <3>2, <3>3, <3>4 DEF BatchInLog
    <3>6. SeenIsPast(serving[h])'
      BY <2>3, <3>2 DEF SeenIsPast
    <3>7. QED
      BY <1>4, <2>5, <3>5, <3>6 DEF Stands
  <2>6. QED
    BY <1>5, <1>17, <2>4, <2>5, AppendServes
<1>18. ASSUME NEW h \in Handlers, Effects(h) PROVE RequestsSound'
  <2>1. PICK q \in Requests : q = serving[h]
    BY DEF TypeOK
  <2>2. q.pc = "effects" /\ BatchInLog(q) /\ q.at < Len(q.batch) /\ BatchInLog(q)' /\ SeenIsPast(q)'
    <3>1. q.pc = "effects"
      BY <1>18, <2>1 DEF Effects
    <3>2. BatchInLog(q) /\ SeenIsPast(q)
      BY <1>6, <2>1
    <3>3. QED
      BY <1>1, <3>1, <3>2, RequestStays DEF BatchInLog
  <2>3. /\ serving'[h].pc = IF q.at + 1 = Len(q.batch) THEN "meta_prev" ELSE "effects"
        /\ serving'[h].batch = q.batch /\ serving'[h].base = q.base
        /\ serving'[h].at = q.at + 1 /\ serving'[h].seen = q.seen /\ Moved(h)
    BY <1>18, <2>1, EffectsServes DEF Stands
  <2>4. q.at \in Nat /\ q.batch \in Seq(Events) /\ Len(q.batch) \in Nat
    BY DEF Requests
  <2>5. q.batch # <<>>
    BY <2>2, <2>4
  <2>6. serving'[h].pc = "effects" => serving'[h].at < Len(q.batch)
    BY <2>2, <2>3, <2>4
  <2>7. BatchInLog(serving[h])'
    BY <2>2, <2>3, <2>5, <2>6 DEF BatchInLog
  <2>8. SeenIsPast(serving[h])'
    BY <2>2, <2>3 DEF SeenIsPast
  <2>9. QED
    BY <1>4, <2>3, <2>7, <2>8
<1>19. ASSUME NEW h \in Handlers, MetaPrev(h) \/ MetaRoom(h) \/ MetaRound(h) \/ MetaPut(h)
       PROVE  RequestsSound'
  <2> DEFINE seen == serving[h].seen
  <2>1. /\ serving[h].pc \in {"meta_prev", "meta_room", "meta_round", "meta_put"}
        /\ seen \in Snapshots /\ snap \in Snapshots /\ round \in Rounds
        /\ room.players \in Seatings /\ room.fsm \in States
    BY <1>19 DEF MetaPrev, MetaRoom, MetaRound, MetaPut, TypeOK, Requests, Rooms
  <2>2. /\ seen.seq \in Nat /\ seen.round.game \in Nat /\ games \in Nat
        /\ snap.seq \in Nat /\ round.game \in Nat
    BY <2>1 DEF Snapshots, Rounds, TypeOK
  <2>3. seen.seq <= Len(log') /\ seen.round.game <= games'
    <3>1. seen.seq <= Len(log) /\ seen.round.game <= games
      BY <1>6 DEF SeenIsPast
    <3>2. QED
      BY <1>1, <2>2, <3>1 DEF RowsStay
  <2>4. CASE MetaDone(h)
    BY <1>10, <2>1, <2>4
  <2>5. CASE Stands(h, "meta_room", serving[h].batch, serving[h].base, serving[h].at,
                    [seen EXCEPT !.seq = snap.seq])
    <3> DEFINE s == [seen EXCEPT !.seq = snap.seq]
    <3>1. s \in Snapshots /\ s.seq = snap.seq /\ s.round = seen.round
      BY <2>1, <2>2 DEF Snapshots
    <3>2. s.seq <= Len(log')
      BY <1>1, <2>2, <3>1 DEF SnapshotWithinLog, RowsStay
    <3> HIDE DEF s
    <3>3. QED
      BY <1>9, <2>1, <2>3, <2>5, <3>1, <3>2 DEF s
  <2>6. CASE Stands(h, "meta_round", serving[h].batch, serving[h].base, serving[h].at,
                    [seen EXCEPT !.players = room.players, !.fsm = room.fsm])
    <3> DEFINE s == [seen EXCEPT !.players = room.players, !.fsm = room.fsm]
    <3>1. s \in Snapshots /\ s.players \in Seatings /\ s.round = seen.round /\ s.seq = seen.seq
      BY <2>1 DEF Snapshots
    <3>2. Stands(h, "meta_round", serving[h].batch, serving[h].base, serving[h].at, s)
      BY <2>6
    <3> HIDE DEF s
    <3>3. QED
      BY <1>9, <2>1, <2>3, <3>1, <3>2
  <2>7. CASE /\ serving[h].pc = "meta_round"
             /\ Stands(h, "meta_put", serving[h].batch, serving[h].base, serving[h].at,
                       [seen EXCEPT !.round = round])
    <3> DEFINE s == [seen EXCEPT !.round = round]
    <3>1. s \in Snapshots /\ s.players = seen.players /\ s.round = round /\ s.seq = seen.seq
      BY <2>1 DEF Snapshots
    <3>2. Stands(h, "meta_put", serving[h].batch, serving[h].base, serving[h].at, s)
      BY <2>7
    <3>3. s.players \in Seatings
      BY <1>6, <2>7, <3>1 DEF SeenIsPast
    <3>4. round.game <= games' /\ round.step <= MaxSteps
      <4>1. round.game <= games
        BY <2>2 DEF EventsSound
      <4>2. round.step <= MaxSteps
        BY SMTT(30) DEF TypeOK
      <4>3. QED
        BY <1>1, <2>2, <4>1, <4>2
    <3> HIDE DEF s
    <3>5. QED
      BY <1>9, <2>1, <2>3, <3>1, <3>2, <3>3, <3>4
  <2>8. QED
    BY <1>19, <2>4, <2>5, <2>6, <2>7, MetaPrevServes, MetaRoomServes, MetaRoundServes
       DEF MetaPut, MetaRound
<1>20. ASSUME NEW h \in Handlers, SnapshotRoom(h) PROVE RequestsSound'
  <2>1. /\ {round, snap.round, NoRound} \subseteq Rounds /\ serving[h].seen \in Snapshots
        /\ games \in Nat /\ UNCHANGED <<log, games>>
    BY <1>20, Blanks DEF TypeOK, Requests, SnapshotRoom, Snapshots
  <2>2. /\ \A r \in {round, snap.round, NoRound} : r.game \in Nat /\ r.game <= games
        /\ serving[h].seen.seq \in Nat
    BY <2>1 DEF EventsSound, Rounds, NoRound, Snapshots
  <2>3. CASE UNCHANGED serving
    BY <1>3, <2>3
  <2>4. ASSUME NEW f \in States, NEW r \in {NoRound, snap.round},
               Stands(h, "cursor", <<>>, 0, 0, [NoSnap EXCEPT !.fsm = f, !.round = r])
        PROVE  RequestsSound'
    <3> DEFINE s == [NoSnap EXCEPT !.fsm = f, !.round = r]
    <3>1. s \in Snapshots /\ s.seq = 0 /\ s.round = r
      BY <2>1, Blanks DEF Snapshots, NoSnap
    <3>2. s.seq <= Len(log') /\ s.round.game <= games'
      BY <1>1, <2>1, <2>2, <3>1
    <3>3. Stands(h, "cursor", <<>>, 0, 0, s)
      BY <2>4
    <3> HIDE DEF s
    <3>4. QED
      BY <1>8, <3>1, <3>2, <3>3
  <2>5. ASSUME NEW pc \in {"view", "shown"}, NEW s \in Snapshots,
               serving[h].pc \in {"cursor", "view"},
               Stands(h, pc, serving[h].batch, serving[h].base, serving[h].at, s),
               s.seq <= Len(log), s.round.game <= games
        PROVE  RequestsSound'
    <3>1. serving[h].batch = <<>> /\ serving[h].at = 0
      BY <1>6, <2>5 DEF BatchInLog
    <3>2. /\ serving'[h].pc = pc /\ serving'[h].batch = <<>> /\ serving'[h].at = 0
          /\ serving'[h].seen = s /\ Moved(h)
      BY <2>5, <3>1 DEF Stands
    <3>3. BatchInLog(serving[h])'
      BY <3>2 DEF BatchInLog
    <3>4. SeenIsPast(serving[h])'
      BY <2>1, <2>5, <3>2 DEF SeenIsPast
    <3>5. QED
      BY <1>4, <3>2, <3>3, <3>4
  <2>6. serving[h].seen.seq <= Len(log) /\ serving[h].seen.round.game <= games
    BY <1>6 DEF SeenIsPast
  <2>7. \A n \in {0, Len(log)} :
           /\ [serving[h].seen EXCEPT !.seq = n] \in Snapshots
           /\ [serving[h].seen EXCEPT !.seq = n].seq = n
           /\ [serving[h].seen EXCEPT !.seq = n].round = serving[h].seen.round
    BY <1>1, <2>1 DEF Snapshots
  <2>8. /\ [serving[h].seen EXCEPT !.round = round] \in Snapshots
        /\ [serving[h].seen EXCEPT !.round = round].seq = serving[h].seen.seq
        /\ [serving[h].seen EXCEPT !.round = round].round = round
    BY <2>1 DEF Snapshots
  <2>9. CASE /\ serving[h].pc = "cursor"
             /\ \E n \in {0, Len(log)}, pc \in {"view", "shown"} :
                   Stands(h, pc, serving[h].batch, serving[h].base, serving[h].at,
                          [serving[h].seen EXCEPT !.seq = n])
    <3>1. PICK n \in {0, Len(log)}, pc \in {"view", "shown"} :
             Stands(h, pc, serving[h].batch, serving[h].base, serving[h].at,
                    [serving[h].seen EXCEPT !.seq = n])
      BY <2>9
    <3>2. n <= Len(log)
      BY <1>1
    <3> DEFINE s == [serving[h].seen EXCEPT !.seq = n]
    <3>3. s \in Snapshots /\ s.seq <= Len(log) /\ s.round.game <= games
          /\ Stands(h, pc, serving[h].batch, serving[h].base, serving[h].at, s)
      BY <2>6, <2>7, <3>1, <3>2
    <3> HIDE DEF s
    <3>4. QED
      BY <2>5, <2>9, <3>3
  <2>10. CASE /\ serving[h].pc = "view"
              /\ Stands(h, "shown", serving[h].batch, serving[h].base, serving[h].at,
                        [serving[h].seen EXCEPT !.round = round])
    <3> DEFINE s == [serving[h].seen EXCEPT !.round = round]
    <3>1. s \in Snapshots /\ s.seq <= Len(log) /\ s.round.game <= games
          /\ Stands(h, "shown", serving[h].batch, serving[h].base, serving[h].at, s)
      BY <2>2, <2>6, <2>8, <2>10
    <3> HIDE DEF s
    <3>2. QED
      BY <2>5, <2>10, <3>1
  <2>11. CASE /\ serving[h].pc = "view"
              /\ Stands(h, "shown", serving[h].batch, serving[h].base, serving[h].at,
                        serving[h].seen)
    BY <2>1, <2>5, <2>6, <2>11
  <2>12. QED
    BY <1>20, <2>3, <2>4, <2>9, <2>10, <2>11, SnapshotServes
<1>21. ASSUME Crash PROVE RequestsSound'
  <2>1. \A h \in Handlers : serving'[h] = Idle
    BY <1>21 DEF Crash
  <2>2. PICK q \in Requests : q = Idle
    BY Blanks
  <2>3. BatchInLog(q)'
    BY <2>2 DEF BatchInLog, Idle
  <2>4. SeenIsPast(q)'
    BY <1>1, <2>2 DEF SeenIsPast, Idle, NoSnap, NoRound
  <2>5. \A h \in Handlers : serving'[h] = q
    BY <2>1, <2>2
  <2>6. QED
    BY <2>3, <2>4, <2>5 DEF RequestsSound
<1>22. ASSUME RemoveActor \/ Recover PROVE RequestsSound'
  BY <1>3, <1>22 DEF RemoveActor, Recover
<1>23. ASSUME NEW h \in Handlers, Answer(h) PROVE RequestsSound'
  BY <1>5, <1>23, ReplyServes DEF Answer
<1>24. QED
  BY <1>11, <1>12, <1>13, <1>15, <1>16, <1>17, <1>18, <1>19, <1>20, <1>21, <1>22, <1>23
     DEF Next, PersistNotifications

-----------------------------------------------------------------------------
(* The events. *)

(* Whatever has happened stays sound, and the view that covered it does.   *)
EventsKept ==
    /\ round'.game \in 0..games' /\ done'.game \in 0..games'
    /\ \A e \in Events : EventSound(e) => EventSound(e)'
    /\ \A e \in Events : EventSound(e) /\ Covers(done, e) => Covers(done', e)

LEMMA ReadyEvents ==
    ASSUME TypeOK, ActorFitsRoom, EventsSound, NEW u, NEW batch, DoReady(u, batch)
    PROVE  /\ EventsKept
           /\ \A i \in DOMAIN batch : EventSound(batch[i])' /\ Covers(done', batch[i])
<1>1. games \in Nat /\ round \in Rounds /\ done \in Rounds
      /\ round.game \in 0..games /\ done.game \in 0..games
  BY DEF TypeOK, EventsSound
<1>2. CASE /\ games' = games + 1 /\ round' = [game |-> games + 1, step |-> 1] /\ done' = round'
           /\ batch = Step(<<"initial_deal">>, round')
  <2>1. round'.game = games + 1 /\ round'.step = 1 /\ round' \in Rounds
    BY <1>1, <1>2 DEF Rounds
  <2>2. ASSUME NEW e \in Events, EventSound(e) PROVE EventSound(e)' /\ Covers(done', e)
    <3>1. e.game <= games /\ e.game \in Nat
      BY <2>2 DEF EventSound, Events
    <3>2. e.game < games + 1
      BY <1>1, <3>1
    <3>3. EventSound(e)'
      BY <1>1, <1>2, <2>1, <3>1, <3>2 DEF EventSound
    <3>4. Covers(done', e)
      BY <1>2, <2>1, <3>2 DEF Covers
    <3>5. QED
      BY <3>3, <3>4
  <2>3. PICK b \in Seq(Events) : b = batch
    BY <1>2, <2>1, StepType
  <2>4. \A i \in DOMAIN b : b[i] = [kind |-> "initial_deal", game |-> games + 1, step |-> 1]
    BY <1>2, <2>1, <2>3, StepType
  <2>5. ASSUME NEW i \in DOMAIN b PROVE EventSound(b[i])' /\ Covers(done', b[i])
    <3>1. PICK e \in Events : e = b[i]
      BY <2>3
    <3>2. e.kind = "initial_deal" /\ e.game = games + 1 /\ e.step = 1
      BY <2>4, <3>1
    <3>3. EventSound(e)' /\ Covers(done', e)
      BY <1>1, <1>2, <2>1, <3>2 DEF EventSound, Covers
    <3>4. QED
      BY <3>1, <3>3
  <2>6. EventsKept
    BY <1>1, <1>2, <2>1, <2>2 DEF EventsKept
  <2>7. QED
    BY <2>3, <2>5, <2>6
<1>3. CASE batch = <<>> /\ UNCHANGED <<round, games, done>>
  BY <1>1, <1>3 DEF EventsKept, EventSound, Covers
<1>4. QED
  BY <1>2, <1>3 DEF DoReady

LEMMA MoveEvents ==
    ASSUME TypeOK, ActorFitsRoom, EventsSound, NEW batch \in Seq(Events), DoMove(batch)
    PROVE  /\ EventsKept
           /\ \A i \in DOMAIN batch : EventSound(batch[i])' /\ Covers(done', batch[i])
<1> DEFINE r == [round EXCEPT !.step = @ + 1]
<1>1. games \in Nat /\ round \in Rounds /\ round # NoRound /\ done = round
      /\ round.game \in 0..games /\ games' = games
  BY DEF TypeOK, EventsSound, DoMove, ActorFitsRoom
<1>2. r \in Rounds /\ r.game = round.game /\ r.step = round.step + 1 /\ round.step \in Nat
  BY <1>1 DEF Rounds
<1>3. done' = r /\ (round' = r \/ round' = NoRound)
  BY DEF DoMove
<1>4. \/ round' = r /\ batch = Step(<<"action">>, r)
      \/ round' = NoRound /\ batch = Step(<<"action", "settlement">>, r)
  BY DEF DoMove
<1> HIDE DEF r
<1>5. round'.game \in 0..games' /\ done'.game \in 0..games'
  BY <1>1, <1>2, <1>3 DEF NoRound
<1>6. ASSUME NEW e \in Events, EventSound(e) PROVE EventSound(e)'
  BY <1>1, <1>2, <1>3, <1>6 DEF EventSound
<1>7. ASSUME NEW e \in Events, Covers(done, e) PROVE Covers(done', e)
  <2>1. e.game \in Nat /\ e.step \in Nat
    BY DEF Events
  <2>2. QED
    BY <1>1, <1>2, <1>3, <1>7, <2>1 DEF Covers
<1>8. \A i \in DOMAIN batch : /\ batch[i].game = r.game /\ batch[i].step = r.step
                              /\ batch[i].kind = "settlement" => round' = NoRound
  <2>1. CASE round' = r /\ batch = Step(<<"action">>, r)
    <3>1. DOMAIN batch = DOMAIN <<"action">>
          /\ \A i \in DOMAIN <<"action">> : batch[i] =
                [kind |-> <<"action">>[i], game |-> r.game, step |-> r.step]
      BY <1>2, <2>1, StepType
    <3>2. QED
      BY <3>1
  <2>2. CASE round' = NoRound /\ batch = Step(<<"action", "settlement">>, r)
    <3>1. PICK k : /\ DOMAIN batch = DOMAIN k
                   /\ \A i \in DOMAIN k : batch[i] =
                         [kind |-> k[i], game |-> r.game, step |-> r.step]
      BY <1>2, <2>2, StepType
    <3>2. \A i \in DOMAIN batch : batch[i].game = r.game /\ batch[i].step = r.step
      BY <3>1
    <3>3. QED
      BY <2>2, <3>2
  <2>3. QED
    BY <1>4, <2>1, <2>2
<1>9. ASSUME NEW i \in DOMAIN batch PROVE EventSound(batch[i])' /\ Covers(done', batch[i])
  <2>1. PICK e \in Events : e = batch[i]
    OBVIOUS
  <2>2. e.game = r.game /\ e.step = r.step /\ (e.kind = "settlement" => round' = NoRound)
    BY <1>8, <2>1
  <2>3. EventSound(e)' /\ Covers(done', e)
    BY <1>1, <1>2, <1>3, <2>2 DEF EventSound, Covers
  <2>4. QED
    BY <2>1, <2>3
<1>10. QED
  BY <1>5, <1>6, <1>7, <1>9 DEF EventsKept

LEMMA CommandEvents ==
    ASSUME TypeOK, ActorFitsRoom, EventsSound, NEW body, NEW u, NEW batch \in Seq(Events),
           Command(body, u, batch)
    PROVE  /\ EventsKept
           /\ \A i \in DOMAIN batch : EventSound(batch[i])' /\ Covers(done', batch[i])
<1>1. CASE DoReady(u, batch)
  BY <1>1, ReadyEvents
<1>2. CASE DoMove(batch)
  BY <1>2, MoveEvents
<1>3. CASE batch = <<>> /\ UNCHANGED <<round, games, done>>
  <2>1. EventsKept
    BY <1>3 DEF EventsKept, EventSound, Covers, EventsSound
  <2>2. QED
    BY <1>3, <2>1
<1>4. QED
  BY <1>1, <1>2, <1>3 DEF Command, DoLeave, Nothing

(* Only a command gives a request a batch. *)
LEMMA BatchesStep ==
    ASSUME TypeOK, Next
    PROVE  \/ \E h \in Handlers : Execute(h) \/ AutoTimeout(h)
           \/ \A g \in Handlers : serving'[g].batch \in {serving[g].batch, <<>>}
<1> USE DEF memory, stores, bounds, history
<1> DEFINE Kept == \A g \in Handlers : serving'[g].batch \in {serving[g].batch, <<>>}
<1>1. Idle.batch = <<>>
  BY DEF Idle
<1>2. ASSUME NEW h \in Handlers, Moved(h), serving'[h].batch \in {serving[h].batch, <<>>}
      PROVE  Kept
  BY <1>2 DEF Moved
<1>3. ASSUME NEW h \in Handlers, Goto(h, "create") \/ Goto(h, "existing") \/ Goto(h, "start")
             \/ Goto(h, "existing2") \/ Goto(h, "join") \/ MetaDone(h) \/ Reply(h)
      PROVE  Kept
  <2>1. {"create", "existing", "start", "existing2", "join"} \subseteq Places
    BY DEF Places
  <2>2. QED
    BY <1>1, <1>2, <1>3, <2>1, GotoServes, MetaDoneServes, ReplyServes DEF Stands
<1>4. ASSUME NEW h \in Handlers, Begin(h) PROVE Kept
  BY <1>2, <1>4, BeginServes DEF Stands
<1>5. ASSUME NEW h \in Handlers, EnsureRoom(h) \/ CreateRoom(h) \/ StartActorLocked(h)
             \/ EnsureActorForExistingRoom(h)
      PROVE Kept
  <2> HIDE DEF Kept
  <2>1. QED
    BY <1>3, <1>5 DEF EnsureRoom, CreateRoom, StartActorLocked, EnsureActorForExistingRoom,
                      EnsureActorLook, EnsureActorStart
<1>6. ASSUME NEW h \in Handlers, Join(h) PROVE Kept
  BY <1>1, <1>2, <1>6, JoinTypes DEF Stands
<1>7. ASSUME NEW h \in Handlers, AppendEvents(h) PROVE Kept
  BY <1>1, <1>2, <1>7, AppendServes DEF Stands
<1>8. ASSUME NEW h \in Handlers, Effects(h) PROVE Kept
  BY <1>2, <1>8, EffectsServes DEF Stands
<1>9. ASSUME NEW h \in Handlers, MetaPrev(h) PROVE Kept
  BY <1>2, <1>3, <1>9, MetaPrevServes DEF Stands
<1>10. ASSUME NEW h \in Handlers, MetaRoom(h) PROVE Kept
  BY <1>2, <1>3, <1>10, MetaRoomServes DEF Stands
<1>11. ASSUME NEW h \in Handlers, MetaRound(h) PROVE Kept
  BY <1>2, <1>3, <1>11, MetaRoundServes DEF Stands
<1>12. ASSUME NEW h \in Handlers, SnapshotRoom(h) PROVE Kept
  <2>1. CASE UNCHANGED serving
    BY <2>1
  <2>2. CASE Moved(h) /\ serving'[h].batch \in {serving[h].batch, <<>>}
    BY <1>2, <2>2
  <2>3. QED
    BY <1>12, <2>1, <2>2, SnapshotServes DEF Stands
<1>13. ASSUME NEW h \in Handlers, MetaPut(h) \/ Answer(h) PROVE Kept
  <2> HIDE DEF Kept
  <2>1. QED
    BY <1>3, <1>13 DEF MetaPut, Answer
<1>14. ASSUME RemoveActor \/ Recover PROVE Kept
  BY <1>14 DEF RemoveActor, Recover
<1>15. ASSUME Crash PROVE Kept
  BY <1>1, <1>15 DEF Crash
<1> HIDE DEF Kept
<1>16. (\E h \in Handlers : Execute(h) \/ AutoTimeout(h)) \/ Kept
  BY <1>4, <1>5, <1>6, <1>7, <1>8, <1>9, <1>10, <1>11, <1>12, <1>13, <1>14, <1>15
     DEF Next, PersistNotifications
<1>17. QED
  BY <1>16 DEF Kept

LEMMA EventsStep ==
    ASSUME IInv, Next, TypeOK'
    PROVE  EventsSound'
<1> USE DEF memory, stores, bounds, history
<1>1. /\ TypeOK /\ ActorFitsRoom /\ EventsSound /\ RequestsSound /\ DownIsEmpty
  BY DEF IInv, ProcessInv
<1>2. /\ log \in Seq(Events) /\ Len(log) \in Nat /\ games \in Nat /\ rolled \in Nat
      /\ DOMAIN log = 1..Len(log) /\ serving \in [Handlers -> Requests]
  BY <1>1, SMTT(30) DEF TypeOK
<1>3. /\ round.game \in 0..games /\ done.game \in 0..games /\ snap.round.game \in 0..games
  BY <1>1 DEF EventsSound
<1>4. games <= games' /\ games' \in Nat
  BY <1>1, RowsStep DEF TypeOK
<1>5. snap'.round.game \in 0..games'
  <2>1. UNCHANGED snap \/ \E h \in Handlers : MetaPut(h)
    BY ZenonT(60) DEF Next, Begin, EnsureRoom, CreateRoom, StartActorLocked, EnsureActorForExistingRoom,
           Join, Execute, AutoTimeout, PersistNotifications, Effects, MetaPrev, MetaRoom,
           MetaRound, Answer, SnapshotRoom, RemoveActor, Crash, Recover
  <2>2. snap'.round.game \in 0..games
    BY <1>1, <1>3, <2>1, PutFacts
  <2>3. QED
    BY <1>2, <1>4, <2>2
<1>6. \A h \in Handlers : \A i \in DOMAIN serving[h].batch :
          /\ serving[h].batch[i] \in Events
          /\ EventSound(serving[h].batch[i]) /\ Covers(done, serving[h].batch[i])
  BY <1>1, <1>2 DEF EventsSound, Requests
<1>7. \A i \in DOMAIN log : log[i] \in Events /\ EventSound(log[i])
  BY <1>1, <1>2 DEF EventsSound
<1>8. \A i \in (rolled + 1)..Len(log) : i \in DOMAIN log /\ Covers(done, log[i])
  BY <1>1, <1>2 DEF EventsSound
(* What the log and the requests hold stays sound when they hold no more.  *)
<1>9. ASSUME EventsKept, UNCHANGED <<log, rolled>>,
             \A h \in Handlers : \A i \in DOMAIN serving'[h].batch :
                 EventSound(serving[h].batch[i])' /\ Covers(done', serving'[h].batch[i])
      PROVE  EventsSound'
  <2>1. ASSUME NEW i \in DOMAIN log
        PROVE  EventSound(log[i])' /\ (i \in (rolled + 1)..Len(log) => Covers(done', log[i]))
    <3>1. PICK e \in Events : e = log[i]
      BY <1>7
    <3>2. EventSound(e)' /\ (i \in (rolled + 1)..Len(log) => Covers(done', e))
      BY <1>7, <1>8, <1>9, <3>1 DEF EventsKept
    <3>3. e = log'[i]
      BY <1>9, <3>1
    <3>4. QED
      BY <3>1, <3>2, <3>3
  <2>2. \A i \in DOMAIN log' : EventSound(log[i])'
    BY <1>9, <2>1
  <2>3. \A i \in (rolled' + 1)..Len(log') : Covers(done', log'[i])
    BY <1>8, <1>9, <2>1
  <2>4. QED
    BY <1>5, <1>9, <2>2, <2>3 DEF EventsSound, EventsKept
<1>10. ASSUME NEW h \in Handlers, NEW batch \in Seq(Events), Moved(h), serving'[h].batch = batch,
              EventsKept, UNCHANGED <<log, rolled>>,
              \A i \in DOMAIN batch : EventSound(batch[i])' /\ Covers(done', batch[i])
       PROVE  EventsSound'
  <2>1. ASSUME NEW g \in Handlers, NEW i \in DOMAIN serving'[g].batch
        PROVE  EventSound(serving[g].batch[i])' /\ Covers(done', serving'[g].batch[i])
    <3>1. CASE g = h
      BY <1>10, <2>1, <3>1
    <3>2. CASE g # h
      <4>1. serving'[g] = serving[g]
        BY <1>10, <3>2 DEF Moved
      <4>2. PICK e \in Events : e = serving[g].batch[i]
        BY <1>6, <2>1, <4>1
      <4>3. EventSound(e)' /\ Covers(done', e)
        BY <1>6, <1>10, <2>1, <4>1, <4>2 DEF EventsKept
      <4>4. QED
        BY <4>1, <4>2, <4>3
    <3>3. QED
      BY <3>1, <3>2
  <2>2. QED
    BY <1>9, <1>10, <2>1
(* A step without a command: the round stays or ends. *)
<1>11. ASSUME round' = round \/ round' = NoRound, UNCHANGED <<done, games>>
       PROVE  EventsKept
  <2>1. round'.game \in 0..games' /\ done'.game \in 0..games'
    BY <1>2, <1>3, <1>11 DEF NoRound
  <2>2. QED
    BY <1>11, <2>1 DEF EventsKept, EventSound, Covers
<1>12. ASSUME round' = round \/ round' = NoRound, UNCHANGED <<done, games, rolled, log>>,
              \A g \in Handlers : serving'[g].batch \in {serving[g].batch, <<>>}
       PROVE  EventsSound'
  <2>1. ASSUME NEW g \in Handlers, NEW i \in DOMAIN serving'[g].batch
        PROVE  EventSound(serving[g].batch[i])' /\ Covers(done', serving'[g].batch[i])
    <3>1. serving'[g].batch = serving[g].batch
      BY <1>12, <2>1
    <3>2. PICK e \in Events : e = serving[g].batch[i]
      BY <1>6, <2>1, <3>1
    <3>3. EventSound(e)' /\ Covers(done', e)
      BY <1>6, <1>11, <1>12, <2>1, <3>1, <3>2 DEF EventsKept
    <3>4. QED
      BY <3>1, <3>2, <3>3
  <2>2. QED
    BY <1>9, <1>11, <1>12, <2>1

<1>13. ASSUME NEW h \in Handlers, Execute(h) PROVE EventsSound'
  <2>1. UNCHANGED <<log, rolled>>
    BY <1>13 DEF Execute
  <2>2. CASE Moved(h) /\ serving'[h] = Idle /\ UNCHANGED <<room, round, games, done>>
    <3>1. \A g \in Handlers : serving'[g].batch \in {serving[g].batch, <<>>}
      BY <2>2 DEF Moved, Idle
    <3>2. QED
      BY <1>12, <2>1, <2>2, <3>1
  <2>3. ASSUME NEW batch \in Seq(Events), Command(serving[h].body, serving[h].user, batch),
               Moved(h), serving'[h].batch = batch
        PROVE  EventsSound'
    BY <1>1, <1>10, <2>1, <2>3, CommandEvents
  <2>4. QED
    BY <1>1, <1>13, <2>2, <2>3, ExecuteServes DEF Stands
<1>14. ASSUME NEW h \in Handlers, AutoTimeout(h) PROVE EventsSound'
  <2>1. UNCHANGED <<log, rolled>>
    BY <1>14 DEF AutoTimeout
  <2>2. PICK batch \in Seq(Events) : DoMove(batch) /\ Stands(h, "append", batch, 0, 0, NoSnap)
    BY <1>1, <1>14, TimeoutServes
  <2>3. QED
    BY <1>1, <1>10, <2>1, <2>2, MoveEvents DEF Stands
<1>15. ASSUME NEW h \in Handlers, PersistNotifications(h) PROVE EventsSound'
  <2>1. AppendEvents(h) /\ UNCHANGED <<round, done, games, rolled, snap>>
    BY <1>15 DEF PersistNotifications
  <2>2. \A g \in Handlers : serving'[g].batch \in {serving[g].batch, <<>>}
    <3>1. \/ Moved(h) /\ serving'[h].batch \in {serving[h].batch, <<>>}
          \/ Moved(h) /\ serving'[h] = Idle
      BY <1>1, <2>1, AppendServes DEF Stands
    <3>2. QED
      BY <3>1 DEF Moved, Idle
  <2>3. CASE UNCHANGED log
    BY <1>12, <2>1, <2>2, <2>3
  <2>4. CASE log' = log \o serving[h].batch
    <3>1. PICK b \in Seq(Events) : b = serving[h].batch
      BY <1>2 DEF Requests
    <3>2. /\ Len(log') = Len(log) + Len(b) /\ DOMAIN log' = 1..(Len(log) + Len(b))
          /\ Len(b) \in Nat
          /\ \A i \in DOMAIN log : log'[i] = log[i]
          /\ \A i \in DOMAIN log' : i \in DOMAIN log
                                    \/ (i - Len(log) \in DOMAIN b /\ log'[i] = b[i - Len(log)])
      BY <1>2, <2>4, <3>1, LogGrows
    <3>3. \A e \in Events : (EventSound(e) => EventSound(e)') /\ (Covers(done, e) => Covers(done', e))
      BY <2>1 DEF EventSound, Covers
    <3>4. ASSUME NEW i \in DOMAIN log'
          PROVE  /\ EventSound(log[i])'
                 /\ i \in (rolled + 1)..Len(log') => Covers(done', log'[i])
      <4>1. CASE i \in DOMAIN log
        <5>1. PICK e \in Events : e = log[i] /\ e = log'[i]
          BY <1>7, <3>2, <4>1
        <5>2. EventSound(e)' /\ (i \in (rolled + 1)..Len(log) => Covers(done', e))
          BY <1>7, <1>8, <3>3, <4>1, <5>1
        <5>3. i \in (rolled + 1)..Len(log') => i \in (rolled + 1)..Len(log)
          BY <1>2, <4>1
        <5>4. QED
          BY <5>1, <5>2, <5>3
      <4>2. CASE i - Len(log) \in DOMAIN b /\ log'[i] = b[i - Len(log)]
        <5>1. PICK e \in Events : e = b[i - Len(log)]
          BY <4>2
        <5>2. EventSound(e) /\ Covers(done, e)
          BY <1>6, <3>1, <4>2, <5>1
        <5>3. EventSound(e)' /\ Covers(done', e)
          BY <3>3, <5>2
        <5>4. QED
          BY <4>2, <5>1, <5>3
      <4>3. QED
        BY <3>2, <3>4, <4>1, <4>2
    <3>5. ASSUME NEW g \in Handlers, NEW i \in DOMAIN serving'[g].batch
          PROVE  EventSound(serving[g].batch[i])' /\ Covers(done', serving'[g].batch[i])
      <4>1. serving'[g].batch = serving[g].batch
        BY <2>2, <3>5
      <4>2. PICK e \in Events : e = serving[g].batch[i]
        BY <1>6, <3>5, <4>1
      <4>3. EventSound(e)' /\ Covers(done', e)
        BY <1>6, <3>3, <3>5, <4>1, <4>2
      <4>4. QED
        BY <4>1, <4>2, <4>3
    <3>6. \A i \in (rolled' + 1)..Len(log') : Covers(done', log'[i])
      <4>1. \A i \in (rolled' + 1)..Len(log') : i \in DOMAIN log' /\ i \in (rolled + 1)..Len(log')
        BY <1>2, <2>1, <3>2
      <4>2. QED
        BY <3>4, <4>1
    <3>7. round'.game \in 0..games' /\ done'.game \in 0..games'
      BY <1>3, <2>1
    <3>8. QED
      BY <1>5, <3>4, <3>5, <3>6, <3>7 DEF EventsSound
  <2>5. QED
    BY <1>1, <2>1, <2>3, <2>4, AppendServes
(* A process that starts plays a hand only when no settlement is stored.   *)
<1>16. ASSUME Recover PROVE EventsSound'
  <2>1. /\ UNCHANGED <<serving, log, snap, games>> /\ done' = round' /\ rolled' = Len(log) /\ ~up
    BY <1>16 DEF Recover
  <2>2. round = NoRound /\ \A g \in Handlers : serving[g] = Idle
    BY <1>1, <2>1 DEF DownIsEmpty
  <2>3. \/ round' = NoRound
        \/ round' = snap.round /\ \A i \in DOMAIN log : log[i].kind # "settlement"
    BY <1>1, <1>16, <2>2, RecoverFacts
  <2>4. round'.game \in 0..games' /\ done'.game \in 0..games'
    BY <1>2, <1>3, <2>1, <2>3 DEF NoRound
  <2>5. \A i \in DOMAIN log' : EventSound(log[i])'
    BY <1>7, <2>1, <2>3 DEF EventSound
  <2>6. \A i \in (rolled' + 1)..Len(log') : FALSE
    BY <1>2, <2>1
  <2>7. \A g \in Handlers : serving'[g].batch = <<>>
    BY <2>1, <2>2 DEF Idle
  <2>8. QED
    BY <1>5, <2>4, <2>5, <2>6, <2>7 DEF EventsSound
<1>17. CASE ~(\E h \in Handlers : Execute(h) \/ AutoTimeout(h) \/ PersistNotifications(h))
            /\ ~Recover
  <2>1. \A g \in Handlers : serving'[g].batch \in {serving[g].batch, <<>>}
    BY <1>1, <1>17, BatchesStep
  <2>2. round' = round \/ round' = NoRound
    BY <1>17, ZenonT(60) DEF Next, Begin, EnsureRoom, CreateRoom, StartActorLocked,
           EnsureActorForExistingRoom, EnsureActorLook, EnsureActorStart, Starts, Join, Effects,
           MetaPrev, MetaRoom, MetaRound, MetaPut, Answer, SnapshotRoom, RemoveActor, Crash
  <2>3. UNCHANGED <<done, games, rolled, log>>
    BY <1>17, ZenonT(60) DEF Next, Begin, EnsureRoom, CreateRoom, StartActorLocked,
           EnsureActorForExistingRoom, Join, Effects,
           MetaPrev, MetaRoom, MetaRound, MetaPut, Answer, SnapshotRoom, RemoveActor, Crash
  <2>4. QED
    BY <1>12, <2>1, <2>2, <2>3
<1>18. QED
  BY <1>13, <1>14, <1>15, <1>16, <1>17

-----------------------------------------------------------------------------
(* A hand that is not being played is not taken up again while the process *)
(* serves: the next hand has a number of its own. *)
LEMMA HandsOver ==
    ASSUME TypeOK, EventsSound, Next, ~Recover, NEW e \in Events, e.game <= games, ~Hides(e)
    PROVE  ~Hides(e)'
<1> USE DEF memory, stores, bounds, history
<1>1. games \in Nat /\ round \in Rounds /\ e.game \in Nat
  BY DEF TypeOK, Events
<1>2. CASE round' \in {round, NoRound}
  BY <1>2 DEF Hides
<1>3. CASE round' = [game |-> games + 1, step |-> 1]
  BY <1>1, <1>3 DEF Hides
<1>4. CASE round # NoRound /\ round' = [round EXCEPT !.step = @ + 1]
  BY <1>1, <1>4 DEF Hides, Rounds
<1>5. ASSUME NEW body, NEW u, NEW batch, Command(body, u, batch) \/ DoMove(batch)
      PROVE  ~Hides(e)'
  <2>1. \/ round' \in {round, NoRound}
        \/ round' = [game |-> games + 1, step |-> 1]
        \/ round # NoRound /\ round' = [round EXCEPT !.step = @ + 1]
    BY <1>5 DEF Command, DoReady, DoMove, DoLeave, Nothing
  <2>2. QED
    BY <1>2, <1>3, <1>4, <2>1
<1>6. CASE \E h \in Handlers : Execute(h) \/ AutoTimeout(h)
  <2>1. CASE UNCHANGED round
    BY <1>2, <2>1
  <2>2. QED
    BY <1>5, <1>6, <2>1 DEF Execute, AutoTimeout
<1>7. CASE ~(\E h \in Handlers : Execute(h) \/ AutoTimeout(h))
  <2>1. round' = round \/ round' = NoRound
    BY <1>7, ZenonT(60) DEF Next, Begin, EnsureRoom, CreateRoom, StartActorLocked,
           EnsureActorForExistingRoom, EnsureActorLook, EnsureActorStart, Starts, Join,
           PersistNotifications, Effects, MetaPrev, MetaRoom, MetaRound, MetaPut, Answer,
           SnapshotRoom, RemoveActor, Crash
  <2>2. QED
    BY <1>2, <2>1
<1>8. QED
  BY <1>6, <1>7

(* What handler h may show. *)
Shows(h) ==
    serving[h].pc = "shown" /\ serving[h].body = "snapshot" =>
        \A i \in (rolled + 1)..serving[h].seen.seq :
            IF serving[h].seen.round = NoRound THEN ~Hides(log[i])
            ELSE Covers(serving[h].seen.round, log[i])

(* The view a client is shown. *)
LEMMA ViewStep ==
    ASSUME IInv, Next, TypeOK'
    PROVE  ViewCoversCursor'
<1> USE DEF memory, stores, bounds, history
<1>1. /\ TypeOK /\ RequestsSound /\ EventsSound /\ DownIsEmpty /\ ActorFitsRoom
      /\ ViewCoversCursor /\ RowsStay
  BY RowsStep DEF IInv, ProcessInv
<1>2. /\ log \in Seq(Events) /\ Len(log) \in Nat /\ rolled \in Nat
      /\ DOMAIN log = 1..Len(log) /\ serving \in [Handlers -> Requests]
  BY <1>1, SMTT(30) DEF TypeOK
<1>3. ASSUME NEW h \in Handlers
      PROVE  serving[h].seen.seq <= Len(log) /\ serving[h].seen.seq \in Nat
  BY <1>1, <1>2 DEF RequestsSound, SeenIsPast, Requests, Snapshots
<1>7. Idle.pc # "shown"
  BY DEF Idle
<1>13. ASSUME Crash \/ Recover PROVE ViewCoversCursor'
  <2>1. \A h \in Handlers : serving'[h] = Idle
    BY <1>1, <1>13 DEF Crash, Recover, DownIsEmpty
  <2>2. QED
    BY <1>7, <2>1 DEF ViewCoversCursor
<1>15. SUFFICES ASSUME ~Recover PROVE ViewCoversCursor'
  BY <1>13
<1>16. (\A h \in Handlers : Shows(h)) /\ ((\A h \in Handlers : Shows(h)') => ViewCoversCursor')
  BY <1>1 DEF ViewCoversCursor, Shows
<1>4. ASSUME NEW h \in Handlers, serving'[h] = serving[h], UNCHANGED rolled
      PROVE  Shows(h)'
  <2> SUFFICES ASSUME serving[h].pc = "shown", serving[h].body = "snapshot",
                      NEW i \in (rolled + 1)..serving[h].seen.seq
               PROVE  IF serving[h].seen.round = NoRound THEN ~Hides(log[i])'
                      ELSE Covers(serving[h].seen.round, log'[i])
    BY <1>4 DEF Shows
  <2>1. i \in DOMAIN log /\ log'[i] = log[i] /\ log[i] \in Events
    BY <1>1, <1>2, <1>3, <1>4 DEF RowsStay
  <2>2. log[i].game <= games
    BY <1>1, <2>1 DEF EventsSound, EventSound
  <2>3. ~Hides(log[i]) => ~Hides(log[i])'
    <3>1. PICK e \in Events : e = log[i]
      BY <2>1
    <3>2. ~Hides(e) => ~Hides(e)'
      BY <1>1, <1>15, <2>2, <3>1, HandsOver
    <3>3. log'[i] = e
      BY <2>1, <3>1
    <3>4. QED
      BY <3>1, <3>2, <3>3 DEF Hides
  <2>4. Shows(h)
    BY <1>16
  <2>5. QED
    BY <2>1, <2>3, <2>4 DEF Shows
<1>5. ASSUME NEW h \in Handlers, UNCHANGED rolled, Moved(h),
             serving'[h].pc # "shown" \/ serving'[h].body # "snapshot"
      PROVE  ViewCoversCursor'
  <2>1. Shows(h)'
    BY <1>5 DEF Shows
  <2>2. QED
    BY <1>4, <1>5, <1>16, <2>1 DEF Moved
<1>6. ASSUME UNCHANGED <<rolled, serving>> PROVE ViewCoversCursor'
  BY <1>4, <1>6, <1>16
<1>8. ASSUME NEW h \in Handlers, UNCHANGED rolled,
             Goto(h, "create") \/ Goto(h, "existing") \/ Goto(h, "start")
             \/ Goto(h, "existing2") \/ Goto(h, "join") \/ MetaDone(h) \/ Reply(h)
      PROVE  ViewCoversCursor'
  <2>1. {"create", "existing", "start", "existing2", "join"} \subseteq Places
    BY DEF Places
  <2>2. Moved(h) /\ serving'[h].pc # "shown"
    BY <1>1, <1>7, <1>8, <2>1, GotoServes, MetaDoneServes, ReplyServes DEF Stands
  <2>3. QED
    BY <1>5, <1>8, <2>2
<1>9. ASSUME NEW h \in Handlers, SnapshotRoom(h) PROVE ViewCoversCursor'
  <2>1. UNCHANGED <<rolled, log, round>>
    BY <1>9 DEF SnapshotRoom
  <2>2. CASE UNCHANGED serving
    BY <1>6, <2>1, <2>2
  <2>3. CASE Moved(h) /\ (serving'[h].pc # "shown" \/ serving'[h].body # "snapshot")
    BY <1>5, <2>1, <2>3
  <2>4. CASE Stands(h, "shown", serving[h].batch, serving[h].base, serving[h].at,
                    [serving[h].seen EXCEPT !.round = round])
    <3>1. serving[h].seen \in Snapshots
      BY <1>2 DEF Requests
    <3>2. serving'[h].seen.round = round /\ serving'[h].seen.seq = serving[h].seen.seq
      BY <2>4, <3>1 DEF Stands, Snapshots
    <3>3. \A i \in (rolled' + 1)..serving'[h].seen.seq : i \in (rolled + 1)..Len(log)
      BY <1>2, <1>3, <2>1, <3>2
    <3>4. round # NoRound => round = done
      BY <1>1 DEF ActorFitsRoom
    <3>5. \A i \in (rolled' + 1)..serving'[h].seen.seq : Covers(done, log'[i])
      BY <1>1, <2>1, <3>3 DEF EventsSound
    <3>6. round = NoRound => \A e : ~Hides(e)'
      BY <2>1 DEF Hides
    <3>7. Shows(h)'
      BY <3>2, <3>4, <3>5, <3>6 DEF Shows
    <3>8. QED
      BY <1>4, <1>16, <2>1, <2>4, <3>7 DEF Stands, Moved
  <2>5. QED
    BY <1>1, <1>9, <2>2, <2>3, <2>4, SnapshotServes DEF Stands
<1>10. ASSUME NEW h \in Handlers,
              Begin(h) \/ Join(h) \/ Execute(h) \/ AutoTimeout(h) \/ PersistNotifications(h)
              \/ Effects(h) \/ MetaPrev(h) \/ MetaRoom(h) \/ MetaRound(h)
       PROVE  ViewCoversCursor'
  <2>1. UNCHANGED rolled
    BY <1>10 DEF Begin, Join, Execute, AutoTimeout, PersistNotifications, Effects, MetaPrev,
                 MetaRoom, MetaRound
  <2>2. CASE Begin(h)
    BY <1>1, <1>5, <1>6, <2>1, <2>2, BeginServes DEF Stands
  <2>3. CASE Join(h)
    BY <1>1, <1>5, <1>7, <2>1, <2>3, JoinTypes DEF Stands
  <2>4. CASE Execute(h)
    <3>1. Moved(h) /\ serving'[h].pc # "shown"
      BY <1>1, <1>7, <2>4, ExecuteServes DEF Stands
    <3>2. QED
      BY <1>5, <2>1, <3>1
  <2>5. CASE AutoTimeout(h)
    BY <1>1, <1>5, <2>1, <2>5, TimeoutServes DEF Stands
  <2>6. CASE PersistNotifications(h)
    BY <1>1, <1>5, <1>7, <2>1, <2>6, AppendServes DEF Stands, PersistNotifications
  <2>7. CASE Effects(h)
    BY <1>1, <1>5, <2>1, <2>7, EffectsServes DEF Stands
  <2>8. CASE MetaPrev(h)
    BY <1>1, <1>5, <1>8, <2>1, <2>8, MetaPrevServes DEF Stands
  <2>9. CASE MetaRoom(h)
    BY <1>1, <1>5, <1>8, <2>1, <2>9, MetaRoomServes DEF Stands
  <2>10. CASE MetaRound(h)
    BY <1>1, <1>5, <1>8, <2>1, <2>10, MetaRoundServes DEF Stands
  <2>11. QED
    BY <1>10, <2>2, <2>3, <2>4, <2>5, <2>6, <2>7, <2>8, <2>9, <2>10
<1>11. ASSUME NEW h \in Handlers,
              EnsureRoom(h) \/ CreateRoom(h) \/ StartActorLocked(h)
              \/ EnsureActorForExistingRoom(h) \/ MetaPut(h) \/ Answer(h)
       PROVE  ViewCoversCursor'
  BY <1>8, <1>11 DEF EnsureRoom, CreateRoom, StartActorLocked, EnsureActorForExistingRoom,
                     EnsureActorLook, EnsureActorStart, MetaPut, Answer
<1>12. ASSUME RemoveActor PROVE ViewCoversCursor'
  BY <1>6, <1>12 DEF RemoveActor
<1>14. QED
  BY <1>9, <1>10, <1>11, <1>12, <1>13 DEF Next

-----------------------------------------------------------------------------
LEMMA InitInv == Init => IInv
<1> SUFFICES ASSUME Init PROVE IInv
  OBVIOUS
<1>1. TypeOK
  <2>1. /\ up \in BOOLEAN /\ unread \in BOOLEAN
    BY Zenon DEF Init
  <2>2. serving \in [Handlers -> Requests]
    BY Blanks DEF Init
  <2>3. summary \in [players : Seatings \cup {<<>>}, ended : BOOLEAN] /\ ~summary.ended
    BY DEF Init, NoSummary
  <2>4. /\ room \in Rooms /\ snap \in Snapshots /\ {round, done} \subseteq Rounds
        /\ {round.step, snap.round.step} \subseteq 0..MaxSteps
    BY Blanks, BoundAssumption DEF Init, NoRound, NoSnap
  <2>5. actor \in {"none", "run", "closing"} /\ loops \in Nat /\ activeCount \in Int
        /\ log \in Seq(Events) /\ {requests, crashes, faults, games, rolled} \subseteq Nat
        /\ told \subseteq [seq : Nat, event : Events]
    BY DEF Init
  <2>6. QED
    BY <2>1, <2>2, <2>3, <2>4, <2>5 DEF TypeOK
<1>2. OneActor /\ NeverOvercounts /\ ToldIsStored /\ SnapshotWithinLog
  BY DEF Init, OneActor, NeverOvercounts, ToldIsStored, SnapshotWithinLog, NoSnap
<1>3. DownIsEmpty
  BY DEF Init, DownIsEmpty
<1>4. ActorFitsRoom /\ PlayingHasRound
  BY DEF Init, ActorFitsRoom, PlayingHasRound, NoRoom
<1>5. \A h \in Handlers : serving[h] = Idle
  BY DEF Init
<1>6. RequestsSound
  <2>1. log = <<>> /\ games = 0
    BY DEF Init
  <2>2. BatchInLog(Idle)
    BY DEF BatchInLog, Idle
  <2>3. SeenIsPast(Idle)
    BY <2>1 DEF SeenIsPast, Idle, NoSnap, NoRound
  <2>4. QED
    BY <1>5, <2>2, <2>3 DEF RequestsSound
<1>7. EventsSound
  <2>1. {round.game, done.game, snap.round.game} \subseteq 0..games
    BY DEF Init, NoRound, NoSnap
  <2>2. log = <<>> /\ Len(log) = 0 /\ rolled = 0
    BY DEF Init
  <2>3. \A h \in Handlers : serving[h].batch = <<>>
    BY <1>5 DEF Idle
  <2>4. QED
    BY <2>1, <2>2, <2>3 DEF EventsSound
<1>8. ViewCoversCursor
  BY <1>5 DEF ViewCoversCursor, Idle
<1>9. QED
  BY <1>1, <1>2, <1>3, <1>4, <1>6, <1>7, <1>8 DEF IInv, ProcessInv

LEMMA StepInv == IInv /\ [Next]_vars => IInv'
<1> SUFFICES ASSUME IInv, [Next]_vars PROVE IInv'
  OBVIOUS
<1>1. CASE Next
  <2>1. /\ TypeOK /\ OneActor /\ NeverOvercounts /\ ToldIsStored /\ DownIsEmpty /\ RequestsSound
        /\ ActorFitsRoom /\ EventsSound /\ SnapshotWithinLog /\ PlayingHasRound
    BY DEF IInv, ProcessInv
  <2>2. TypeOK'
    BY <1>1, <2>1, TypeStep
  <2>3. /\ OneActor' /\ NeverOvercounts' /\ ActorFitsRoom' /\ PlayingHasRound' /\ DownIsEmpty'
    BY <1>1, <2>1, ActorStep
  <2>4. ToldIsStored' /\ SnapshotWithinLog'
    BY <1>1, <2>1, ToldStep, SnapshotStep
  <2>5. RequestsSound'
    BY <1>1, <2>1, <2>2, RequestsStep
  <2>6. EventsSound' /\ ViewCoversCursor'
    BY <1>1, <2>2, EventsStep, ViewStep
  <2>7. QED
    BY <2>2, <2>3, <2>4, <2>5, <2>6 DEF IInv, ProcessInv
<1>2. CASE UNCHANGED vars
  BY <1>2 DEF vars, memory, stores, bounds, history, IInv, ProcessInv, TypeOK, OneActor,
       NeverOvercounts, ToldIsStored, DownIsEmpty, RequestsSound, BatchInLog, SeenIsPast,
       ActorFitsRoom, EventsSound, EventSound, SnapshotWithinLog, PlayingHasRound,
       ViewCoversCursor, Hides, Seated
<1>3. QED
  BY <1>1, <1>2

(* The invariant holds in every reachable state, whatever requests,        *)
(* timeouts, failing stores and crashes interleave.                        *)
THEOREM ProcessInductive == Spec => []IInv
<1>1. Init => IInv
  BY InitInv
<1>2. IInv /\ [Next]_vars => IInv'
  BY StepInv
<1>3. QED
  BY <1>1, <1>2, PTL DEF Spec

(* However many requests ensure the room at once and however often the     *)
(* process restarts, one Run loop serves it, counted at most once, and     *)
(* what was told is stored (EnsureRoom, removeActor, RecoverRoom,          *)
(* PersistPublishAndFinalize).                                             *)
THEOREM ProcessSound == Spec => []ProcessInv
<1>1. IInv => ProcessInv
  BY DEF IInv
<1>2. QED
  BY <1>1, ProcessInductive, PTL

(* persistRoomMeta never writes a seq that the log has not reached.        *)
THEOREM SnapshotSound == Spec => []SnapshotWithinLog
<1>1. IInv => SnapshotWithinLog
  BY DEF IInv
<1>2. QED
  BY <1>1, ProcessInductive, PTL

(* A hand whose settlement is stored is never played on: not by a command, *)
(* not by a timeout, not by a recovery from an older snapshot              *)
(* (RecoverSingleRoom, DeriveRecoveredState).                              *)
THEOREM SettledSound == Spec => []SettledHandStaysSettled
<1>1. IInv => SettledHandStaysSettled
  BY DEF IInv, ProcessInv, EventsSound, EventSound, SettledHandStaysSettled
<1>2. QED
  BY <1>1, ProcessInductive, PTL

(* A room that is playing has its round, but after a start that could not  *)
(* read it (RecoverRoom).                                                  *)
THEOREM PlayingSound == Spec => []PlayingHasRound
<1>1. IInv => PlayingHasRound
  BY DEF IInv
<1>2. QED
  BY <1>1, ProcessInductive, PTL

(* A view that SnapshotRoom took from the actor's round covers every event *)
(* up to its cursor, and one it got empty hides no hand still played.      *)
THEOREM ViewSound == Spec => []ViewCoversCursor
<1>1. IInv => ViewCoversCursor
  BY DEF IInv
<1>2. QED
  BY <1>1, ProcessInductive, PTL

-----------------------------------------------------------------------------
(* Every step of the process is a step of the journal or changes nothing   *)
(* the journal has.                                                        *)
LEMMA JournalStep ==
    ASSUME IInv, IInv', [Next]_vars
    PROVE  [Journal!Store \/ Journal!Tell]_<<log, told>>
<1> USE DEF memory, stores, bounds, history
<1>1. CASE UNCHANGED vars
  BY <1>1 DEF vars
<1>2. CASE Next
  <2>1. TypeOK /\ RequestsSound /\ ToldIsStored
    BY DEF IInv, ProcessInv
  <2>2. CASE UNCHANGED log
    <3>1. told \subseteq told' /\ ToldIsStored'
      BY <1>2, <2>1, ToldStep
    <3>2. told' \subseteq Journal!Entries
      <4>1. told' \subseteq [seq : Nat, event : Events]
        BY DEF IInv, ProcessInv, TypeOK
      <4>2. ASSUME NEW t \in told' PROVE t \in Journal!Entries
        <5>1. t.seq \in DOMAIN log /\ log[t.seq] = t.event
          BY <2>2, <3>1, <4>2 DEF ToldIsStored
        <5>2. t = [seq |-> t.seq, event |-> log[t.seq]]
          BY <4>1, <4>2, <5>1
        <5>3. QED
          BY <5>1, <5>2 DEF Journal!Entries
      <4>3. QED
        BY <4>2
    <3>3. Journal!Tell
      BY <2>2, <3>1, <3>2 DEF Journal!Tell
    <3>4. QED
      BY <3>3
  <2>3. ASSUME log' # log PROVE Journal!Store
    <3>1. PICK h \in Handlers : PersistNotifications(h)
      BY <1>2, <2>3, ZenonT(60) DEF Next, Begin, EnsureRoom, CreateRoom, StartActorLocked,
         EnsureActorForExistingRoom, Join, Execute, AutoTimeout, Effects, MetaPrev, MetaRoom,
         MetaRound, MetaPut, Answer, SnapshotRoom, RemoveActor, Crash, Recover
    <3>2. AppendEvents(h) /\ UNCHANGED told
      BY <3>1 DEF PersistNotifications
    <3>3. PICK b \in Seq(Events) : b = serving[h].batch
      BY <2>1 DEF TypeOK, Requests
    <3>4. log' = log \o b /\ b # <<>> /\ log \in Seq(Events)
      BY <2>1, <2>3, <3>2, <3>3, AppendServes DEF TypeOK
    <3>5. Len(b) \in Nat \ {0} /\ Len(log') = Len(log) + Len(b) /\ Len(log) \in Nat
      BY <3>4, LogGrows
    <3>6. SubSeq(log', 1, Len(log)) = log
      BY <3>4, SubSeqOfConcat1, SubSeqFull
    <3>7. QED
      BY <3>2, <3>5, <3>6 DEF Journal!Store
  <2>4. QED
    BY <2>2, <2>3
<1>3. QED
  BY <1>1, <1>2

(* The process implements the journal: stored rows stay, batches are       *)
(* stored whole, and only stored rows are told under their seq             *)
(* (AppendEvents, publishToRedis, ApplyEvent).                             *)
THEOREM JournalImplemented == Spec => ImplementsJournal
<1>1. Init => Journal!Init
  BY DEF Init, Journal!Init
<1>2. IInv /\ IInv' /\ [Next]_vars => [Journal!Store \/ Journal!Tell]_<<log, told>>
  BY JournalStep
<1>3. QED
  BY <1>1, <1>2, ProcessInductive, PTL DEF Spec, ImplementsJournal, Journal!Spec
=============================================================================
