----------------------------- MODULE LobbyProofs -----------------------------
(***************************************************************************)
(* Lobby for every number of players, rooms, nodes, requests, attempts,    *)
(* calls and faults: the records stay sound, every answer goes to the call *)
(* it belongs to, a seat that was given is kept until its player leaves,   *)
(* and an owner in etcd stays the owner.  LobbyInv is its own inductive    *)
(* invariant.                                                              *)
(***************************************************************************)
EXTENDS Lobby, FiniteSetTheorems, WellFoundedInduction, TLAPS

(* Request p is what request q says of itself, as far as others see it.    *)
Same(p, q) == /\ p.kind = q.kind /\ p.user = q.user /\ p.room = q.room
              /\ p.pc = q.pc /\ p.live = q.live /\ p.res = q.res

-----------------------------------------------------------------------------
(* The operators on records. *)

(* A set of naturals has a least member: the slot Send takes exists.       *)
LEMMA LeastOne ==
    ASSUME NEW S \in SUBSET Nat, S # {}
    PROVE  Min(S) \in S
<1> DEFINE R == {ss \in Nat \X Nat : ss[1] < ss[2]}
<1>1. PICK d \in S : \A y \in S : ~(<<y, d>> \in R)
  <2>1. IsWellFoundedOn(R, Nat)
    BY NatLessThanWellFounded DEF OpToRel
  <2> HIDE DEF R
  <2> QED
    BY <2>1, WFMin
<1>2. \A y \in S : d <= y
  <2>1. \A y \in Nat : <<y, d>> \in R <=> y < d
    OBVIOUS
  <2> HIDE DEF R
  <2>2. \A y \in S : ~(y < d) /\ y \in Nat
    BY <1>1, <2>1
  <2> QED
    BY <1>1, <2>2
<1> QED
  BY <1>2 DEF Min

(* What is left of the four seats is finite. *)
LEMMA SeatsFinite ==
    ASSUME NEW F \in SUBSET Seats
    PROVE  IsFiniteSet(F) /\ Cardinality(F) \in Nat
<1>1. IsFiniteSet(0..3)
  <2>1. 0 \in Int /\ 3 \in Int
    OBVIOUS
  <2> QED
    BY <2>1, FS_Interval, Zenon
<1>2. IsFiniteSet(F)
  BY <1>1, FS_Subset DEF Seats
<1> QED
  BY <1>2, FS_CardinalityType

(* The bots of a record are finitely many. *)
LEMMA BotsFinite ==
    ASSUME NEW seats, DOMAIN seats \subseteq Members
    PROVE  /\ IsFiniteSet({m \in DOMAIN seats : m \notin Users})
           /\ BotsIn(seats) \in Nat
<1> DEFINE all == {Bot(s) : s \in Seats}
           mine == {m \in DOMAIN seats : m \notin Users}
<1>1. all = ((({} \cup {Bot(0)}) \cup {Bot(1)}) \cup {Bot(2)}) \cup {Bot(3)}
  BY DEF Seats
<1>2. IsFiniteSet(all)
  <2>1. IsFiniteSet({} \cup {Bot(0)})
    BY FS_EmptySet, FS_AddElement
  <2>2. IsFiniteSet(({} \cup {Bot(0)}) \cup {Bot(1)})
    BY <2>1, FS_AddElement
  <2>3. IsFiniteSet((({} \cup {Bot(0)}) \cup {Bot(1)}) \cup {Bot(2)})
    BY <2>2, FS_AddElement
  <2>4. IsFiniteSet(((({} \cup {Bot(0)}) \cup {Bot(1)}) \cup {Bot(2)}) \cup {Bot(3)})
    BY <2>3, FS_AddElement
  <2> HIDE DEF all
  <2> QED
    BY <1>1, <2>4
<1>3. mine \subseteq all
  BY DEF Members
<1>4. IsFiniteSet(mine)
  <2> HIDE DEF all, mine
  <2> QED BY <1>2, <1>3, FS_Subset
<1> QED
  BY <1>4, FS_CardinalityType DEF BotsIn

(* A fresh record is sound. *)
LEMMA FreshRecord ==
    ASSUME NEW private
    PROVE  SoundRec(EnsureRoom(private)) /\ EnsureRoom(private).seats = Empty
<1> DEFINE rec == EnsureRoom(private)
<1>1. DOMAIN rec = {"seats", "private", "at"} /\ rec.seats = Empty
  BY DEF EnsureRoom
<1>2. DOMAIN Empty = {}
  BY DEF Empty
<1>3. Range(Empty) = {} /\ IsInjective(Empty)
  BY <1>2 DEF Range, IsInjective
<1>4. BotsIn(Empty) = 0
  <2>1. {m \in DOMAIN Empty : m \notin Users} = {}
    BY <1>2
  <2> QED
    BY <2>1, FS_EmptySet DEF BotsIn
<1> QED
  BY <1>1, <1>2, <1>3, <1>4 DEF SoundRec, BotMax

(* Seats nobody has: JoinRoom takes the lowest one. *)
LEMMA LowestFreeSeat ==
    ASSUME NEW seats, FreeSeats(seats) # {}
    PROVE  Min(FreeSeats(seats)) \in Seats \ Range(seats)
<1>1. FreeSeats(seats) \in SUBSET Nat
  BY DEF FreeSeats, Seats
<1> QED
  BY <1>1, LeastOne DEF FreeSeats

(* JoinRoom keeps a record sound and everybody in place, and whoever it    *)
(* seats is in it.                                                         *)
LEMMA SeatedSound ==
    ASSUME NEW rec, SoundRec(rec), NEW m \in Users
    PROVE  /\ SoundRec(Seated(rec, m))
           /\ \A x \in DOMAIN rec.seats : /\ x \in DOMAIN Seated(rec, m).seats
                                          /\ Seated(rec, m).seats[x] = rec.seats[x]
<1>1. CASE m \in DOMAIN rec.seats \/ FreeSeats(rec.seats) = {}
  BY <1>1 DEF Seated
<1>2. CASE m \notin DOMAIN rec.seats /\ FreeSeats(rec.seats) # {}
  <2>1. PICK k : k = Min(FreeSeats(rec.seats))
    OBVIOUS
  <2>2. k \in Seats \ Range(rec.seats)
    BY <1>2, <2>1, LowestFreeSeat
  <2>3. PICK new : new = Seated(rec, m)
    OBVIOUS
  <2>4. new = [rec EXCEPT !.seats = Put(rec.seats, m, k)]
    BY <1>2, <2>1, <2>3 DEF Seated
  <2>5. DOMAIN new = {"seats", "private", "at"} /\ new.seats = Put(rec.seats, m, k)
    BY <2>4 DEF SoundRec
  <2>6. /\ DOMAIN new.seats = DOMAIN rec.seats \cup {m}
        /\ new.seats[m] = k
        /\ \A x \in DOMAIN rec.seats : x # m /\ new.seats[x] = rec.seats[x]
    BY <1>2, <2>5 DEF Put
  <2>7. DOMAIN new.seats \subseteq Members
    BY <2>6 DEF SoundRec, Members
  <2>8. \A x \in DOMAIN rec.seats : rec.seats[x] \in Seats /\ rec.seats[x] # k
    BY <2>2 DEF SoundRec, Range
  <2>9. Range(new.seats) \subseteq Seats
    BY <2>2, <2>6, <2>8 DEF Range
  <2>10. IsInjective(new.seats)
    BY <2>6, <2>8 DEF SoundRec, IsInjective
  <2>11. \A s \in Seats : Bot(s) # m
    BY LobbyAssumption DEF Bot, Seats
  <2>12. \A s \in Seats : Bot(s) \in DOMAIN new.seats => new.seats[Bot(s)] = s
    BY <2>6, <2>11 DEF SoundRec
  <2>13. BotsIn(new.seats) = BotsIn(rec.seats)
    <3>1. {x \in DOMAIN new.seats : x \notin Users} = {x \in DOMAIN rec.seats : x \notin Users}
      BY <2>6
    <3> QED
      BY <3>1 DEF BotsIn
  <2>14. SoundRec(new)
    BY <2>5, <2>7, <2>9, <2>10, <2>12, <2>13 DEF SoundRec
  <2> QED
    BY <2>3, <2>6, <2>14
<1> QED
  BY <1>1, <1>2

(* A user JoinRoom has seated is in one of the four seats. *)
LEMMA SeatInRange ==
    ASSUME NEW rec, SoundRec(rec), NEW x \in DOMAIN rec.seats
    PROVE  rec.seats[x] \in Seats
BY DEF SoundRec, Range

(* LeaveRoom keeps a record sound and everybody else in place. *)
LEMMA LeftSound ==
    ASSUME NEW rec, SoundRec(rec), NEW m \in Users, NEW new,
           DOMAIN new = DOMAIN rec,
           new.seats = Restrict(rec.seats, DOMAIN rec.seats \ {m})
    PROVE  /\ SoundRec(new)
           /\ \A x \in DOMAIN rec.seats \ {m} : /\ x \in DOMAIN new.seats
                                                /\ new.seats[x] = rec.seats[x]
<1>1. DOMAIN new = {"seats", "private", "at"}
      /\ new.seats = Restrict(rec.seats, DOMAIN rec.seats \ {m})
  BY DEF SoundRec
<1>2. /\ DOMAIN new.seats = DOMAIN rec.seats \ {m}
      /\ \A x \in DOMAIN new.seats : new.seats[x] = rec.seats[x]
  BY <1>1 DEF Restrict
<1>3. Range(new.seats) \subseteq Seats /\ DOMAIN new.seats \subseteq Members
  BY <1>2 DEF SoundRec, Range
<1>4. IsInjective(new.seats)
  BY <1>2 DEF SoundRec, IsInjective
<1>5. BotsIn(new.seats) = BotsIn(rec.seats)
  <2>1. {x \in DOMAIN new.seats : x \notin Users} = {x \in DOMAIN rec.seats : x \notin Users}
    BY <1>2
  <2> QED
    BY <2>1 DEF BotsIn
<1>6. \A s \in Seats : Bot(s) \in DOMAIN new.seats => new.seats[Bot(s)] = s
  BY <1>2 DEF SoundRec
<1> QED
  BY <1>1, <1>2, <1>3, <1>4, <1>5, <1>6 DEF SoundRec

(* Of the free seats the n lowest can be taken, for every n up to their    *)
(* number.                                                                 *)
LEMMA LowestSeats ==
    ASSUME NEW F \in SUBSET Seats, NEW n \in Nat, n <= Cardinality(F)
    PROVE  \E S \in SUBSET F : /\ Cardinality(S) = n
                               /\ \A s \in S, t \in F \ S : s < t
<1> DEFINE P(k) == {s \in F : s < k}
<1>1. \A k \in 0..4 : P(k) \in SUBSET Seats /\ P(k) \in SUBSET F
  OBVIOUS
<1>2. \A k \in 0..4 : IsFiniteSet(P(k)) /\ Cardinality(P(k)) \in Nat
  <2> HIDE DEF P
  <2> QED
    BY <1>1, SeatsFinite
<1>0. \A s \in F : s \in Int /\ 0 <= s /\ s < 4
  BY DEF Seats
<1>3. P(0) = {} /\ P(4) = F
  <2>1. \A s \in F : ~(s < 0) /\ s < 4
    BY <1>0
  <2> QED
    BY <2>1
<1>4. \A k \in 0..3 : P(k + 1) = P(k) \/ P(k + 1) = P(k) \cup {k}
  <2> TAKE k \in 0..3
  <2>1. \A s \in F : s < k + 1 <=> s < k \/ s = k
    BY <1>0
  <2>2. \A s \in F : s \in P(k + 1) <=> s \in P(k) \/ s = k
    BY <2>1
  <2> QED
    BY <2>2
<1>5. \A k \in 0..3 : Cardinality(P(k + 1)) <= Cardinality(P(k)) + 1
  <2> TAKE k \in 0..3
  <2>1. P(k + 1) = P(k) \/ P(k + 1) = P(k) \cup {k}
    BY <1>4
  <2>2. IsFiniteSet(P(k)) /\ Cardinality(P(k)) \in Nat
    BY <1>2
  <2> HIDE DEF P
  <2>3. Cardinality(P(k) \cup {k}) <= Cardinality(P(k)) + 1
    BY <2>2, FS_AddElement, SMTT(30)
  <2> QED
    BY <2>1, <2>2, <2>3
<1>6. Cardinality(P(0)) = 0 /\ Cardinality(P(4)) = Cardinality(F)
  BY <1>3, FS_EmptySet
<1>7. \A k \in 0..4 : \A s \in P(k), t \in F \ P(k) : s < t
  BY DEF Seats
<1> HIDE DEF P
<1>8. PICK c : c = [k \in 0..4 |-> Cardinality(P(k))]
  OBVIOUS
<1>9. /\ c[0] = 0 /\ c[4] >= n
      /\ c[0] \in Nat /\ c[1] \in Nat /\ c[2] \in Nat /\ c[3] \in Nat /\ c[4] \in Nat
  BY <1>2, <1>6, <1>8
<1>10. c[1] <= c[0] + 1 /\ c[2] <= c[1] + 1 /\ c[3] <= c[2] + 1 /\ c[4] <= c[3] + 1
  <2>1. /\ Cardinality(P(0 + 1)) <= Cardinality(P(0)) + 1
        /\ Cardinality(P(1 + 1)) <= Cardinality(P(1)) + 1
        /\ Cardinality(P(2 + 1)) <= Cardinality(P(2)) + 1
        /\ Cardinality(P(3 + 1)) <= Cardinality(P(3)) + 1
    BY <1>5
  <2> QED
    BY <1>8, <2>1
<1>11. \E k \in {0, 1, 2, 3, 4} : c[k] = n
  <2> HIDE DEF Seats
  <2> QED
    BY <1>9, <1>10
<1>12. PICK k \in 0..4 : Cardinality(P(k)) = n
  BY <1>8, <1>11
<1> QED
  BY <1>1, <1>7, <1>12

(* Of three numbers the least is one of them and not above the others.     *)
LEMMA LeastOfThree ==
    ASSUME NEW a \in Nat, NEW b \in Nat, NEW c \in Nat
    PROVE  Min({a, b, c}) \in Nat /\ Min({a, b, c}) <= b /\ Min({a, b, c}) <= c
<1>1. \E x \in {a, b, c} : \A y \in {a, b, c} : x <= y
  OBVIOUS
<1>2. Min({a, b, c}) \in {a, b, c} /\ \A y \in {a, b, c} : Min({a, b, c}) <= y
  BY <1>1 DEF Min
<1> QED
  BY <1>2

(* Bots are no more than the seats they take. *)
LEMMA BotsOfSeats ==
    ASSUME NEW S \in SUBSET Seats
    PROVE  /\ IsFiniteSet({Bot(s) : s \in S})
           /\ Cardinality({Bot(s) : s \in S}) <= Cardinality(S)
<1> DEFINE T == {Bot(s) : s \in S}
           f == [s \in S |-> Bot(s)]
<1>1. f \in Surjection(S, T)
  BY DEF Surjection
<1>2. IsFiniteSet(S)
  BY SeatsFinite
<1> HIDE DEF T, f
<1>3. IsFiniteSet(T) /\ Cardinality(T) <= Cardinality(S)
  BY <1>1, <1>2, FS_Surjection
<1> QED
  BY <1>3 DEF T

(* AddBot keeps a record sound, everybody in place, and to three bots,     *)
(* however many are asked for.                                             *)
LEMMA WithBotsSound ==
    ASSUME NEW rec, SoundRec(rec), NEW count \in Nat
    PROVE  /\ SoundRec(WithBots(rec, count))
           /\ \A x \in DOMAIN rec.seats : /\ x \in DOMAIN WithBots(rec, count).seats
                                          /\ WithBots(rec, count).seats[x] = rec.seats[x]
<1>1. PICK F : F = FreeSeats(rec.seats)
  OBVIOUS
<1>2. F \in SUBSET Seats /\ F = Seats \ Range(rec.seats)
  BY <1>1 DEF FreeSeats
<1>3. Cardinality(F) \in Nat
  BY <1>2, SeatsFinite
<1>4. DOMAIN rec.seats \subseteq Members
  BY DEF SoundRec
<1>5. BotsIn(rec.seats) \in Nat /\ BotsIn(rec.seats) <= 3
  BY <1>4, BotsFinite DEF SoundRec, BotMax
<1>6. PICK n : n = Min({count, Cardinality(F), BotMax - BotsIn(rec.seats)})
  OBVIOUS
<1>7. n \in Nat /\ n <= Cardinality(F) /\ n <= 3 - BotsIn(rec.seats)
  <2>1. BotMax - BotsIn(rec.seats) \in Nat
    BY <1>5 DEF BotMax
  <2>2. n \in Nat /\ n <= Cardinality(F) /\ n <= BotMax - BotsIn(rec.seats)
    BY <1>3, <1>6, <2>1, LeastOfThree
  <2> QED
    BY <2>2 DEF BotMax
<1>8. PICK taken : taken = CHOOSE S \in SUBSET F : /\ Cardinality(S) = n
                                                   /\ \A s \in S, t \in F \ S : s < t
  OBVIOUS
<1>9. taken \in SUBSET F /\ Cardinality(taken) = n
  <2>1. \E S \in SUBSET F : Cardinality(S) = n /\ \A s \in S, t \in F \ S : s < t
    BY <1>2, <1>7, LowestSeats
  <2> QED
    BY <1>8, <2>1
<1>10. PICK new : new = WithBots(rec, count)
  OBVIOUS
<1> DEFINE bots == {Bot(s) : s \in taken}
<1>11. new = [rec EXCEPT !.seats = [m \in DOMAIN rec.seats \cup bots |->
                                      IF m \in DOMAIN rec.seats THEN rec.seats[m] ELSE m[2]]]
  BY <1>1, <1>6, <1>8, <1>10 DEF WithBots
<1>12. DOMAIN new = {"seats", "private", "at"}
  BY <1>11 DEF SoundRec
<1>13. new.seats = [m \in DOMAIN rec.seats \cup bots |->
                      IF m \in DOMAIN rec.seats THEN rec.seats[m] ELSE m[2]]
  BY <1>11 DEF SoundRec
<1>14. \A s \in taken : Bot(s) \notin DOMAIN rec.seats /\ s \in Seats /\ Bot(s)[2] = s
  <2>1. \A s \in Seats : Bot(s) \in DOMAIN rec.seats => s \in Range(rec.seats)
    BY DEF SoundRec, Range
  <2>2. \A s \in Seats : Bot(s)[2] = s
    BY DEF Bot
  <2> QED
    BY <1>2, <1>9, <2>1, <2>2
<1>15. /\ DOMAIN new.seats = DOMAIN rec.seats \cup bots
       /\ \A x \in DOMAIN rec.seats : x \in DOMAIN new.seats /\ new.seats[x] = rec.seats[x]
       /\ \A s \in taken : new.seats[Bot(s)] = s
  BY <1>13, <1>14
<1>16. DOMAIN new.seats \subseteq Members
  BY <1>4, <1>14, <1>15 DEF Members
<1>17. \A x \in DOMAIN rec.seats : rec.seats[x] \in Seats /\ rec.seats[x] \notin taken
  BY <1>2, <1>9 DEF SoundRec, Range
<1>18. Range(new.seats) \subseteq Seats
  BY <1>14, <1>15, <1>17 DEF Range
<1>19. IsInjective(new.seats)
  BY <1>15, <1>17 DEF SoundRec, IsInjective
<1>20. \A s \in Seats : Bot(s) \in DOMAIN new.seats => new.seats[Bot(s)] = s
  <2> SUFFICES ASSUME NEW s \in Seats, Bot(s) \in DOMAIN new.seats
               PROVE  new.seats[Bot(s)] = s
    OBVIOUS
  <2>1. CASE Bot(s) \in DOMAIN rec.seats
    BY <1>15, <2>1 DEF SoundRec
  <2>2. CASE Bot(s) \notin DOMAIN rec.seats
    <3>1. PICK t \in taken : Bot(s) = Bot(t)
      BY <1>15, <2>2
    <3>2. s = t
      BY <3>1 DEF Bot
    <3> QED
      BY <1>15, <3>2
  <2> QED
    BY <2>1, <2>2
<1>21. BotsIn(new.seats) <= 3
  <2> DEFINE old == {x \in DOMAIN rec.seats : x \notin Users}
  <2>1. \A s \in taken : Bot(s) \notin Users
    BY <1>14, LobbyAssumption DEF Bot, Seats
  <2>2. {x \in DOMAIN new.seats : x \notin Users} = old \cup bots
    BY <1>15, <2>1
  <2>3. taken \in SUBSET Seats
    BY <1>2, <1>9
  <2>4. IsFiniteSet(bots) /\ Cardinality(bots) <= n
    BY <1>9, <2>3, BotsOfSeats
  <2>5. IsFiniteSet(old) /\ Cardinality(old) = BotsIn(rec.seats)
    BY <1>4, BotsFinite DEF BotsIn
  <2> HIDE DEF old, bots
  <2>6. /\ IsFiniteSet(old \cap bots)
        /\ Cardinality(old \cup bots) = Cardinality(old) + Cardinality(bots)
                                        - Cardinality(old \cap bots)
    BY <2>4, <2>5, FS_Union, FS_Subset
  <2>7. Cardinality(old \cap bots) \in Nat /\ Cardinality(bots) \in Nat
    BY <2>4, <2>6, FS_CardinalityType
  <2>8. Cardinality(old \cup bots) <= BotsIn(rec.seats) + n
    BY <1>5, <1>7, <2>4, <2>5, <2>6, <2>7
  <2>9. BotsIn(new.seats) = Cardinality(old \cup bots)
    BY <2>2 DEF BotsIn
  <2>10. Cardinality(old \cup bots) \in Int
    BY <2>5, <2>6, <2>7, <1>5
  <2> QED
    BY <1>5, <1>7, <2>8, <2>9, <2>10
<1>22. SoundRec(new)
  BY <1>12, <1>16, <1>18, <1>19, <1>20, <1>21 DEF SoundRec, BotMax
<1> QED
  BY <1>10, <1>15, <1>22

-----------------------------------------------------------------------------
(* Requests in the lobby. *)

(* What a handler's step leaves of its request: nothing once it is done    *)
(* and nobody waits, otherwise a request that says the same.               *)
LEMMA StepResult ==
    ASSUME DOMAIN rpc = Slots, NEW i \in Slots, NEW q, IsRequest(q), q.pc # "start", Step(i, q)
    PROVE  /\ DOMAIN rpc' = Slots
           /\ \A j \in Slots \ {i} : rpc'[j] = rpc[j]
           /\ \/ q.pc = "done" /\ ~q.live /\ rpc'[i] = IdleRpc
              \/ /\ ~(q.pc = "done" /\ ~q.live)
                 /\ IsRequest(rpc'[i]) /\ Same(rpc'[i], q)
                 /\ q.pc = "persist" => rpc'[i].rec = q.rec
<1> DEFINE d == [q EXCEPT !.rec = Empty, !.node = None]
           e == [q EXCEPT !.private = FALSE, !.count = 0,
                          !.rec = IF q.pc = "persist" THEN q.rec ELSE Empty]
<1>1. /\ DOMAIN rpc' = Slots
      /\ \A j \in Slots \ {i} : rpc'[j] = rpc[j]
      /\ rpc'[i] = IF q.pc = "done" THEN IF q.live THEN d ELSE IdleRpc ELSE e
  BY DEF Step
<1>2. /\ DOMAIN d = DOMAIN q /\ DOMAIN e = DOMAIN q
      /\ d.kind = q.kind /\ d.user = q.user /\ d.room = q.room /\ d.pc = q.pc
      /\ d.live = q.live /\ d.res = q.res /\ d.private = q.private /\ d.count = q.count
      /\ e.kind = q.kind /\ e.user = q.user /\ e.room = q.room /\ e.pc = q.pc
      /\ e.live = q.live /\ e.res = q.res /\ e.private = FALSE /\ e.count = 0
      /\ e.node = q.node
      /\ q.pc = "persist" => e.rec = q.rec
  BY DEF IsRequest
<1> HIDE DEF d, e
<1>3. IsRequest(e) /\ Same(e, q)
  <2>1. Same(e, q)
    BY <1>2 DEF Same
  <2>2. e.private \in BOOLEAN /\ e.live \in BOOLEAN
    BY <1>2, Zenon DEF IsRequest
  <2>3. e.count \in Nat
    BY <1>2
  <2>4. IsRequest(e)
    BY <1>2, <2>2, <2>3 DEF IsRequest
  <2> QED
    BY <2>1, <2>4
<1>4. q.pc = "done" => IsRequest(d) /\ Same(d, q)
  BY <1>2 DEF IsRequest, Same
<1>5. CASE q.pc # "done"
  <2>1. rpc'[i] = e
    BY <1>1, <1>5
  <2> QED
    BY <1>1, <1>2, <1>3, <1>5, <2>1
<1>6. CASE q.pc = "done" /\ q.live
  <2>1. rpc'[i] = d
    BY <1>1, <1>6
  <2> QED
    BY <1>1, <1>4, <1>6, <2>1
<1>7. CASE q.pc = "done" /\ ~q.live
  <2>1. rpc'[i] = IdleRpc
    BY <1>1, <1>7
  <2> QED
    BY <1>1, <1>7, <2>1
<1> QED
  BY <1>5, <1>6, <1>7

(* What a step of a handler changes its request to. *)
Follows(i, q) ==
    /\ IsRequest(q) /\ q.pc # "start"
    /\ q.kind = rpc[i].kind /\ q.user = rpc[i].user /\ q.live = rpc[i].live
    /\ q.kind # "create" => q.room = rpc[i].room

(* A step of a handler leaves requests of their type, and every answer     *)
(* with its call.                                                          *)
LEMMA LinksAfterStep ==
    ASSUME TypeOK, CallsMatchRequests, NEW i \in Slots, rpc[i] # IdleRpc,
           NEW q, Follows(i, q), Step(i, q), UNCHANGED <<gw, told>>, lost \subseteq lost'
    PROVE  /\ DOMAIN rpc' = Slots
           /\ \A j \in Slots : rpc'[j] = IdleRpc \/ IsRequest(rpc'[j])
           /\ CallsMatchRequests'
<1>1. /\ DOMAIN rpc = Slots /\ IsRequest(rpc[i])
      /\ \A j \in Slots : rpc[j] = IdleRpc \/ IsRequest(rpc[j])
      /\ \A u \in Users : gw[u] = IdleGw \/ IsCall(gw[u])
  BY DEF TypeOK
<1>2. /\ IsRequest(q) /\ q.pc # "start"
      /\ q.kind = rpc[i].kind /\ q.user = rpc[i].user /\ q.live = rpc[i].live
      /\ q.kind # "create" => q.room = rpc[i].room
  BY DEF Follows
<1>3. /\ DOMAIN rpc' = Slots
      /\ \A j \in Slots \ {i} : rpc'[j] = rpc[j]
      /\ \/ q.pc = "done" /\ ~q.live /\ rpc'[i] = IdleRpc
         \/ /\ ~(q.pc = "done" /\ ~q.live)
            /\ IsRequest(rpc'[i]) /\ Same(rpc'[i], q)
  BY <1>1, <1>2, StepResult
<1>4. \A j \in Slots : rpc'[j] = IdleRpc \/ IsRequest(rpc'[j])
  BY <1>1, <1>3
<1>5. \A u \in Users : gw[u].pc = "wait" => gw[u].id \in Slots \cup {0}
  BY <1>1 DEF IsCall, Calls, IdleGw
<1>6. rpc[i].user \in Users
  BY <1>1 DEF IsRequest
<1>7. CASE rpc'[i] = IdleRpc /\ ~q.live
  <2>1. ASSUME NEW j \in Slots PROVE RequestHasCaller(j)'
    <3>1. CASE j = i
      BY <1>7, <3>1 DEF RequestHasCaller
    <3>2. CASE j # i
      BY <1>3, <3>2 DEF CallsMatchRequests, RequestHasCaller
    <3> QED
      BY <3>1, <3>2
  <2>2. ASSUME NEW u \in Users PROVE CallHasRequest(u)'
    <3>1. gw[u].pc = "wait" /\ gw[u].id # 0 => gw[u].id \in Slots /\ gw[u].id # i
      BY <1>2, <1>5, <1>7 DEF CallsMatchRequests, CallHasRequest
    <3> QED
      BY <1>3, <3>1 DEF CallsMatchRequests, CallHasRequest
  <2> QED
    BY <1>3, <1>4, <2>1, <2>2 DEF CallsMatchRequests
<1>8. CASE IsRequest(rpc'[i]) /\ Same(rpc'[i], q) /\ ~(q.pc = "done" /\ ~q.live)
  <2>1. rpc'[i] # IdleRpc
    BY <1>8 DEF IsRequest, IdleRpc
  <2>2. /\ rpc'[i].kind = rpc[i].kind /\ rpc'[i].user = rpc[i].user
        /\ rpc'[i].live = rpc[i].live
        /\ rpc'[i].pc = "done" => rpc'[i].live
        /\ rpc[i].kind # "create" => rpc'[i].room = rpc[i].room
    BY <1>2, <1>8 DEF Same
  <2>3. ASSUME NEW j \in Slots PROVE RequestHasCaller(j)'
    <3>1. RequestHasCaller(j)
      BY DEF CallsMatchRequests
    <3>2. CASE j = i
      BY <2>1, <2>2, <3>1, <3>2 DEF RequestHasCaller
    <3>3. CASE j # i
      BY <1>3, <3>1, <3>3 DEF RequestHasCaller
    <3> QED
      BY <3>2, <3>3
  <2>4. ASSUME NEW u \in Users PROVE CallHasRequest(u)'
    <3>1. CallHasRequest(u)
      BY DEF CallsMatchRequests
    <3>2. CASE gw[u].pc = "wait" /\ gw[u].id = i
      BY <2>1, <2>2, <3>1, <3>2 DEF CallHasRequest
    <3>3. CASE ~(gw[u].pc = "wait" /\ gw[u].id = i)
      BY <1>3, <1>5, <3>1, <3>3 DEF CallHasRequest
    <3> QED
      BY <3>2, <3>3
  <2> QED
    BY <1>3, <1>4, <2>3, <2>4 DEF CallsMatchRequests
<1> QED
  BY <1>3, <1>7, <1>8

(* Everybody keeps the seat he has, whoever is leaving apart. *)
SeatsStay(i) ==
    /\ restarted' = restarted /\ lost \subseteq lost'
    /\ \A r \in DOMAIN rooms : \A u \in DOMAIN rooms[r].seats :
          \/ u = rpc[i].user /\ r = rpc[i].room /\ rpc[i].kind = "leave"
          \/ <<u, r>> \in lost' \/ u \notin Users
          \/ /\ r \in DOMAIN rooms' /\ u \in DOMAIN rooms'[r].seats
             /\ rooms'[r].seats[u] = rooms[r].seats[u]

OwnersStay == \A r \in Rooms : owner[r] # None => owner'[r] = owner[r]

(* A step of a handler takes nobody's seat but a leaving player's, and     *)
(* gives its own caller the seat it answers with.                          *)
LEMMA SeatsAfterStep ==
    ASSUME LobbyInv, NEW i \in Slots, rpc[i] # IdleRpc,
           NEW q, Follows(i, q), Step(i, q), UNCHANGED <<gw, told>>,
           SeatsStay(i), OwnersStay,
           /\ q.live /\ q.kind \in {"create", "join"} /\ q.res # Failed
           => HasSeat(q.user, q.room, q.res)' /\ (q.pc = "done" => owner'[q.room] # None)
    PROVE  SeatKept'
<1>1. TypeOK /\ CallsMatchRequests /\ SeatKept
  BY DEF LobbyInv
<1>2. /\ DOMAIN rpc = Slots /\ IsRequest(rpc[i])
      /\ \A j \in Slots : rpc[j] = IdleRpc \/ IsRequest(rpc[j])
      /\ \A u \in Users : gw[u] = IdleGw \/ IsCall(gw[u])
  BY <1>1 DEF TypeOK
<1>3. IsRequest(q) /\ q.pc # "start" /\ q.live = rpc[i].live
  BY DEF Follows
<1>4. /\ \A j \in Slots \ {i} : rpc'[j] = rpc[j]
      /\ rpc'[i] = IdleRpc \/ (IsRequest(rpc'[i]) /\ Same(rpc'[i], q))
  BY <1>2, <1>3, StepResult
<1>5. ASSUME NEW u \in Users, NEW r \in Rooms, NEW k, HasSeat(u, r, k),
             \/ ~(u = rpc[i].user /\ r = rpc[i].room /\ rpc[i].kind = "leave")
             \/ <<u, r>> \in lost
      PROVE  HasSeat(u, r, k)'
  BY <1>5 DEF HasSeat, SeatsStay
<1>6. rpc[i].kind = "leave" =>
         \/ <<rpc[i].user, rpc[i].room>> \in lost
         \/ /\ told[rpc[i].user][rpc[i].room] = NoSeat
            /\ gw[rpc[i].user].pc = "wait" /\ gw[rpc[i].user].id = i
  BY <1>1 DEF CallsMatchRequests, RequestHasCaller
<1>7. ASSUME NEW j \in Slots PROVE AnswerKept(j)'
  <2>1. CASE j = i
    <3>1. CASE rpc'[i] = IdleRpc
      BY <2>1, <3>1 DEF AnswerKept
    <3>2. CASE Same(rpc'[i], q)
      BY <2>1, <3>2 DEF AnswerKept, Same, HasSeat
    <3> QED
      BY <1>4, <3>1, <3>2
  <2>2. CASE j # i
    <3>1. SUFFICES ASSUME rpc[j] # IdleRpc, rpc[j].live,
                          rpc[j].kind \in {"create", "join"}, rpc[j].res # Failed
                   PROVE  /\ HasSeat(rpc[j].user, rpc[j].room, rpc[j].res)'
                          /\ rpc[j].pc = "done" => owner'[rpc[j].room] # None
      BY <1>4, <2>2 DEF AnswerKept, HasSeat
    <3>2. PICK u, r, k : u = rpc[j].user /\ r = rpc[j].room /\ k = rpc[j].res
      OBVIOUS
    <3>3. HasSeat(u, r, k) /\ (rpc[j].pc = "done" => owner[r] # None)
      BY <1>1, <3>1, <3>2 DEF SeatKept, AnswerKept
    <3>4. u \in Users /\ r \in Rooms
      BY <1>2, <3>1, <3>2 DEF IsRequest
    <3>5. \/ ~(u = rpc[i].user /\ r = rpc[i].room /\ rpc[i].kind = "leave")
          \/ <<u, r>> \in lost
      <4>1. gw[u].id = j
        BY <1>1, <3>1, <3>2 DEF CallsMatchRequests, RequestHasCaller
      <4> QED
        BY <1>6, <2>2, <4>1
    <3>6. HasSeat(u, r, k)'
      BY <1>5, <3>3, <3>4, <3>5
    <3>7. rpc[j].pc = "done" => owner'[r] # None
      BY <3>3, <3>4 DEF OwnersStay
    <3> QED
      BY <1>4, <2>2, <3>2, <3>6, <3>7 DEF HasSeat
  <2> QED
    BY <2>1, <2>2
<1>8. ASSUME NEW u \in Users, gw[u].pc = "probe"
      PROVE  HasSeat(u, gw[u].room, gw[u].seat)' /\ owner'[gw[u].room] # None
  <2>1. PICK r, k : r = gw[u].room /\ k = gw[u].seat
    OBVIOUS
  <2>2. HasSeat(u, r, k) /\ owner[r] # None
    BY <1>1, <1>8, <2>1 DEF SeatKept
  <2>3. r \in Rooms
    BY <1>2, <1>8, <2>1 DEF IsCall, IdleGw
  <2>4. HasSeat(u, r, k)'
    BY <1>5, <1>6, <1>8, <2>2, <2>3
  <2> QED
    BY <2>1, <2>2, <2>3, <2>4 DEF HasSeat, OwnersStay
<1>9. ASSUME NEW u \in Users, NEW r \in Rooms, told[u][r] # NoSeat
      PROVE  HasSeat(u, r, told[u][r])' /\ owner'[r] # None
  <2>1. PICK k : k = told[u][r]
    OBVIOUS
  <2>2. HasSeat(u, r, k) /\ owner[r] # None
    BY <1>1, <1>9, <2>1 DEF SeatKept
  <2>3. HasSeat(u, r, k)'
    BY <1>5, <1>6, <1>9, <2>2
  <2> QED
    BY <2>1, <2>2, <2>3 DEF HasSeat, OwnersStay
<1> QED
  BY <1>7, <1>8, <1>9 DEF SeatKept, HasSeat

(* The tables a step leaves are sound. *)
TablesSound ==
    /\ DOMAIN rooms \subseteq Rooms /\ \A r \in DOMAIN rooms : SoundRec(rooms[r])
    /\ DOMAIN registry \subseteq Rooms /\ \A r \in DOMAIN registry : SoundRec(registry[r])
    /\ IsFiniteSet(DOMAIN rooms) /\ IsFiniteSet(DOMAIN registry)
    /\ owner \in [Rooms -> Nodes \cup {None}] /\ lost \subseteq Users \X Rooms

LEMMA TablesNow == LobbyInv => TablesSound
BY DEF LobbyInv, TypeOK, RecordsSound, TablesSound

(* What a handler's step has to keep for the whole invariant to survive.   *)
LEMMA HandlerStep ==
    ASSUME LobbyInv, NEW i \in Slots, rpc[i] # IdleRpc,
           NEW q, Follows(i, q), Step(i, q), UNCHANGED <<gw, told, nodes>>,
           SeatsStay(i), OwnersStay, TablesSound',
           q.pc = "persist" => SoundRec(q.rec),
           /\ q.live /\ q.kind \in {"create", "join"} /\ q.res # Failed
           => HasSeat(q.user, q.room, q.res)' /\ (q.pc = "done" => owner'[q.room] # None)
    PROVE  LobbyInv'
<1>1. TypeOK /\ CallsMatchRequests /\ RecordsSound
  BY DEF LobbyInv
<1>2. /\ DOMAIN rpc' = Slots
      /\ \A j \in Slots : rpc'[j] = IdleRpc \/ IsRequest(rpc'[j])
      /\ CallsMatchRequests'
  BY <1>1, LinksAfterStep DEF SeatsStay
<1>3. SeatKept'
  BY SeatsAfterStep
<1>4. TypeOK'
  BY <1>1, <1>2 DEF TypeOK, TablesSound, SeatsStay
<1>5. RecordsSound'
  <2>1. DOMAIN rpc = Slots /\ IsRequest(q) /\ q.pc # "start"
    BY <1>1 DEF TypeOK, Follows
  <2>2. /\ \A j \in Slots \ {i} : rpc'[j] = rpc[j]
        /\ \/ rpc'[i] = IdleRpc
           \/ Same(rpc'[i], q) /\ (q.pc = "persist" => rpc'[i].rec = q.rec)
    BY <2>1, StepResult
  <2>3. ASSUME NEW j \in Slots, rpc'[j].pc = "persist" PROVE SoundRec(rpc'[j].rec)
    <3>1. CASE j = i
      BY <2>2, <2>3, <3>1 DEF Same, IdleRpc
    <3>2. CASE j # i
      BY <1>1, <2>2, <2>3, <3>2 DEF RecordsSound
    <3> QED
      BY <3>1, <3>2
  <2> QED
    BY <2>3 DEF RecordsSound, TablesSound
<1> QED
  BY <1>2, <1>3, <1>4, <1>5 DEF LobbyInv

-----------------------------------------------------------------------------
(* The handlers, step by step. *)

(* The request a handler works on. *)
LEMMA RequestNow ==
    ASSUME LobbyInv, NEW i \in Slots, rpc[i].pc # "idle"
    PROVE  IsRequest(rpc[i]) /\ rpc[i] # IdleRpc /\ DOMAIN rpc = Slots
BY DEF LobbyInv, TypeOK, IdleRpc

(* persistUpsert *)
LEMMA PersistStep ==
    ASSUME LobbyInv, NEW i \in Slots, PersistUpsert(i)
    PROVE  LobbyInv'
<1>1. IsRequest(rpc[i]) /\ rpc[i] # IdleRpc
  BY RequestNow DEF PersistUpsert, At
<1>2. PICK q : q = [rpc[i] EXCEPT !.pc = IF rpc[i].kind \in {"create", "join"}
                                         THEN "get" ELSE "done"]
  OBVIOUS
<1>3. /\ rpc[i].pc = "persist" /\ Step(i, q)
      /\ UNCHANGED <<rooms, owner, nodes, gw, told, lost, restarted>>
  BY <1>2 DEF PersistUpsert, At
<1>4. /\ DOMAIN q = DOMAIN rpc[i]
      /\ q.kind = rpc[i].kind /\ q.user = rpc[i].user /\ q.room = rpc[i].room
      /\ q.private = rpc[i].private /\ q.count = rpc[i].count /\ q.live = rpc[i].live
      /\ q.node = rpc[i].node /\ q.res = rpc[i].res
      /\ q.pc = IF rpc[i].kind \in {"create", "join"} THEN "get" ELSE "done"
  BY <1>1, <1>2 DEF IsRequest
<1>5. Follows(i, q)
  BY <1>1, <1>3, <1>4 DEF Follows, IsRequest, Steps
<1>6. SeatsStay(i) /\ OwnersStay
  BY <1>3 DEF SeatsStay, OwnersStay
<1>7. TablesSound'
  <2>1. registry' = registry \/ registry' = Put(registry, rpc[i].room, rpc[i].rec)
    BY DEF PersistUpsert
  <2>2. SoundRec(rpc[i].rec) /\ rpc[i].room \in Rooms
    BY <1>1, <1>3 DEF LobbyInv, RecordsSound, IsRequest
  <2>3. TablesSound
    BY TablesNow
  <2>4. IsFiniteSet(DOMAIN registry')
    BY <2>1, <2>3, FS_AddElement DEF TablesSound, Put
  <2> QED
    BY <1>3, <2>1, <2>2, <2>3, <2>4 DEF TablesSound, Put
<1>8. q.live /\ q.kind \in {"create", "join"} /\ q.res # Failed
      => HasSeat(q.user, q.room, q.res)' /\ (q.pc = "done" => owner'[q.room] # None)
  <2>1. AnswerKept(i)
    BY DEF LobbyInv, SeatKept
  <2> QED
    BY <1>1, <1>3, <1>4, <2>1 DEF AnswerKept, HasSeat
<1> QED
  BY <1>1, <1>3, <1>4, <1>5, <1>6, <1>7, <1>8, HandlerStep

(* The request of a handler whose claim has failed. *)
LEMMA FailedClaim ==
    ASSUME NEW i \in Slots, IsRequest(rpc[i]), rpc[i].pc \in {"get", "txn"},
           NEW q, q = ClaimFailed(rpc[i])
    PROVE  Follows(i, q) /\ q.pc # "persist" /\ q.res = Failed
<1>1. /\ DOMAIN q = DOMAIN rpc[i]
      /\ q.kind = rpc[i].kind /\ q.user = rpc[i].user /\ q.room = rpc[i].room
      /\ q.private = rpc[i].private /\ q.count = rpc[i].count /\ q.live = rpc[i].live
      /\ q.node = rpc[i].node /\ q.res = Failed
      /\ q.pc = IF rpc[i].kind = "create" THEN "delete" ELSE "done"
  BY DEF ClaimFailed, IsRequest
<1> QED
  BY <1>1 DEF Follows, IsRequest, Steps

(* The request of a handler that goes on to another step of its claim.     *)
LEMMA ClaimGoesOn ==
    ASSUME NEW i \in Slots, IsRequest(rpc[i]), rpc[i].pc \in {"get", "txn"},
           NEW c \in {"txn", "done"}, NEW q, q = [rpc[i] EXCEPT !.pc = c]
    PROVE  /\ Follows(i, q) /\ q.pc = c /\ q.res = rpc[i].res /\ q.room = rpc[i].room
           /\ q.user = rpc[i].user
<1>1. /\ DOMAIN q = DOMAIN rpc[i]
      /\ q.kind = rpc[i].kind /\ q.user = rpc[i].user /\ q.room = rpc[i].room
      /\ q.private = rpc[i].private /\ q.count = rpc[i].count /\ q.live = rpc[i].live
      /\ q.node = rpc[i].node /\ q.res = rpc[i].res /\ q.pc = c
  BY DEF IsRequest
<1>2. Follows(i, q)
  BY <1>1 DEF Follows, IsRequest, Steps
<1> QED
  BY <1>1, <1>2

(* ClaimRoom: the read and the compare-and-set. *)
LEMMA ClaimStep ==
    ASSUME LobbyInv, NEW i \in Slots, ClaimGet(i) \/ ClaimTxn(i)
    PROVE  LobbyInv'
<1>1. IsRequest(rpc[i]) /\ rpc[i] # IdleRpc
  BY RequestNow DEF ClaimGet, ClaimTxn, At
<1>2. /\ rpc[i].pc \in {"get", "txn"}
      /\ UNCHANGED <<rooms, registry, nodes, gw, told, lost, restarted>>
  BY DEF ClaimGet, ClaimTxn, At
<1>3. /\ rpc[i].room \in Rooms /\ rpc[i].node \in Nodes /\ rpc[i].node # None
      /\ rpc[i].kind \in {"create", "join"}
  BY <1>1, <1>2, LobbyAssumption DEF IsRequest
<1>4. owner \in [Rooms -> Nodes \cup {None}]
  BY DEF LobbyInv, TypeOK
<1>5. \/ owner' = owner
      \/ owner' = [owner EXCEPT ![rpc[i].room] = IF @ = None THEN rpc[i].node ELSE @]
  BY DEF ClaimGet, ClaimTxn
<1>6. owner' \in [Rooms -> Nodes \cup {None}] /\ OwnersStay
  BY <1>3, <1>4, <1>5 DEF OwnersStay
<1>7. SeatsStay(i)
  BY <1>2 DEF SeatsStay
<1>8. TablesSound'
  BY <1>2, <1>6, TablesNow DEF TablesSound
<1>9. AnswerKept(i)
  BY DEF LobbyInv, SeatKept
<1>10. ASSUME NEW q, Step(i, q), q = ClaimFailed(rpc[i]) PROVE LobbyInv'
  <2>1. Follows(i, q) /\ q.pc # "persist" /\ q.res = Failed
    BY <1>1, <1>2, <1>10, FailedClaim
  <2> QED
    BY <1>1, <1>2, <1>6, <1>7, <1>8, <1>10, <2>1, HandlerStep
<1>11. ASSUME NEW c \in {"txn", "done"}, NEW q, Step(i, q), q = [rpc[i] EXCEPT !.pc = c],
              c = "done" => owner'[rpc[i].room] # None
       PROVE  LobbyInv'
  <2>1. /\ Follows(i, q) /\ q.pc = c /\ q.res = rpc[i].res /\ q.room = rpc[i].room
        /\ q.user = rpc[i].user
    BY <1>1, <1>2, <1>11, ClaimGoesOn
  <2>2. q.live = rpc[i].live /\ q.kind = rpc[i].kind
    BY <2>1 DEF Follows
  <2>3. q.live /\ q.kind \in {"create", "join"} /\ q.res # Failed
        => HasSeat(q.user, q.room, q.res)' /\ (q.pc = "done" => owner'[q.room] # None)
    BY <1>1, <1>2, <1>9, <1>11, <2>1, <2>2 DEF AnswerKept, HasSeat
  <2> QED
    BY <1>1, <1>2, <1>6, <1>7, <1>8, <1>11, <2>1, <2>3, HandlerStep
<1>12. CASE ClaimGet(i)
  <2>1. \/ Step(i, ClaimFailed(rpc[i]))
        \/ /\ owner' = owner
           /\ Step(i, [rpc[i] EXCEPT !.pc = IF owner[rpc[i].room] = rpc[i].node
                                            THEN "done" ELSE "txn"])
    BY <1>12 DEF ClaimGet
  <2> QED
    BY <1>3, <1>10, <1>11, <2>1
<1>13. CASE ClaimTxn(i)
  <2>1. \/ Step(i, ClaimFailed(rpc[i]))
        \/ /\ owner[rpc[i].room] = None
           /\ owner' = [owner EXCEPT ![rpc[i].room] = IF @ = None THEN rpc[i].node ELSE @]
           /\ Step(i, [rpc[i] EXCEPT !.pc = "done"])
    BY <1>13 DEF ClaimTxn
  <2>2. CASE Step(i, ClaimFailed(rpc[i]))
    BY <1>10, <2>2
  <2>3. CASE /\ owner[rpc[i].room] = None
             /\ owner' = [owner EXCEPT ![rpc[i].room] = IF @ = None THEN rpc[i].node ELSE @]
             /\ Step(i, [rpc[i] EXCEPT !.pc = "done"])
    <3>1. owner'[rpc[i].room] # None
      BY <1>3, <1>4, <2>3
    <3> QED
      BY <1>11, <2>3, <3>1
  <2> QED
    BY <2>1, <2>2, <2>3
<1> QED
  BY <1>12, <1>13

(* DeleteRoom, both halves. *)
LEMMA DeleteStep ==
    ASSUME LobbyInv, NEW i \in Slots, DeleteRoom(i) \/ DeleteRecord(i)
    PROVE  LobbyInv'
<1>1. IsRequest(rpc[i]) /\ rpc[i] # IdleRpc
  BY RequestNow DEF DeleteRoom, DeleteRecord, At
<1>2. /\ rpc[i].pc \in {"delete", "forget"} /\ UNCHANGED <<owner, nodes, gw, told, restarted>>
      /\ \E c \in {"forget", "done"} : Step(i, [rpc[i] EXCEPT !.pc = c])
  BY DEF DeleteRoom, DeleteRecord, At
<1>3. PICK c \in {"forget", "done"} : Step(i, [rpc[i] EXCEPT !.pc = c])
  BY <1>2
<1>4. PICK q : q = [rpc[i] EXCEPT !.pc = c]
  OBVIOUS
<1>5. /\ DOMAIN q = DOMAIN rpc[i]
      /\ q.kind = rpc[i].kind /\ q.user = rpc[i].user /\ q.room = rpc[i].room
      /\ q.private = rpc[i].private /\ q.count = rpc[i].count /\ q.live = rpc[i].live
      /\ q.node = rpc[i].node /\ q.res = rpc[i].res /\ q.pc = c
  BY <1>1, <1>4 DEF IsRequest
<1>6. Follows(i, q) /\ q.res = Failed /\ q.kind = "create"
  BY <1>1, <1>2, <1>5 DEF Follows, IsRequest, Steps
<1>7. rpc[i].room \in Rooms
  BY <1>1, <1>2 DEF IsRequest
<1>8. \/ UNCHANGED <<rooms, lost>>
      \/ /\ rooms' = Restrict(rooms, DOMAIN rooms \ {rpc[i].room})
         /\ lost' = lost \cup (Users \X {rpc[i].room})
  BY DEF DeleteRoom, DeleteRecord
<1>9. SeatsStay(i) /\ OwnersStay
  BY <1>2, <1>8 DEF SeatsStay, OwnersStay, Restrict
<1>10. TablesSound'
  <2>1. \/ registry' = registry
        \/ registry' = Restrict(registry, DOMAIN registry \ {rpc[i].room})
    BY DEF DeleteRoom, DeleteRecord
  <2>2. TablesSound
    BY TablesNow
  <2>3. DOMAIN rooms' \subseteq DOMAIN rooms /\ DOMAIN registry' \subseteq DOMAIN registry
    BY <1>8, <2>1 DEF Restrict
  <2>4. IsFiniteSet(DOMAIN rooms') /\ IsFiniteSet(DOMAIN registry')
    BY <2>2, <2>3, FS_Subset DEF TablesSound
  <2> QED
    BY <1>2, <1>7, <1>8, <2>1, <2>2, <2>4 DEF TablesSound, Restrict
<1>11. Step(i, q) /\ q.pc # "persist"
  BY <1>3, <1>4, <1>5
<1> QED
  BY <1>1, <1>2, <1>6, <1>9, <1>10, <1>11, HandlerStep

(* A handler that writes one record, and keeps who is in it. *)
LEMMA RecordWritten ==
    ASSUME LobbyInv, NEW i \in Slots, NEW r \in Rooms, NEW rec, SoundRec(rec),
           rooms' = Put(rooms, r, rec), UNCHANGED <<registry, owner, lost, restarted>>,
           r \in DOMAIN rooms => \A u \in DOMAIN rooms[r].seats :
              \/ u = rpc[i].user /\ r = rpc[i].room /\ rpc[i].kind = "leave"
              \/ u \in DOMAIN rec.seats /\ rec.seats[u] = rooms[r].seats[u]
    PROVE  TablesSound' /\ SeatsStay(i) /\ OwnersStay
<1>1. /\ DOMAIN rooms' = DOMAIN rooms \cup {r} /\ rooms'[r] = rec
      /\ \A x \in DOMAIN rooms : x # r => rooms'[x] = rooms[x]
  BY DEF Put
<1>2. TablesSound'
  <2>1. IsFiniteSet(DOMAIN rooms')
    BY <1>1, TablesNow, FS_AddElement DEF TablesSound
  <2> QED
    BY <1>1, <2>1, TablesNow DEF TablesSound
<1>3. SeatsStay(i)
  BY <1>1 DEF SeatsStay
<1>4. OwnersStay
  BY DEF OwnersStay
<1> QED
  BY <1>2, <1>3, <1>4

(* CreateRoom *)
LEMMA CreateStep ==
    ASSUME LobbyInv, NEW i \in Slots, LobbyCreate(i)
    PROVE  LobbyInv'
<1>1. IsRequest(rpc[i]) /\ rpc[i] # IdleRpc
  BY RequestNow DEF LobbyCreate, At
<1>2. /\ rpc[i].pc = "start" /\ rpc[i].kind = "create"
      /\ UNCHANGED <<registry, owner, nodes, gw, told, lost, restarted>>
  BY DEF LobbyCreate, At
<1>3. CASE Step(i, [rpc[i] EXCEPT !.pc = "done"]) /\ UNCHANGED rooms
  <2>1. PICK q : q = [rpc[i] EXCEPT !.pc = "done"]
    OBVIOUS
  <2>2. /\ DOMAIN q = DOMAIN rpc[i]
        /\ q.kind = rpc[i].kind /\ q.user = rpc[i].user /\ q.room = rpc[i].room
        /\ q.private = rpc[i].private /\ q.count = rpc[i].count /\ q.live = rpc[i].live
        /\ q.node = rpc[i].node /\ q.res = rpc[i].res /\ q.pc = "done"
    BY <1>1, <2>1 DEF IsRequest
  <2>3. Follows(i, q) /\ q.res = Failed
    BY <1>1, <1>2, <2>2 DEF Follows, IsRequest, Steps
  <2>4. SeatsStay(i) /\ OwnersStay
    BY <1>2, <1>3 DEF SeatsStay, OwnersStay
  <2>5. TablesSound'
    BY <1>2, <1>3, TablesNow DEF TablesSound
  <2> QED
    BY <1>1, <1>2, <1>3, <2>1, <2>2, <2>3, <2>4, <2>5, HandlerStep
<1>4. ASSUME NEW r \in Rooms \ DOMAIN rooms, NEW n \in Selectable, NEW rec,
             rec = Seated(EnsureRoom(rpc[i].private), rpc[i].user),
             rooms' = Put(rooms, r, rec),
             Step(i, [rpc[i] EXCEPT !.pc = "persist", !.room = r, !.node = n,
                                    !.rec = rec, !.res = 0])
      PROVE  LobbyInv'
  <2>1. PICK q : q = [rpc[i] EXCEPT !.pc = "persist", !.room = r, !.node = n,
                                    !.rec = rec, !.res = 0]
    OBVIOUS
  <2>2. /\ DOMAIN q = DOMAIN rpc[i]
        /\ q.kind = rpc[i].kind /\ q.user = rpc[i].user /\ q.room = r
        /\ q.private = rpc[i].private /\ q.count = rpc[i].count /\ q.live = rpc[i].live
        /\ q.node = n /\ q.rec = rec /\ q.res = 0 /\ q.pc = "persist"
    BY <1>1, <2>1 DEF IsRequest
  <2>3. n \in Nodes
    BY LobbyAssumption DEF Selectable, LobbyInv, TypeOK
  <2>4. Follows(i, q)
    BY <1>1, <1>2, <2>2, <2>3 DEF Follows, IsRequest, Steps, Seats
  <2>5. rpc[i].user \in Users
    BY <1>1 DEF IsRequest
  <2>6. PICK e : e = EnsureRoom(rpc[i].private)
    OBVIOUS
  <2>7. SoundRec(e) /\ e.seats = Empty
    BY <2>6, FreshRecord
  <2>8. SoundRec(rec)
    BY <1>4, <2>5, <2>6, <2>7, SeatedSound
  <2>9. rpc[i].user \in DOMAIN rec.seats /\ rec.seats[rpc[i].user] = 0
    <3>1. FreeSeats(Empty) = 0..3 /\ rpc[i].user \notin DOMAIN Empty
      BY DEF FreeSeats, Seats, Empty, Range
    <3>2. Min(0..3) = 0
      <4>1. 0 \in 0..3 /\ \A y \in 0..3 : 0 <= y
        OBVIOUS
      <4>2. \A x \in 0..3 : (\A y \in 0..3 : x <= y) => x = 0
        OBVIOUS
      <4>3. Min(0..3) \in 0..3 /\ \A y \in 0..3 : Min(0..3) <= y
        BY <4>1 DEF Min
      <4> QED
        BY <4>2, <4>3
    <3>3. rec = [e EXCEPT !.seats = Put(Empty, rpc[i].user, 0)]
      BY <1>4, <2>6, <2>7, <3>1, <3>2 DEF Seated
    <3>4. rec.seats = Put(Empty, rpc[i].user, 0)
      BY <2>7, <3>3 DEF SoundRec
    <3> QED
      BY <3>4 DEF Put
  <2>10. TablesSound' /\ SeatsStay(i) /\ OwnersStay
    BY <1>2, <1>4, <2>8, RecordWritten
  <2>11. HasSeat(q.user, q.room, q.res)'
    BY <1>4, <2>2, <2>9 DEF HasSeat, Put
  <2> QED
    BY <1>1, <1>2, <1>4, <2>1, <2>2, <2>4, <2>8, <2>10, <2>11, HandlerStep
<1> QED
  BY <1>3, <1>4 DEF LobbyCreate

(* JoinRoom *)
LEMMA JoinStep ==
    ASSUME LobbyInv, NEW i \in Slots, LobbyJoin(i)
    PROVE  LobbyInv'
<1>1. IsRequest(rpc[i]) /\ rpc[i] # IdleRpc
  BY RequestNow DEF LobbyJoin, At
<1>2. /\ rpc[i].pc = "start" /\ rpc[i].kind = "join"
      /\ UNCHANGED <<registry, owner, nodes, gw, told, lost, restarted>>
  BY DEF LobbyJoin, At
<1>3. PICK r, m : r = rpc[i].room /\ m = rpc[i].user
  OBVIOUS
<1>4. r \in Rooms /\ m \in Users
  BY <1>1, <1>2, <1>3 DEF IsRequest
<1>5. PICK old : old = IF r \in DOMAIN rooms THEN rooms[r] ELSE EnsureRoom(FALSE)
  OBVIOUS
<1>6. PICK rec : rec = Seated(old, m)
  OBVIOUS
<1>7. PICK q : q = [rpc[i] EXCEPT
                      !.pc = IF m \notin DOMAIN rec.seats THEN "done"
                             ELSE IF rec = old THEN "get" ELSE "persist",
                      !.node = Local, !.rec = rec,
                      !.res = IF m \in DOMAIN rec.seats THEN rec.seats[m] ELSE Failed]
  OBVIOUS
<1>8. rooms' = Put(rooms, r, rec) /\ Step(i, q)
  BY <1>3, <1>5, <1>6, <1>7 DEF LobbyJoin
<1>9. SoundRec(old)
  BY <1>5, FreshRecord, TablesNow DEF TablesSound
<1>10. /\ SoundRec(rec)
       /\ \A x \in DOMAIN old.seats : x \in DOMAIN rec.seats /\ rec.seats[x] = old.seats[x]
  BY <1>4, <1>6, <1>9, SeatedSound
<1>11. /\ DOMAIN q = DOMAIN rpc[i]
       /\ q.kind = rpc[i].kind /\ q.user = m /\ q.room = r
       /\ q.private = rpc[i].private /\ q.count = rpc[i].count /\ q.live = rpc[i].live
       /\ q.node = Local /\ q.rec = rec
       /\ q.res = IF m \in DOMAIN rec.seats THEN rec.seats[m] ELSE Failed
       /\ q.pc = IF m \notin DOMAIN rec.seats THEN "done"
                 ELSE IF rec = old THEN "get" ELSE "persist"
  BY <1>1, <1>3, <1>7 DEF IsRequest
<1>12. q.res \in Seats \cup {Failed} /\ q.pc \in {"done", "get", "persist"}
  BY <1>10, <1>11, SeatInRange
<1>13. Follows(i, q)
  BY <1>1, <1>2, <1>3, <1>4, <1>11, <1>12, LobbyAssumption DEF Follows, IsRequest, Steps
<1>14. TablesSound' /\ SeatsStay(i) /\ OwnersStay
  BY <1>2, <1>4, <1>5, <1>8, <1>10, RecordWritten
<1>15. q.res # Failed => HasSeat(q.user, q.room, q.res)' /\ q.pc # "done"
  BY <1>8, <1>11 DEF HasSeat, Put
<1>16. q.pc = "persist" => SoundRec(q.rec)
  BY <1>10, <1>11
<1> QED
  BY <1>1, <1>2, <1>8, <1>13, <1>14, <1>15, <1>16, HandlerStep

(* A request whose answer says nothing of a seat goes on to c. *)
Edits(q, p, c) ==
    /\ DOMAIN q = DOMAIN p
    /\ q.kind = p.kind /\ q.user = p.user /\ q.room = p.room
    /\ q.private = p.private /\ q.count = p.count /\ q.live = p.live
    /\ q.node = p.node /\ q.pc = c /\ q.res \in {0, p.res}

LEMMA PlainRequest ==
    ASSUME NEW i \in Slots, IsRequest(rpc[i]), rpc[i].kind \in {"leave", "bots"},
           NEW c \in {"persist", "done"}, NEW q, Edits(q, rpc[i], c)
    PROVE  Follows(i, q) /\ q.pc = c
BY DEF Edits, Follows, IsRequest, Steps, Seats

(* LeaveRoom and AddBot for a room the lobby does not know. *)
LEMMA UnknownRoomStep ==
    ASSUME LobbyInv, NEW i \in Slots, IsRequest(rpc[i]), rpc[i] # IdleRpc,
           rpc[i].kind \in {"leave", "bots"}, Step(i, [rpc[i] EXCEPT !.pc = "done"]),
           UNCHANGED <<rooms, registry, owner, nodes, gw, told, lost, restarted>>
    PROVE  LobbyInv'
<1>1. PICK q : q = [rpc[i] EXCEPT !.pc = "done"]
  OBVIOUS
<1>0. Edits(q, rpc[i], "done")
  BY <1>1 DEF Edits, IsRequest
<1>2. Follows(i, q) /\ q.pc = "done"
  BY <1>0, PlainRequest
<1>3. q.kind \notin {"create", "join"}
  BY <1>2 DEF Follows
<1>4. SeatsStay(i) /\ OwnersStay
  BY DEF SeatsStay, OwnersStay
<1>5. TablesSound'
  BY TablesNow DEF TablesSound
<1> QED
  BY <1>1, <1>2, <1>3, <1>4, <1>5, HandlerStep

(* LeaveRoom *)
LEMMA LeaveStep ==
    ASSUME LobbyInv, NEW i \in Slots, LobbyLeave(i)
    PROVE  LobbyInv'
<1>1. IsRequest(rpc[i]) /\ rpc[i] # IdleRpc
  BY RequestNow DEF LobbyLeave, At
<1>2. /\ rpc[i].pc = "start" /\ rpc[i].kind = "leave"
      /\ UNCHANGED <<registry, owner, nodes, gw, told, lost, restarted>>
  BY DEF LobbyLeave, At
<1>3. PICK r, m : r = rpc[i].room /\ m = rpc[i].user
  OBVIOUS
<1>4. r \in Rooms /\ m \in Users
  BY <1>1, <1>2, <1>3 DEF IsRequest
<1>5. CASE r \notin DOMAIN rooms
  <2>1. Step(i, [rpc[i] EXCEPT !.pc = "done"]) /\ UNCHANGED rooms
    BY <1>3, <1>5 DEF LobbyLeave
  <2> QED
    BY <1>1, <1>2, <2>1, UnknownRoomStep
<1>6. CASE r \in DOMAIN rooms
  <2>1. PICK rec : rec = [rooms[r] EXCEPT !.seats = Restrict(@, DOMAIN @ \ {m})]
    OBVIOUS
  <2>2. PICK q : q = [rpc[i] EXCEPT !.pc = "persist", !.rec = rec, !.res = 0]
    OBVIOUS
  <2>3. rooms' = Put(rooms, r, rec) /\ Step(i, q)
    BY <1>3, <1>6, <2>1, <2>2 DEF LobbyLeave
  <2>4. SoundRec(rooms[r])
    BY <1>6, TablesNow DEF TablesSound
  <2>5. /\ SoundRec(rec)
        /\ \A x \in DOMAIN rooms[r].seats \ {m} :
              x \in DOMAIN rec.seats /\ rec.seats[x] = rooms[r].seats[x]
    <3>1. /\ DOMAIN rec = DOMAIN rooms[r]
          /\ rec.seats = Restrict(rooms[r].seats, DOMAIN rooms[r].seats \ {m})
      BY <2>1, <2>4 DEF SoundRec
    <3>2. PICK p : p = rooms[r]
      OBVIOUS
    <3> QED
      BY <1>4, <2>4, <3>1, <3>2, LeftSound
  <2>6. Follows(i, q) /\ q.rec = rec
    <3>1. Edits(q, rpc[i], "persist") /\ q.rec = rec
      BY <1>1, <2>2 DEF Edits, IsRequest
    <3> QED
      BY <1>1, <1>2, <3>1, PlainRequest
  <2>7. q.kind = "leave"
    BY <1>2, <2>6 DEF Follows
  <2>8. TablesSound' /\ SeatsStay(i) /\ OwnersStay
    BY <1>2, <1>3, <1>4, <2>3, <2>5, RecordWritten
  <2> QED
    BY <1>1, <1>2, <2>3, <2>5, <2>6, <2>7, <2>8, HandlerStep
<1> QED
  BY <1>5, <1>6

(* AddBot *)
LEMMA AddBotStep ==
    ASSUME LobbyInv, NEW i \in Slots, LobbyAddBot(i)
    PROVE  LobbyInv'
<1>1. IsRequest(rpc[i]) /\ rpc[i] # IdleRpc
  BY RequestNow DEF LobbyAddBot, At
<1>2. /\ rpc[i].pc = "start" /\ rpc[i].kind = "bots"
      /\ UNCHANGED <<registry, owner, nodes, gw, told, lost, restarted>>
  BY DEF LobbyAddBot, At
<1>3. PICK r : r = rpc[i].room
  OBVIOUS
<1>4. r \in Rooms /\ rpc[i].count \in Nat
  BY <1>1, <1>2, <1>3 DEF IsRequest
<1>5. CASE r \notin DOMAIN rooms
  <2>1. Step(i, [rpc[i] EXCEPT !.pc = "done"]) /\ UNCHANGED rooms
    BY <1>3, <1>5 DEF LobbyAddBot
  <2> QED
    BY <1>1, <1>2, <2>1, UnknownRoomStep
<1>6. CASE r \in DOMAIN rooms
  <2>1. PICK rec : rec = WithBots(rooms[r], rpc[i].count)
    OBVIOUS
  <2>2. PICK c : c = IF rec = rooms[r] THEN "done" ELSE "persist"
    OBVIOUS
  <2>3. PICK q : q = [rpc[i] EXCEPT !.rec = rec, !.res = 0, !.pc = c]
    OBVIOUS
  <2>4. rooms' = Put(rooms, r, rec) /\ Step(i, q)
    BY <1>3, <1>6, <2>1, <2>2, <2>3 DEF LobbyAddBot
  <2>5. SoundRec(rooms[r])
    BY <1>6, TablesNow DEF TablesSound
  <2>6. /\ SoundRec(rec)
        /\ \A x \in DOMAIN rooms[r].seats :
              x \in DOMAIN rec.seats /\ rec.seats[x] = rooms[r].seats[x]
    BY <1>4, <2>1, <2>5, WithBotsSound
  <2>7. Follows(i, q) /\ q.pc = c /\ (c = "persist" => q.rec = rec)
    <3>1. Edits(q, rpc[i], c) /\ q.rec = rec
      BY <1>1, <2>3 DEF Edits, IsRequest
    <3> QED
      BY <1>1, <1>2, <2>2, <3>1, PlainRequest
  <2>8. q.kind = "bots"
    BY <1>2, <2>7 DEF Follows
  <2>9. TablesSound' /\ SeatsStay(i) /\ OwnersStay
    BY <1>2, <1>4, <2>4, <2>6, RecordWritten
  <2> QED
    BY <1>1, <1>2, <2>4, <2>6, <2>7, <2>8, <2>9, HandlerStep
<1> QED
  BY <1>5, <1>6

(* Every step of a request in the lobby. *)
LEMMA LobbySideStep ==
    ASSUME LobbyInv, NEW i \in Slots, LobbyStep(i)
    PROVE  LobbyInv'
BY CreateStep, JoinStep, LeaveStep, AddBotStep, PersistStep, ClaimStep, DeleteStep
DEF LobbyStep

-----------------------------------------------------------------------------
(* The lobby's end and start, and the nodes' leases. *)
LEMMA RestartStep ==
    ASSUME LobbyInv, LobbyRestart
    PROVE  LobbyInv'
<1>1. /\ restarted' = TRUE /\ rooms' \in {registry, Empty}
      /\ rpc' = [i \in Slots |-> IdleRpc]
      /\ gw' = [u \in Users |-> IF gw[u].pc = "wait" THEN [gw[u] EXCEPT !.id = 0] ELSE gw[u]]
      /\ UNCHANGED <<registry, owner, nodes, told, lost>>
  BY DEF LobbyRestart
<1>2. DOMAIN Empty = {}
  BY DEF Empty
<1>3. TablesSound
  BY TablesNow
<1>4. TablesSound'
  BY <1>1, <1>2, <1>3, FS_EmptySet DEF TablesSound
<1>5. ASSUME NEW u \in Users
      PROVE  /\ gw'[u] = IdleGw \/ IsCall(gw'[u])
             /\ gw'[u].pc = "wait" => gw'[u].id = 0
             /\ gw'[u].pc = "probe" => gw'[u] = gw[u]
  <2>1. gw[u] = IdleGw \/ IsCall(gw[u])
    BY DEF LobbyInv, TypeOK
  <2>2. CASE gw[u] = IdleGw
    BY <1>1, <2>2 DEF IdleGw
  <2>3. CASE IsCall(gw[u]) /\ gw[u].pc = "wait"
    <3>1. gw'[u] = [gw[u] EXCEPT !.id = 0]
      BY <1>1, <2>3
    <3>2. gw'[u] \in Calls /\ gw'[u].id = 0
      BY <2>3, <3>1 DEF IsCall, Calls
    <3>3. /\ gw'[u].kind = gw[u].kind /\ gw'[u].room = gw[u].room /\ gw'[u].op = gw[u].op
          /\ gw'[u].pc = "wait"
      BY <2>3, <3>1 DEF IsCall, Calls
    <3> QED
      BY <2>3, <3>2, <3>3 DEF IsCall
  <2>4. CASE IsCall(gw[u]) /\ gw[u].pc # "wait"
    BY <1>1, <2>4
  <2> QED
    BY <2>1, <2>2, <2>3, <2>4
<1>6. TypeOK'
  BY <1>1, <1>4, <1>5 DEF TablesSound, LobbyInv, TypeOK
<1>7. RecordsSound'
  BY <1>1, <1>4 DEF TablesSound, RecordsSound, IdleRpc
<1>8. CallsMatchRequests'
  BY <1>1, <1>5 DEF CallsMatchRequests, RequestHasCaller, CallHasRequest
<1>9. SeatKept'
  BY <1>1, <1>5 DEF LobbyInv, SeatKept, AnswerKept, HasSeat
<1> QED
  BY <1>6, <1>7, <1>8, <1>9 DEF LobbyInv

LEMMA NodeStep ==
    ASSUME LobbyInv, NEW n \in Nodes, LeaseEnds(n) \/ Register(n)
    PROVE  LobbyInv'
<1>1. /\ nodes' \subseteq Nodes
      /\ UNCHANGED <<rooms, registry, owner, rpc, gw, told, lost, restarted>>
  BY DEF LeaseEnds, Register, LobbyInv, TypeOK
<1> QED
  BY <1>1
  DEF LobbyInv, TypeOK, RecordsSound, CallsMatchRequests, RequestHasCaller, CallHasRequest,
      SeatKept, AnswerKept, HasSeat

-----------------------------------------------------------------------------
(* The gateway's side. *)

(* More seats may be lost, none is found again.                            *)
LostGrows == lost \subseteq lost' /\ lost' \subseteq Users \X Rooms

LEMMA LostStays ==
    ASSUME LobbyInv, UNCHANGED lost
    PROVE  LostGrows
BY DEF LobbyInv, TypeOK, LostGrows

(* Request q is what is left of p once u waits for it no longer: gone, not *)
(* u's at all, or still running with nobody to answer to.                  *)
LeftOver(q, p, u) ==
    \/ q = IdleRpc /\ (p # IdleRpc => p.live /\ p.user = u)
    \/ q = p /\ p # IdleRpc /\ ~(p.live /\ p.user = u)
    \/ /\ p # IdleRpc /\ p.live /\ p.user = u
       /\ IsRequest(q) /\ ~q.live /\ q.pc # "done"
       /\ q.kind = "leave" => <<q.user, q.room>> \in lost'
       /\ q.pc = "persist" => SoundRec(q.rec)

Released(slots, u) == DOMAIN slots = Slots /\ \A j \in Slots : LeftOver(slots[j], rpc[j], u)

(* Request q has just been sent for call c of u, whose seats are t.        *)
Fresh(q, j, u, c, t) ==
    /\ IsRequest(q) /\ q.live /\ q.user = u /\ q.pc = "start"
    /\ IsCall(c) /\ c.pc = "wait" /\ c.id = j
    /\ q.kind = c.kind /\ q.room = c.room
    /\ q.kind = "leave" => t[q.room] = NoSeat

(* Whatever a gateway does for u: the others' requests and calls stay, and *)
(* u is told only seats it has.                                            *)
LEMMA GatewaySideStep ==
    ASSUME LobbyInv, NEW u \in Users,
           UNCHANGED <<rooms, registry, owner, nodes, restarted>>, LostGrows,
           DOMAIN rpc' = Slots,
           \A j \in Slots : \/ LeftOver(rpc'[j], rpc[j], u)
                            \/ rpc[j] = IdleRpc /\ Fresh(rpc'[j], j, u, gw'[u], told'[u])
                            \/ /\ rpc[j] # IdleRpc /\ rpc[j].live /\ rpc[j].user = u
                               /\ Fresh(rpc'[j], j, u, gw'[u], told'[u]),
           DOMAIN gw' = Users, \A v \in Users \ {u} : gw'[v] = gw[v],
           gw'[u] = IdleGw \/ IsCall(gw'[u]),
           gw'[u].pc = "wait" => /\ gw'[u].id \in Slots
                                 /\ Fresh(rpc'[gw'[u].id], gw'[u].id, u, gw'[u], told'[u]),
           gw'[u].pc = "probe" => /\ HasSeat(u, gw'[u].room, gw'[u].seat)
                                  /\ owner[gw'[u].room] # None,
           told' \in [Users -> [Rooms -> Seats \cup {NoSeat}]],
           \A v \in Users \ {u} : told'[v] = told[v],
           \A r \in Rooms : told'[u][r] # NoSeat => HasSeat(u, r, told'[u][r]) /\ owner[r] # None
    PROVE  LobbyInv'
<1>1. TypeOK /\ RecordsSound /\ CallsMatchRequests /\ SeatKept
  BY DEF LobbyInv
<1>2. \A j \in Slots : rpc[j] = IdleRpc \/ IsRequest(rpc[j])
  BY <1>1 DEF TypeOK
<1>3. ASSUME NEW q, IsRequest(q) PROVE q # IdleRpc
  BY <1>3, SMTT(30) DEF IsRequest, IdleRpc
<1>4. TypeOK'
  <2>1. \A j \in Slots : rpc'[j] = IdleRpc \/ IsRequest(rpc'[j])
    BY <1>2 DEF LeftOver, Fresh
  <2>2. \A v \in Users : gw'[v] = IdleGw \/ IsCall(gw'[v])
    BY <1>1 DEF TypeOK
  <2> QED
    BY <1>1, <2>1, <2>2 DEF TypeOK, LostGrows
<1>5. RecordsSound'
  <2>1. ASSUME NEW j \in Slots, rpc'[j].pc = "persist" PROVE SoundRec(rpc'[j].rec)
    <3>1. \/ rpc'[j] = IdleRpc \/ rpc'[j] = rpc[j] \/ rpc'[j].pc = "start"
          \/ rpc'[j].pc = "persist" => SoundRec(rpc'[j].rec)
      BY DEF LeftOver, Fresh
    <3>2. rpc'[j] # IdleRpc /\ rpc'[j].pc # "start"
      BY <2>1 DEF IdleRpc
    <3> QED
      BY <1>1, <2>1, <3>1, <3>2 DEF RecordsSound
  <2> QED
    BY <1>1, <2>1 DEF RecordsSound
<1>6. ASSUME NEW v \in Users \ {u}, NEW j \in Slots, rpc[j] # IdleRpc, rpc[j].user = v
      PROVE  rpc'[j] = rpc[j]
  BY <1>6 DEF LeftOver
<1>7. ASSUME NEW j \in Slots PROVE RequestHasCaller(j)'
  <2>1. CASE rpc'[j] = IdleRpc
    BY <2>1 DEF RequestHasCaller
  <2>2. CASE Fresh(rpc'[j], j, u, gw'[u], told'[u])
    BY <2>2 DEF Fresh, RequestHasCaller
  <2>3. CASE rpc'[j] = rpc[j] /\ rpc[j] # IdleRpc /\ ~(rpc[j].live /\ rpc[j].user = u)
    <3>1. RequestHasCaller(j)
      BY <1>1 DEF CallsMatchRequests
    <3>2. IsRequest(rpc[j])
      BY <1>2, <2>3
    <3>3. CASE rpc[j].live
      <4>1. rpc[j].user \in Users \ {u}
        BY <2>3, <3>2, <3>3 DEF IsRequest
      <4> QED
        BY <2>3, <3>1, <4>1 DEF RequestHasCaller, LostGrows
    <3>4. CASE ~rpc[j].live
      BY <2>3, <3>1, <3>4 DEF RequestHasCaller, LostGrows
    <3> QED
      BY <3>3, <3>4
  <2>4. CASE /\ ~rpc'[j].live /\ rpc'[j].pc # "done"
             /\ rpc'[j].kind = "leave" => <<rpc'[j].user, rpc'[j].room>> \in lost'
    BY <2>4 DEF RequestHasCaller
  <2> QED
    BY <2>1, <2>2, <2>3, <2>4 DEF LeftOver
<1>8. ASSUME NEW v \in Users PROVE CallHasRequest(v)'
  <2>1. CASE v = u
    BY <1>3, <2>1 DEF CallHasRequest, Fresh
  <2>2. CASE v # u
    <3>1. CallHasRequest(v)
      BY <1>1 DEF CallsMatchRequests
    <3>2. gw'[v] = gw[v]
      BY <2>2
    <3>3. gw[v].pc = "wait" => gw[v].id \in Slots \cup {0}
      BY <1>1 DEF TypeOK, IsCall, Calls, IdleGw
    <3>4. gw[v].pc = "wait" /\ gw[v].id # 0 => rpc'[gw[v].id] = rpc[gw[v].id]
      BY <1>6, <2>2, <3>1, <3>3 DEF CallHasRequest
    <3> QED
      BY <3>1, <3>2, <3>4 DEF CallHasRequest
  <2> QED
    BY <2>1, <2>2
<1>9. ASSUME NEW j \in Slots PROVE AnswerKept(j)'
  <2>1. CASE rpc'[j] = rpc[j]
    <3>1. AnswerKept(j)
      BY <1>1 DEF SeatKept
    <3>2. HasSeat(rpc[j].user, rpc[j].room, rpc[j].res)
          => HasSeat(rpc[j].user, rpc[j].room, rpc[j].res)'
      BY <2>1 DEF HasSeat, LostGrows
    <3> QED
      BY <2>1, <3>1, <3>2 DEF AnswerKept
  <2>2. CASE rpc'[j] = IdleRpc \/ ~rpc'[j].live
    BY <2>2 DEF AnswerKept
  <2>3. CASE Fresh(rpc'[j], j, u, gw'[u], told'[u])
    BY <2>3 DEF Fresh, IsRequest, AnswerKept
  <2> QED
    BY <2>1, <2>2, <2>3 DEF LeftOver
<1>10. ASSUME NEW v \in Users, gw'[v].pc = "probe"
       PROVE  HasSeat(v, gw[v].room, gw[v].seat)' /\ owner[gw'[v].room] # None
  <2>1. CASE v = u
    BY <1>10, <2>1 DEF HasSeat, LostGrows
  <2>2. CASE v # u
    BY <1>1, <1>10, <2>2 DEF SeatKept, HasSeat, LostGrows
  <2> QED
    BY <2>1, <2>2
<1>11. ASSUME NEW v \in Users, NEW r \in Rooms, told'[v][r] # NoSeat
       PROVE  HasSeat(v, r, told[v][r])' /\ owner[r] # None
  <2>1. CASE v = u
    BY <1>11, <2>1 DEF HasSeat, LostGrows
  <2>2. CASE v # u
    BY <1>1, <1>11, <2>2 DEF SeatKept, HasSeat, LostGrows
  <2> QED
    BY <2>1, <2>2
<1>12. CallsMatchRequests' /\ SeatKept'
  BY <1>7, <1>8, <1>9, <1>10, <1>11 DEF CallsMatchRequests, SeatKept, HasSeat
<1> QED
  BY <1>4, <1>5, <1>12 DEF LobbyInv

(* The gateway tells u seats that u has, and nobody else anything.         *)
Tells(u) ==
    /\ told' \in [Users -> [Rooms -> Seats \cup {NoSeat}]]
    /\ \A v \in Users \ {u} : told'[v] = told[v]
    /\ \A r \in Rooms : told'[u][r] # NoSeat => HasSeat(u, r, told'[u][r]) /\ owner[r] # None

(* What was told stays true, and forgetting a seat is no claim.            *)
LEMMA TellsNothingNew ==
    ASSUME LobbyInv, NEW u \in Users, UNCHANGED told
    PROVE  Tells(u)
BY DEF LobbyInv, TypeOK, SeatKept, Tells

LEMMA TellsSeat ==
    ASSUME LobbyInv, NEW u \in Users, NEW r \in Rooms, NEW k \in Seats \cup {NoSeat},
           told' = [told EXCEPT ![u][r] = k],
           k # NoSeat => HasSeat(u, r, k) /\ owner[r] # None
    PROVE  Tells(u) /\ told'[u][r] = k
<1>1. told \in [Users -> [Rooms -> Seats \cup {NoSeat}]]
  BY DEF LobbyInv, TypeOK
<1>2. /\ \A v \in Users \ {u} : told'[v] = told[v]
      /\ told'[u] = [told[u] EXCEPT ![r] = k]
      /\ told' \in [Users -> [Rooms -> Seats \cup {NoSeat}]]
  BY <1>1
<1>3. told'[u][r] = k /\ \A x \in Rooms \ {r} : told'[u][x] = told[u][x]
  BY <1>1, <1>2
<1>4. ASSUME NEW x \in Rooms, told'[u][x] # NoSeat
      PROVE  HasSeat(u, x, told'[u][x]) /\ owner[x] # None
  BY <1>3, <1>4 DEF LobbyInv, SeatKept
<1> QED
  BY <1>2, <1>3, <1>4 DEF Tells

(* The gateway sends a request for u, which waits for no other any more.   *)
LEMMA SendStep ==
    ASSUME LobbyInv, NEW u \in Users, NEW slots, Released(slots, u),
           NEW c, IsCall(c), c.pc = "wait", Send(u, c, slots), Tells(u),
           c.kind = "leave" => told'[u][c.room] = NoSeat,
           UNCHANGED <<rooms, registry, owner, nodes, restarted>>, LostGrows
    PROVE  LobbyInv'
<1> DEFINE free == {j \in Slots : slots[j].pc = "idle"}
<1>1. PICK i : i = Min(free)
  OBVIOUS
<1>2. PICK q : q = [kind |-> c.kind, user |-> u, room |-> c.room, private |-> c.private,
                    count |-> c.count, pc |-> "start", live |-> TRUE, node |-> None,
                    rec |-> Empty, res |-> Failed]
  OBVIOUS
<1>3. PICK d : d = [c EXCEPT !.id = i, !.pc = "wait"]
  OBVIOUS
<1>4. /\ free # {} /\ gw' = [gw EXCEPT ![u] = d]
      /\ rpc' = [slots EXCEPT ![i] = q]
  BY <1>1, <1>2, <1>3 DEF Send
<1>5. i \in Slots /\ slots[i].pc = "idle"
  <2>1. free \in SUBSET Nat
    BY LobbyAssumption
  <2>2. i \in free
    BY <1>1, <1>4, <2>1, LeastOne
  <2> QED
    BY <2>2
<1> HIDE DEF free
<1>6. \A j \in Slots : rpc[j] = IdleRpc \/ IsRequest(rpc[j])
  BY DEF LobbyInv, TypeOK
<1>7. rpc[i] = IdleRpc \/ (rpc[i] # IdleRpc /\ rpc[i].live /\ rpc[i].user = u)
  <2>1. LeftOver(slots[i], rpc[i], u)
    BY <1>5 DEF Released
  <2> QED
    BY <1>5, <1>6, <2>1 DEF LeftOver, IsRequest, Steps
<1>8. /\ DOMAIN gw' = Users /\ gw'[u] = d
      /\ \A v \in Users \ {u} : gw'[v] = gw[v]
  BY <1>4 DEF LobbyInv, TypeOK
<1>9. /\ DOMAIN rpc' = Slots /\ rpc'[i] = q
      /\ \A j \in Slots \ {i} : rpc'[j] = slots[j]
  BY <1>4, <1>5 DEF Released
<1>10. d \in Calls /\ d.id = i /\ d.pc = "wait" /\ d.kind = c.kind
       /\ d.room = c.room /\ d.op = c.op
  BY <1>3, <1>5 DEF IsCall, Calls
<1>11. IsCall(d)
  BY <1>10 DEF IsCall
<1>12. /\ c.kind \in Kinds /\ c.room \in Rooms \cup {None} /\ c.private \in BOOLEAN
       /\ c.count \in Nat /\ (c.kind # "create" => c.room \in Rooms)
  BY DEF IsCall, Calls
<1>13. IsRequest(q) /\ q.live /\ q.user = u /\ q.pc = "start" /\ q.kind = c.kind
       /\ q.room = c.room
  BY <1>2, <1>12 DEF IsRequest, Steps, Failed
<1>14. Fresh(rpc'[i], i, u, gw'[u], told'[u])
  BY <1>8, <1>9, <1>10, <1>11, <1>13 DEF Fresh
<1>15. \A j \in Slots : \/ LeftOver(rpc'[j], rpc[j], u)
                        \/ rpc[j] = IdleRpc /\ Fresh(rpc'[j], j, u, gw'[u], told'[u])
                        \/ /\ rpc[j] # IdleRpc /\ rpc[j].live /\ rpc[j].user = u
                           /\ Fresh(rpc'[j], j, u, gw'[u], told'[u])
  BY <1>7, <1>9, <1>14 DEF Released
<1>16. gw'[u].pc = "wait" /\ gw'[u].id = i /\ IsCall(gw'[u])
  BY <1>8, <1>10, <1>11
<1>17. /\ told' \in [Users -> [Rooms -> Seats \cup {NoSeat}]]
       /\ \A v \in Users \ {u} : told'[v] = told[v]
       /\ \A r \in Rooms : told'[u][r] # NoSeat =>
             HasSeat(u, r, told'[u][r]) /\ owner[r] # None
  BY DEF Tells
<1> QED
  BY <1>5, <1>8, <1>9, <1>14, <1>15, <1>16, <1>17, GatewaySideStep

(* The call of u is over. *)
LEMMA IdleStep ==
    ASSUME LobbyInv, NEW u \in Users, Released(rpc', u),
           gw' = [gw EXCEPT ![u] = IdleGw], Tells(u),
           UNCHANGED <<rooms, registry, owner, nodes, restarted>>, LostGrows
    PROVE  LobbyInv'
<1>1. /\ DOMAIN gw' = Users /\ gw'[u] = IdleGw
      /\ \A v \in Users \ {u} : gw'[v] = gw[v]
  BY DEF LobbyInv, TypeOK
<1>2. gw'[u].pc # "wait" /\ gw'[u].pc # "probe"
  BY <1>1 DEF IdleGw
<1>3. /\ told' \in [Users -> [Rooms -> Seats \cup {NoSeat}]]
      /\ \A v \in Users \ {u} : told'[v] = told[v]
      /\ \A r \in Rooms : told'[u][r] # NoSeat =>
            HasSeat(u, r, told'[u][r]) /\ owner[r] # None
  BY DEF Tells
<1>4. DOMAIN rpc' = Slots /\ \A j \in Slots : LeftOver(rpc'[j], rpc[j], u)
  BY DEF Released
<1> QED
  BY <1>1, <1>2, <1>3, <1>4, GatewaySideStep

(* The next room of AutoMatch's list. *)
LEMMA MatchNextStep ==
    ASSUME LobbyInv, NEW u \in Users, NEW slots, Released(slots, u),
           NEW left \in Seq(Rooms), MatchNext(u, left, slots), Tells(u),
           UNCHANGED <<rooms, registry, owner, nodes, restarted>>, LostGrows
    PROVE  LobbyInv'
<1>0. 1 \in 1..Tries /\ <<>> \in Seq(Rooms) /\ NoSeat \in Seats \cup {NoSeat}
  BY LobbyAssumption
<1>1. CASE left = <<>>
  <2>1. PICK c : c = Call("create", "create", None)
    OBVIOUS
  <2>2. c \in Calls /\ c.pc = "wait" /\ c.kind = "create" /\ c.op = "create"
    BY <1>0, <2>1 DEF Call, Calls, Kinds
  <2>3. IsCall(c)
    BY <2>2 DEF IsCall
  <2>4. Send(u, c, slots)
    BY <1>1, <2>1 DEF MatchNext
  <2> QED
    BY <2>2, <2>3, <2>4, SendStep
<1>2. CASE left # <<>>
  <2>1. PICK c : c = [Call("match", "join", Head(left)) EXCEPT !.left = Tail(left)]
    OBVIOUS
  <2>2. Head(left) \in Rooms /\ Tail(left) \in Seq(Rooms)
    BY <1>2
  <2>3. c = [op |-> "match", kind |-> "join", room |-> Head(left), private |-> FALSE,
             count |-> 0, try |-> 1, left |-> Tail(left), seat |-> NoSeat, id |-> 0,
             pc |-> "wait"]
    BY <2>1 DEF Call
  <2>4. /\ c \in Calls /\ c.pc = "wait" /\ c.kind = "join" /\ c.op = "match"
        /\ c.room \in Rooms
    BY <1>0, <2>2, <2>3 DEF Calls, Kinds
  <2>5. IsCall(c)
    BY <2>4 DEF IsCall
  <2>6. Send(u, c, slots)
    BY <1>2, <2>1 DEF MatchNext
  <2> QED
    BY <2>4, <2>5, <2>6, SendStep
<1> QED
  BY <1>1, <1>2

(* A call that does not wait for an answer has no request in the lobby     *)
(* that would answer it.                                                   *)
LEMMA NoneWaitedFor ==
    ASSUME LobbyInv, NEW u \in Users, NEW j \in Slots, rpc[j] # IdleRpc,
           rpc[j].live /\ rpc[j].user = u
    PROVE  gw[u].pc = "wait" /\ gw[u].id = j /\ j # 0
<1>1. RequestHasCaller(j)
  BY DEF LobbyInv, CallsMatchRequests
<1> QED
  BY <1>1, LobbyAssumption DEF RequestHasCaller

LEMMA ReleasedNow ==
    ASSUME LobbyInv, NEW u \in Users, gw[u].pc # "wait" \/ gw[u].id = 0
    PROVE  Released(rpc, u)
<1>1. DOMAIN rpc = Slots
  BY DEF LobbyInv, TypeOK
<1>2. ASSUME NEW j \in Slots PROVE LeftOver(rpc[j], rpc[j], u)
  BY NoneWaitedFor DEF LeftOver
<1> QED
  BY <1>1, <1>2 DEF Released

(* The request u waits for. *)
LEMMA WaitedFor ==
    ASSUME LobbyInv, NEW u \in Users, gw[u].pc = "wait", gw[u].id # 0
    PROVE  /\ gw[u].id \in Slots /\ IsRequest(rpc[gw[u].id]) /\ rpc[gw[u].id] # IdleRpc
           /\ rpc[gw[u].id].live /\ rpc[gw[u].id].user = u
           /\ rpc[gw[u].id].kind = gw[u].kind
<1>1. gw[u].id \in Slots
  BY DEF LobbyInv, TypeOK, IsCall, Calls, IdleGw
<1>2. CallHasRequest(u)
  BY DEF LobbyInv, CallsMatchRequests
<1> QED
  BY <1>1, <1>2 DEF LobbyInv, TypeOK, CallHasRequest

(* The request u waited for is given up: gone, or left to run by itself.   *)
LEMMA ReleasedThen ==
    ASSUME LobbyInv, NEW u \in Users, gw[u].pc = "wait", gw[u].id # 0,
           NEW q, NEW slots, slots = [rpc EXCEPT ![gw[u].id] = q],
           q = IdleRpc \/ (/\ IsRequest(q) /\ ~q.live /\ q.pc # "done"
                           /\ q.kind = "leave" => <<q.user, q.room>> \in lost'
                           /\ q.pc = "persist" => SoundRec(q.rec))
    PROVE  Released(slots, u)
<1>1. PICK i : i = gw[u].id
  OBVIOUS
<1>2. i \in Slots /\ rpc[i] # IdleRpc /\ rpc[i].live /\ rpc[i].user = u
  BY <1>1, WaitedFor
<1>3. DOMAIN slots = Slots /\ slots[i] = q /\ \A j \in Slots \ {i} : slots[j] = rpc[j]
  BY <1>1, <1>2 DEF LobbyInv, TypeOK
<1>4. LeftOver(slots[i], rpc[i], u)
  BY <1>2, <1>3 DEF LeftOver
<1>5. ASSUME NEW j \in Slots \ {i} PROVE LeftOver(slots[j], rpc[j], u)
  <2>1. rpc[j] # IdleRpc => ~(rpc[j].live /\ rpc[j].user = u)
    BY <1>1, NoneWaitedFor
  <2> QED
    BY <1>3, <2>1 DEF LeftOver
<1> QED
  BY <1>3, <1>4, <1>5 DEF Released

(* A call ends without an answer, or AutoMatch goes on to its next room.   *)
LEMMA GiveUpStep ==
    ASSUME LobbyInv, NEW u \in Users, gw[u].pc = "wait", NEW slots, Released(slots, u),
           GiveUp(u, slots), Tells(u),
           UNCHANGED <<rooms, registry, owner, nodes, restarted>>, LostGrows
    PROVE  LobbyInv'
<1>1. CASE gw[u].op = "match"
  <2>1. gw[u].left \in Seq(Rooms)
    BY DEF LobbyInv, TypeOK, IsCall, Calls, IdleGw
  <2>2. PICK left : left = gw[u].left
    OBVIOUS
  <2>3. MatchNext(u, left, slots)
    BY <1>1, <2>2 DEF GiveUp
  <2> QED
    BY <2>1, <2>2, <2>3, MatchNextStep
<1>2. CASE gw[u].op # "match"
  BY <1>2, IdleStep DEF GiveUp
<1> QED
  BY <1>1, <1>2

(* The list of the rooms of the lobby is a list of rooms. *)
LEMMA ListOfRooms ==
    ASSUME LobbyInv, NEW l \in ListRooms
    PROVE  l \in Seq(Rooms)
<1> DEFINE open == {r \in DOMAIN rooms : /\ ~rooms[r].private
                                         /\ FreeSeats(rooms[r].seats) # {}}
<1>1. open \subseteq DOMAIN rooms /\ open \subseteq Rooms /\ IsFiniteSet(DOMAIN rooms)
  BY DEF LobbyInv, TypeOK
<1>2. l \in [1..Cardinality(open) -> open]
  BY DEF ListRooms
<1> HIDE DEF open
<1>3. Cardinality(open) \in Nat
  BY <1>1, FS_Subset, FS_CardinalityType
<1> QED
  BY <1>1, <1>2, <1>3

(* A player's call. *)
LEMMA BeginStep ==
    ASSUME LobbyInv, NEW u \in Users, Begin(u)
    PROVE  LobbyInv'
<1>1. /\ gw[u].pc = "idle"
      /\ UNCHANGED <<rooms, registry, owner, nodes, lost, restarted>>
  BY DEF Begin
<1>2. Released(rpc, u)
  BY <1>1, ReleasedNow
<1>3. 1 \in 1..Tries /\ <<>> \in Seq(Rooms) /\ NoSeat \in Seats \cup {NoSeat}
  BY LobbyAssumption
<1>4. UNCHANGED told => Tells(u)
  BY TellsNothingNew
<1>5. CASE \E p \in Privates :
             Send(u, [Call("create", "create", None) EXCEPT !.private = p], rpc)
           /\ UNCHANGED told
  <2>1. PICK p \in Privates :
           Send(u, [Call("create", "create", None) EXCEPT !.private = p], rpc)
    BY <1>5
  <2>2. PICK c : c = [Call("create", "create", None) EXCEPT !.private = p]
    OBVIOUS
  <2>3. p \in BOOLEAN
    BY LobbyAssumption
  <2>4. c = [op |-> "create", kind |-> "create", room |-> None, private |-> p, count |-> 0,
             try |-> 1, left |-> <<>>, seat |-> NoSeat, id |-> 0, pc |-> "wait"]
    BY <2>2 DEF Call
  <2>5. c \in Calls /\ c.pc = "wait" /\ c.kind = "create" /\ c.op = "create"
    BY <1>3, <2>3, <2>4 DEF Calls, Kinds
  <2>6. IsCall(c)
    BY <2>5 DEF IsCall
  <2> QED
    BY <1>1, <1>2, <1>4, <1>5, <2>1, <2>2, <2>5, <2>6, LostStays, SendStep
<1>6. ASSUME NEW r \in Rooms, Send(u, Call("join", "join", r), rpc), UNCHANGED told
      PROVE  LobbyInv'
  <2>1. PICK c : c = Call("join", "join", r)
    OBVIOUS
  <2>2. c \in Calls /\ c.pc = "wait" /\ c.kind = "join" /\ c.op = "join" /\ c.room = r
    BY <1>3, <2>1 DEF Calls, Call, Kinds
  <2>3. IsCall(c)
    BY <2>2 DEF IsCall
  <2> QED
    BY <1>1, <1>2, <1>4, <1>6, <2>1, <2>2, <2>3, LostStays, SendStep
<1>7. ASSUME NEW r \in Rooms, Send(u, Call("leave", "leave", r), rpc),
             told' = [told EXCEPT ![u][r] = NoSeat]
      PROVE  LobbyInv'
  <2>1. PICK c : c = Call("leave", "leave", r)
    OBVIOUS
  <2>2. c \in Calls /\ c.pc = "wait" /\ c.kind = "leave" /\ c.op = "leave" /\ c.room = r
    BY <1>3, <2>1 DEF Calls, Call, Kinds
  <2>3. IsCall(c)
    BY <2>2 DEF IsCall
  <2>4. Tells(u) /\ told'[u][r] = NoSeat
    BY <1>3, <1>7, TellsSeat
  <2> QED
    BY <1>1, <1>2, <1>7, <2>1, <2>2, <2>3, <2>4, LostStays, SendStep
<1>8. ASSUME NEW r \in Rooms, NEW n \in BotCounts, UNCHANGED told,
             Send(u, [Call("bots", "bots", r) EXCEPT !.count = n], rpc)
      PROVE  LobbyInv'
  <2>1. PICK c : c = [Call("bots", "bots", r) EXCEPT !.count = n]
    OBVIOUS
  <2>2. n \in Nat
    BY LobbyAssumption
  <2>3. c = [op |-> "bots", kind |-> "bots", room |-> r, private |-> FALSE, count |-> n,
             try |-> 1, left |-> <<>>, seat |-> NoSeat, id |-> 0, pc |-> "wait"]
    BY <2>1 DEF Call
  <2>4. c \in Calls /\ c.pc = "wait" /\ c.kind = "bots" /\ c.op = "bots" /\ c.room = r
    BY <1>3, <2>2, <2>3 DEF Calls, Kinds
  <2>5. IsCall(c)
    BY <2>4 DEF IsCall
  <2> QED
    BY <1>1, <1>2, <1>4, <1>8, <2>1, <2>4, <2>5, LostStays, SendStep
<1>9. ASSUME NEW l \in ListRooms, MatchNext(u, l, rpc), UNCHANGED told
      PROVE  LobbyInv'
  BY <1>1, <1>2, <1>4, <1>9, ListOfRooms, LostStays, MatchNextStep
<1> QED
  BY <1>5, <1>6, <1>7, <1>8, <1>9 DEF Begin

(* A call that waits is a call. *)
LEMMA CallNow ==
    ASSUME LobbyInv, NEW u \in Users, gw[u].pc # "idle"
    PROVE  IsCall(gw[u])
BY DEF LobbyInv, TypeOK, IdleGw

(* An attempt without an answer: its request is left to run without a      *)
(* caller, and the call is made again, or ends.                            *)
LEMMA UnansweredStep ==
    ASSUME LobbyInv, NEW u \in Users, Unanswered(u)
    PROVE  LobbyInv'
<1>1. /\ gw[u].pc = "wait"
      /\ lost' = IF gw[u].kind = "leave" THEN lost \cup {<<u, gw[u].room>>} ELSE lost
      /\ UNCHANGED <<rooms, registry, owner, nodes, told, restarted>>
  BY DEF Unanswered
<1>2. IsCall(gw[u]) /\ Tells(u)
  BY <1>1, CallNow, TellsNothingNew
<1>lost. LostGrows
  BY <1>1, <1>2 DEF LobbyInv, TypeOK, IsCall, LostGrows
<1>3. PICK i : i = gw[u].id
  OBVIOUS
<1>4. PICK q : q = IF rpc[i].pc = "done" THEN IdleRpc ELSE [rpc[i] EXCEPT !.live = FALSE]
  OBVIOUS
<1>5. PICK slots : slots = IF i = 0 THEN rpc ELSE [rpc EXCEPT ![i] = q]
  OBVIOUS
<1>6. IF gw[u].kind \in {"create", "join"} /\ gw[u].try < Tries
      THEN Send(u, [gw[u] EXCEPT !.try = @ + 1], slots)
      ELSE GiveUp(u, slots)
  <2>1. [rpc EXCEPT ![i] = IF @.pc = "done" THEN IdleRpc ELSE [@ EXCEPT !.live = FALSE]]
        = [rpc EXCEPT ![i] = q]
    BY <1>4
  <2> QED
    BY <1>3, <1>5, <2>1 DEF Unanswered
<1>7. Released(slots, u)
  <2>1. CASE i = 0
    BY <1>3, <1>5, <2>1, ReleasedNow
  <2>2. CASE i # 0
    <3>1. /\ i \in Slots /\ IsRequest(rpc[i]) /\ rpc[i] # IdleRpc
          /\ rpc[i].kind = gw[u].kind /\ rpc[i].user = u
      BY <1>1, <1>3, <2>2, WaitedFor
    <3>2. rpc[i].pc = "persist" => SoundRec(rpc[i].rec)
      BY <3>1 DEF LobbyInv, RecordsSound
    <3>3. CASE rpc[i].pc # "done"
      <4>1. /\ DOMAIN q = DOMAIN rpc[i] /\ q.live = FALSE
            /\ q.kind = rpc[i].kind /\ q.user = rpc[i].user /\ q.pc = rpc[i].pc
            /\ q.room = rpc[i].room /\ q.private = rpc[i].private /\ q.count = rpc[i].count
            /\ q.res = rpc[i].res /\ q.node = rpc[i].node /\ q.rec = rpc[i].rec
        BY <1>4, <3>1, <3>3 DEF IsRequest
      <4>2. IsRequest(q)
        BY <3>1, <4>1 DEF IsRequest
      <4>3. q.kind = "leave" => <<q.user, q.room>> \in lost'
        <5>1. CallHasRequest(u)
          BY DEF LobbyInv, CallsMatchRequests
        <5>2. gw[u].kind = "leave" => rpc[i].room = gw[u].room
          BY <1>1, <1>3, <2>2, <5>1 DEF CallHasRequest
        <5> QED
          BY <1>1, <3>1, <4>1, <5>2
      <4> QED
        BY <1>1, <1>3, <1>5, <2>2, <3>2, <3>3, <4>1, <4>2, <4>3, ReleasedThen
    <3>4. CASE rpc[i].pc = "done"
      BY <1>1, <1>3, <1>4, <1>5, <2>2, <3>4, ReleasedThen
    <3> QED
      BY <3>3, <3>4
  <2> QED
    BY <2>1, <2>2
<1>8. CASE gw[u].kind \in {"create", "join"} /\ gw[u].try < Tries
  <2>1. PICK c : c = [gw[u] EXCEPT !.try = @ + 1]
    OBVIOUS
  <2>2. gw[u] \in Calls /\ gw[u].try + 1 \in 1..Tries
    BY <1>2, <1>8, LobbyAssumption DEF IsCall, Calls
  <2>3. /\ c \in Calls /\ c.pc = "wait" /\ c.kind = gw[u].kind /\ c.op = gw[u].op
        /\ c.room = gw[u].room
    BY <1>1, <2>1, <2>2 DEF Calls
  <2>4. IsCall(c)
    BY <1>2, <2>3 DEF IsCall
  <2>5. c.kind # "leave"
    BY <1>8, <2>3
  <2> QED
    BY <1>1, <1>2, <1>6, <1>7, <1>8, <1>lost, <2>1, <2>3, <2>4, <2>5, SendStep
<1>9. CASE ~(gw[u].kind \in {"create", "join"} /\ gw[u].try < Tries)
  BY <1>1, <1>2, <1>6, <1>7, <1>9, <1>lost, GiveUpStep
<1> QED
  BY <1>8, <1>9

(* The lobby's answer. *)
LEMMA ReplyStep ==
    ASSUME LobbyInv, NEW u \in Users, Reply(u)
    PROVE  LobbyInv'
<1>1. /\ gw[u].pc = "wait" /\ gw[u].id # 0 /\ rpc[gw[u].id].pc = "done"
      /\ UNCHANGED <<rooms, registry, owner, nodes, lost, restarted>>
  BY DEF Reply
<1>2. IsCall(gw[u])
  BY <1>1, CallNow
<1>3. PICK i : i = gw[u].id
  OBVIOUS
<1>4. PICK q : q = rpc[i]
  OBVIOUS
<1>5. /\ i \in Slots /\ IsRequest(q) /\ q # IdleRpc /\ q.live /\ q.user = u
      /\ q.kind = gw[u].kind /\ q.pc = "done"
  BY <1>1, <1>3, <1>4, WaitedFor
<1>6. gw[u].kind # "create" => q.room = gw[u].room
  BY <1>1, <1>3, <1>4 DEF LobbyInv, CallsMatchRequests, CallHasRequest
<1>7. PICK slots : slots = [rpc EXCEPT ![i] = IdleRpc]
  OBVIOUS
<1>8. Released(slots, u)
  BY <1>1, <1>3, <1>7, ReleasedThen
<1>9. q.kind \in {"create", "join"} /\ q.res # Failed =>
         /\ q.room \in Rooms /\ q.res \in Seats
         /\ HasSeat(u, q.room, q.res) /\ owner[q.room] # None
  <2>1. AnswerKept(i)
    BY <1>5 DEF LobbyInv, SeatKept
  <2>2. q.kind \in {"create", "join"} /\ q.res # Failed =>
           HasSeat(u, q.room, q.res) /\ owner[q.room] # None
    BY <1>4, <1>5, <2>1 DEF AnswerKept
  <2> QED
    BY <1>5, <2>2 DEF IsRequest
<1>10. CASE gw[u].op = "match" /\ q.kind = "join" /\ q.res # Failed
  <2>1. /\ gw' = [gw EXCEPT ![u].pc = "probe", ![u].seat = q.res]
        /\ rpc' = slots /\ UNCHANGED told
    BY <1>3, <1>4, <1>7, <1>10 DEF Reply
  <2>2. Tells(u)
    BY <2>1, TellsNothingNew
  <2>3. PICK d : d = [gw[u] EXCEPT !.pc = "probe", !.seat = q.res]
    OBVIOUS
  <2>4. /\ DOMAIN gw' = Users /\ gw'[u] = d
        /\ \A v \in Users \ {u} : gw'[v] = gw[v]
    BY <2>1, <2>3 DEF LobbyInv, TypeOK
  <2>5. /\ d \in Calls /\ d.pc = "probe" /\ d.seat = q.res /\ d.kind = gw[u].kind
        /\ d.room = gw[u].room /\ d.op = gw[u].op
    BY <1>2, <1>9, <1>10, <2>3 DEF IsCall, Calls
  <2>6. IsCall(d)
    BY <1>2, <1>5, <1>9, <1>10, <2>5 DEF IsCall
  <2>7. d.room = q.room
    BY <1>5, <1>6, <1>10, <2>5
  <2>8. DOMAIN rpc' = Slots /\ \A j \in Slots : LeftOver(rpc'[j], rpc[j], u)
    BY <1>8, <2>1 DEF Released
  <2>9. /\ told' \in [Users -> [Rooms -> Seats \cup {NoSeat}]]
        /\ \A v \in Users \ {u} : told'[v] = told[v]
        /\ \A r \in Rooms : told'[u][r] # NoSeat =>
              HasSeat(u, r, told'[u][r]) /\ owner[r] # None
    BY <2>2 DEF Tells
  <2>10. /\ gw'[u].pc = "probe" /\ IsCall(gw'[u])
         /\ HasSeat(u, gw'[u].room, gw'[u].seat) /\ owner[gw'[u].room] # None
    BY <1>9, <1>10, <2>4, <2>5, <2>6, <2>7
  <2> QED
    BY <1>1, <2>4, <2>8, <2>9, <2>10, LostStays, GatewaySideStep
<1>11. CASE ~(gw[u].op = "match" /\ q.kind = "join" /\ q.res # Failed)
  <2>1. /\ GiveUp(u, slots)
        /\ told' = IF q.res # Failed /\ q.kind \in {"create", "join"}
                   THEN [told EXCEPT ![u][q.room] = q.res] ELSE told
    BY <1>3, <1>4, <1>7, <1>11 DEF Reply
  <2>2. Tells(u)
    <3>1. CASE q.res # Failed /\ q.kind \in {"create", "join"}
      <4>1. PICK r, k : r = q.room /\ k = q.res
        OBVIOUS
      <4> QED
        BY <1>9, <2>1, <3>1, <4>1, TellsSeat
    <3>2. CASE ~(q.res # Failed /\ q.kind \in {"create", "join"})
      BY <2>1, <3>2, TellsNothingNew
    <3> QED
      BY <3>1, <3>2
  <2> QED
    BY <1>1, <1>8, <2>1, <2>2, LostStays, GiveUpStep
<1> QED
  BY <1>10, <1>11

(* AutoMatch takes the room or leaves it again. *)
LEMMA ProbeStep ==
    ASSUME LobbyInv, NEW u \in Users, Probe(u)
    PROVE  LobbyInv'
<1>1. /\ gw[u].pc = "probe"
      /\ UNCHANGED <<rooms, registry, owner, nodes, lost, restarted>>
  BY DEF Probe
<1>2. IsCall(gw[u])
  BY <1>1, CallNow
<1>3. Released(rpc, u)
  BY <1>1, ReleasedNow
<1>4. PICK r, k, left : r = gw[u].room /\ k = gw[u].seat /\ left = gw[u].left
  OBVIOUS
<1>5. r \in Rooms /\ k \in Seats /\ left \in Seq(Rooms)
  BY <1>1, <1>2, <1>4 DEF IsCall, Calls
<1>6. HasSeat(u, r, k) /\ owner[r] # None
  BY <1>1, <1>4 DEF LobbyInv, SeatKept
<1>7. CASE /\ told' = [told EXCEPT ![u][r] = k]
           /\ gw' = [gw EXCEPT ![u] = IdleGw] /\ UNCHANGED rpc
  <2>1. Tells(u)
    BY <1>5, <1>6, <1>7, TellsSeat
  <2>2. Released(rpc', u)
    BY <1>3, <1>7 DEF Released
  <2> QED
    BY <1>1, <1>7, <2>1, <2>2, LostStays, IdleStep
<1>8. CASE /\ Send(u, [Call("match", "leave", r) EXCEPT !.left = left], rpc)
           /\ told' = [told EXCEPT ![u][r] = NoSeat]
  <2>1. PICK c : c = [Call("match", "leave", r) EXCEPT !.left = left]
    OBVIOUS
  <2>2. 1 \in 1..Tries /\ NoSeat \in Seats \cup {NoSeat}
    BY LobbyAssumption
  <2>3. c = [op |-> "match", kind |-> "leave", room |-> r, private |-> FALSE, count |-> 0,
             try |-> 1, left |-> left, seat |-> NoSeat, id |-> 0, pc |-> "wait"]
    BY <2>1 DEF Call
  <2>4. c \in Calls /\ c.pc = "wait" /\ c.kind = "leave" /\ c.op = "match" /\ c.room = r
    BY <1>5, <2>2, <2>3 DEF Calls, Kinds
  <2>5. IsCall(c)
    BY <1>5, <2>4 DEF IsCall
  <2>6. Tells(u) /\ told'[u][r] = NoSeat
    BY <1>5, <1>8, <2>2, TellsSeat
  <2> QED
    BY <1>1, <1>3, <1>8, <2>1, <2>4, <2>5, <2>6, LostStays, SendStep
<1> QED
  BY <1>4, <1>7, <1>8 DEF Probe

-----------------------------------------------------------------------------
(* LobbyInv is inductive. *)
LEMMA InitSound == Init => LobbyInv
<1> SUFFICES ASSUME Init PROVE LobbyInv
  OBVIOUS
<1>1. DOMAIN Empty = {}
  BY DEF Empty
<1>2. TypeOK
  BY <1>1, FS_EmptySet DEF Init, TypeOK
<1>3. RecordsSound
  BY <1>1 DEF Init, RecordsSound, IdleRpc
<1>4. CallsMatchRequests
  BY DEF Init, CallsMatchRequests, RequestHasCaller, CallHasRequest, IdleGw
<1>5. SeatKept
  BY DEF Init, SeatKept, AnswerKept, IdleGw
<1> QED
  BY <1>2, <1>3, <1>4, <1>5 DEF LobbyInv

LEMMA NextSound == LobbyInv /\ [Next]_vars => LobbyInv'
<1> SUFFICES ASSUME LobbyInv, [Next]_vars PROVE LobbyInv'
  OBVIOUS
<1>1. ASSUME NEW i \in Slots, LobbyStep(i) PROVE LobbyInv'
  BY <1>1, LobbySideStep
<1>2. ASSUME NEW u \in Users, Begin(u) \/ Unanswered(u) \/ GatewayStep(u) PROVE LobbyInv'
  BY <1>2, BeginStep, UnansweredStep, ReplyStep, ProbeStep DEF GatewayStep
<1>3. ASSUME NEW n \in Nodes, LeaseEnds(n) \/ Register(n) PROVE LobbyInv'
  BY <1>3, NodeStep
<1>4. CASE LobbyRestart
  BY <1>4, RestartStep
<1>5. CASE UNCHANGED vars
  BY <1>5
  DEF vars, LobbyInv, TypeOK, RecordsSound, CallsMatchRequests, RequestHasCaller,
      CallHasRequest, SeatKept, AnswerKept, HasSeat
<1> QED
  BY <1>1, <1>2, <1>3, <1>4, <1>5 DEF Next

(* However joins, leaves, bots, claims, time-outs, retries, lost leases,   *)
(* failures of Redis and etcd and restarts of the lobby follow each other: *)
(* no record has two members in one seat or a fourth bot, every answer     *)
(* goes to the call it belongs to, and a seat the lobby has given is its   *)
(* player's until the player leaves, a leave of the player's has broken    *)
(* off, the lobby restarts or the creation of the room is rolled back.     *)
THEOREM LobbySound == Spec => []LobbyInv
BY InitSound, NextSound, PTL DEF Spec

(* Only the compare-and-set of ClaimRoom writes an owner key, and only     *)
(* where there was none.                                                   *)
LEMMA OwnersStayNow ==
    ASSUME LobbyInv, [Next]_vars, NEW r \in Rooms, owner[r] # None
    PROVE  owner'[r] = owner[r]
<1>1. ASSUME NEW i \in Slots, ClaimTxn(i) PROVE owner'[r] = owner[r]
  <2>1. owner \in [Rooms -> Nodes \cup {None}]
    BY DEF LobbyInv, TypeOK
  <2>2. PICK x, n : x = rpc[i].room /\ n = rpc[i].node
    OBVIOUS
  <2>3. owner' \in {owner, [owner EXCEPT ![x] = IF @ = None THEN n ELSE @]}
    BY <1>1, <2>2 DEF ClaimTxn
  <2> QED
    BY <2>1, <2>3
<1>2. ASSUME NEW i \in Slots, LobbyStep(i), ~ClaimTxn(i) PROVE owner' = owner
  BY <1>2
  DEF LobbyStep, LobbyCreate, LobbyJoin, LobbyLeave, LobbyAddBot, PersistUpsert, ClaimGet,
      DeleteRoom, DeleteRecord
<1>3. ASSUME NEW u \in Users, Begin(u) \/ Unanswered(u) \/ GatewayStep(u) PROVE owner' = owner
  BY <1>3 DEF Begin, Unanswered, GatewayStep, Reply, Probe
<1>4. ASSUME NEW n \in Nodes, LeaseEnds(n) \/ Register(n) PROVE owner' = owner
  BY <1>4 DEF LeaseEnds, Register
<1>5. LobbyRestart \/ UNCHANGED vars => owner' = owner
  BY DEF LobbyRestart, vars
<1> QED
  BY <1>1, <1>2, <1>3, <1>4, <1>5 DEF Next

(* An owner, once claimed, is never replaced or dropped, and whoever is    *)
(* told a seat is told one in a room that has an owner to be routed to.    *)
THEOREM OwnersStayOwners == Spec => ToldIsOwned
<1>1. ASSUME LobbyInv, LobbyInv', [Next]_vars
      PROVE  [\A r \in Rooms :
                 /\ owner[r] # None => owner'[r] = owner[r]
                 /\ \A u \in Users : told'[u][r] # NoSeat => owner'[r] # None]_vars
  <2>1. ASSUME NEW r \in Rooms, NEW u \in Users, told'[u][r] # NoSeat
        PROVE  owner'[r] # None
    BY <1>1, <2>1 DEF LobbyInv, SeatKept
  <2>2. ASSUME NEW r \in Rooms, owner[r] # None
        PROVE  owner'[r] = owner[r]
    BY <1>1, <2>2, OwnersStayNow
  <2> QED
    BY <2>1, <2>2
<1> QED
  BY <1>1, LobbySound, PTL DEF Spec, ToldIsOwned
=============================================================================
