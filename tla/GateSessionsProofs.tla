------------------------- MODULE GateSessionsProofs -------------------------
(***************************************************************************)
(* Theorems about GateSessions, for any connections, users, rooms and      *)
(* keys and any capacities.  HubInv together with KeyRunsOnce is           *)
(* inductive: RecordsAdmitted carries the admission of a user through the  *)
(* read and the later write of a session, CacheInOrder carries what the    *)
(* cache knows of a key until the key is pushed out.                       *)
(***************************************************************************)
EXTENDS GateSessions, SequenceTheorems, FiniteSetTheorems, TLAPS

USE DEF vars, hub, history, out

IInv == HubInv /\ KeyRunsOnce

-----------------------------------------------------------------------------
(* The idempotency cache.                                                  *)

(* A set that holds n different values has at least n elements.            *)
LEMMA HoldsMany ==
    ASSUME NEW n \in Nat, NEW S, IsFiniteSet(S), NEW f \in [1..n -> S], IsInjective(f)
    PROVE  Cardinality(S) \in Nat /\ Cardinality(S) >= n
<1>1. f \in Injection(1..n, S)
  BY DEF Injection
<1>2. Cardinality(1..n) <= Cardinality(S) /\ Cardinality(S) \in Nat
  BY <1>1, FS_Injection, FS_CardinalityType
<1>3. Cardinality(1..n) = IF 1 > n THEN 0 ELSE n - 1 + 1
  BY FS_Interval
<1>4. Cardinality(1..n) = n
  BY <1>3
<1> QED BY <1>2, <1>4

(* SeenOrStore puts the key first, moves what stood before its old place   *)
(* one back and keeps the rest.                                            *)
Placed(new, k, L, place, size) ==
    /\ new = [i \in 1..size |-> IF i = 1 THEN k ELSE IF i <= place THEN cache[i - 1] ELSE cache[i]]
    /\ \/ Seen(k) /\ place \in 1..L /\ cache[place] = k /\ size = L
       \/ ~Seen(k) /\ place = L + 1 /\ L < CacheSize /\ size = L + 1
       \/ ~Seen(k) /\ place = L + 1 /\ L = CacheSize /\ size = CacheSize

LEMMA SeenOrStorePlaces ==
    ASSUME cache \in Seq(Keys), NEW L \in Nat, L = Len(cache), L <= CacheSize, IsInjective(cache),
           NEW k \in Keys, NEW new, new = SeenOrStore(k)
    PROVE  \E place \in 1..(L + 1), size \in 1..CacheSize : Placed(new, k, L, place, size)
<1>1. CacheSize \in Nat \ {0} /\ DOMAIN cache = 1..L
  BY SizeAssumption, LenProperties
<1> DEFINE known == k \in ToSet(cache)
           place == IF known THEN CHOOSE i \in DOMAIN cache : cache[i] = k ELSE L + 1
           size  == IF known \/ L = CacheSize THEN L ELSE L + 1
<1>2. new = [i \in 1..size |-> IF i = 1 THEN k ELSE IF i <= place THEN cache[i - 1] ELSE cache[i]]
  BY DEF SeenOrStore
<1>3. CASE Seen(k)
  <2>1. \E i \in DOMAIN cache : cache[i] = k
    BY <1>3 DEF Seen, ToSet
  <2>2. place \in DOMAIN cache /\ cache[place] = k
    BY <1>3, <2>1 DEF Seen
  <2>3. size = L
    BY <1>3 DEF Seen
  <2> HIDE DEF place, size
  <2>4. place \in 1..(L + 1) /\ size \in 1..CacheSize
    BY <1>1, <2>2, <2>3
  <2> QED BY <1>1, <1>2, <1>3, <2>2, <2>3, <2>4 DEF Placed
<1>4. CASE ~Seen(k)
  <2>1. place = L + 1
    BY <1>4 DEF Seen
  <2>2. size = IF L = CacheSize THEN L ELSE L + 1
    BY <1>4 DEF Seen
  <2> HIDE DEF place, size
  <2>3. place \in 1..(L + 1) /\ size \in 1..CacheSize
    BY <1>1, <2>1, <2>2
  <2> QED BY <1>1, <1>2, <1>4, <2>1, <2>2, <2>3 DEF Placed
<1> QED BY <1>3, <1>4

(* A use of a key keeps the cache in order and never runs the key twice    *)
(* within the reach of the cache.                                          *)
LEMMA UseKeepsOrder ==
    ASSUME cache \in Seq(Keys), Len(cache) <= CacheSize, CacheInOrder, ~twice,
           since \in [Keys -> SUBSET (Keys \cup {None})],
           NEW k \in Keys, cache' = SeenOrStore(k),
           since' = [o \in Keys |-> IF o = k THEN (IF Seen(k) THEN since[k] ELSE {})
                                    ELSE since[o] \cup {k}],
           twice' = (twice \/ (~Seen(k) /\ None \notin since[k]
                               /\ Cardinality(since[k]) < CacheSize))
    PROVE  /\ cache' \in Seq(Keys) /\ Len(cache') <= CacheSize /\ CacheInOrder' /\ ~twice'
           /\ since' \in [Keys -> SUBSET (Keys \cup {None})]
<1>0. CacheSize \in Nat \ {0}
  BY SizeAssumption
<1>l. PICK L \in Nat : L = Len(cache)
  BY LenProperties
<1>d. DOMAIN cache = 1..L /\ L <= CacheSize /\ \A i \in 1..L : cache[i] \in Keys
  BY <1>l, LenProperties, ElementOfSeq
<1>i. IsInjective(cache)
  BY DEF CacheInOrder
<1>1. PICK place \in 1..(L + 1), size \in 1..CacheSize :
             /\ cache' = [i \in 1..size |-> IF i = 1 THEN k ELSE IF i <= place THEN cache[i - 1] ELSE cache[i]]
             /\ \/ Seen(k) /\ place \in 1..L /\ cache[place] = k /\ size = L
                \/ ~Seen(k) /\ place = L + 1 /\ L < CacheSize /\ size = L + 1
                \/ ~Seen(k) /\ place = L + 1 /\ L = CacheSize /\ size = CacheSize
  <2>1. PICK new : new = cache'
    OBVIOUS
  <2>2. new = SeenOrStore(k)
    BY <2>1
  <2>3. PICK place \in 1..(L + 1), size \in 1..CacheSize : Placed(new, k, L, place, size)
    BY <1>l, <1>d, <1>i, <2>2, SeenOrStorePlaces
  <2> QED BY <2>1, <2>3 DEF Placed
<1>2. place \in Nat /\ size \in Nat /\ DOMAIN cache' = 1..size /\ size >= 1
  BY <1>0, <1>d, <1>1
<1>3. \A i \in 1..size : /\ cache'[i] = IF i = 1 THEN k ELSE IF i <= place THEN cache[i - 1] ELSE cache[i]
                         /\ i # 1 /\ i <= place => i - 1 \in 1..L
                         /\ i # 1 /\ ~(i <= place) => i \in 1..L
  BY <1>0, <1>d, <1>1, <1>2
<1>4. \A i \in 1..size : cache'[i] \in Keys
  BY <1>0, <1>d, <1>3
<1>5. cache' \in Seq(Keys) /\ Len(cache') <= CacheSize
  <2>1. cache' \in [1..size -> Keys]
    BY <1>1, <1>4
  <2>2. cache' \in Seq(Keys) /\ Len(cache') = size
    BY <2>1, <1>2, SeqDef
  <2> QED BY <1>0, <1>d, <2>2
(* Where a key other than k stood before. *)
<1>6. \A i \in 1..size : i # 1 =>
        \E m \in 1..L : /\ cache'[i] = cache[m] /\ cache[m] # k
                                 /\ m = (IF i <= place THEN i - 1 ELSE i)
  <2> SUFFICES ASSUME NEW i \in 1..size, i # 1
               PROVE  \E m \in 1..L : /\ cache'[i] = cache[m] /\ cache[m] # k
                                               /\ m = (IF i <= place THEN i - 1 ELSE i)
    OBVIOUS
  <2>1. PICK m \in 1..L : cache'[i] = cache[m] /\ m = (IF i <= place THEN i - 1 ELSE i)
    BY <1>3
  <2>2. m # place
    BY <1>2, <2>1
  <2>3. cache[m] # k
    <3>1. CASE Seen(k)
      BY <1>d, <1>i, <1>1, <2>1, <2>2, <3>1 DEF IsInjective
    <3>2. CASE ~Seen(k)
      BY <1>d, <2>1, <3>2 DEF Seen, ToSet
    <3> QED BY <3>1, <3>2
  <2> QED BY <2>1, <2>3
<1>7. IsInjective(cache')
  <2> SUFFICES ASSUME NEW i \in 1..size, NEW j \in 1..size, cache'[i] = cache'[j]
               PROVE  i = j
    BY <1>2 DEF IsInjective
  <2>1. cache'[1] = k
    BY <1>2, <1>3
  <2>2. CASE i = 1 \/ j = 1
    BY <1>6, <2>1, <2>2
  <2>3. CASE i # 1 /\ j # 1
    <3>1. PICK m \in 1..L : cache'[i] = cache[m] /\ m = (IF i <= place THEN i - 1 ELSE i)
      BY <1>6, <2>3
    <3>2. PICK n \in 1..L : cache'[j] = cache[n] /\ n = (IF j <= place THEN j - 1 ELSE j)
      BY <1>6, <2>3
    <3>3. m = n
      BY <1>0, <1>d, <3>1, <3>2 DEF CacheInOrder, IsInjective
    <3>4. m # place /\ n # place
      BY <1>2, <3>1, <3>2
    <3> QED BY <1>2, <3>1, <3>2, <3>3, <3>4
  <2> QED BY <2>2, <2>3
<1>8. \A o \in Keys : o # k => since'[o] = since[o] \cup {k}
  OBVIOUS
<1>9. since'[k] = IF Seen(k) THEN since[k] ELSE {}
  OBVIOUS
<1>10. \A o \in Keys : IsFiniteSet(since'[o])
  <2>1. ASSUME NEW o \in Keys, o # k
        PROVE  IsFiniteSet(since'[o])
    <3>1. IsFiniteSet(since[o])
      BY DEF CacheInOrder
    <3>2. IsFiniteSet(since[o] \cup {k})
      BY <3>1, FS_AddElement
    <3> QED BY <1>8, <2>1, <3>2
  <2>2. IsFiniteSet(since'[k])
    BY <1>9, FS_EmptySet DEF CacheInOrder
  <2> QED BY <2>1, <2>2
<1>11. \A i \in 1..size : None \notin since'[cache'[i]]
  <2>0. k # None
    BY NoneAssumption
  <2>1. None \notin since'[cache'[1]]
    <3>1. cache'[1] = k
      BY <1>2, <1>3
    <3>2. Seen(k) => None \notin since[k]
      BY DEF Seen, ToSet, CacheInOrder
    <3> QED BY <1>9, <3>1, <3>2
  <2>2. ASSUME NEW i \in 1..size, i # 1
        PROVE  None \notin since'[cache'[i]]
    <3>1. PICK m \in 1..L : cache'[i] = cache[m] /\ cache[m] # k
      BY <1>6, <2>2
    <3>2. None \notin since[cache[m]] /\ cache[m] \in Keys
      BY <1>0, <1>d, <3>1 DEF CacheInOrder
    <3> QED BY <1>8, <2>0, <3>1, <3>2
  <2> QED BY <2>1, <2>2
<1>12. \A i, j \in 1..size : i < j => cache'[i] \in since'[cache'[j]]
  <2> SUFFICES ASSUME NEW i \in 1..size, NEW j \in 1..size, i < j
               PROVE  cache'[i] \in since'[cache'[j]]
    OBVIOUS
  <2>1. j # 1
    BY <1>2
  <2>2. PICK n \in 1..L : /\ cache'[j] = cache[n] /\ cache[n] # k
                                   /\ n = (IF j <= place THEN j - 1 ELSE j)
    BY <1>6, <2>1
  <2>3. since'[cache'[j]] = since[cache[n]] \cup {k}
    BY <1>0, <1>d, <1>8, <2>2
  <2>4. CASE i = 1
    BY <1>3, <2>3, <2>4
  <2>5. CASE i # 1
    <3>1. PICK m \in 1..L : cache'[i] = cache[m] /\ m = (IF i <= place THEN i - 1 ELSE i)
      BY <1>6, <2>5
    <3>2. m < n
      BY <1>2, <2>2, <3>1
    <3>3. cache[m] \in since[cache[n]]
      BY <1>0, <1>d, <3>2 DEF CacheInOrder
    <3> QED BY <2>3, <3>1, <3>3
  <2> QED BY <2>4, <2>5
<1>13. ASSUME NEW o \in Keys, o \notin ToSet(cache')
       PROVE  None \in since'[o] \/ Cardinality(since'[o]) >= CacheSize
  <2>1. o # k
    BY <1>2, <1>3, <1>13 DEF ToSet
  <2>2. since'[o] = since[o] \cup {k} /\ IsFiniteSet(since[o]) /\ IsFiniteSet(since'[o])
    BY <1>8, <1>10, <2>1 DEF CacheInOrder
  <2>3. CASE ~(o \in ToSet(cache))
    <3>1. None \in since[o] \/ Cardinality(since[o]) >= CacheSize
      BY <2>3 DEF CacheInOrder
    <3>2. Cardinality(since[o]) <= Cardinality(since'[o])
      BY <2>2, FS_Subset
    <3>3. Cardinality(since[o]) \in Nat /\ Cardinality(since'[o]) \in Nat
      BY <2>2, FS_CardinalityType
    <3> QED BY <1>0, <1>d, <2>2, <3>1, <3>2, <3>3
  <2>4. CASE o \in ToSet(cache)      \* o has just been pushed out
    <3>1. PICK m \in 1..L : cache[m] = o
      BY <1>0, <1>d, <2>4 DEF ToSet
    <3>2. ~(m + 1 \in 1..size /\ m + 1 <= place) /\ ~(m \in 1..size /\ m > place)
      BY <1>0, <1>d, <1>2, <1>3, <1>13, <3>1, SMTT(30) DEF ToSet
    <3>3. m # place
      BY <1>1, <2>1, <3>1, <1>0
    <3>4. m = CacheSize /\ L = CacheSize /\ ~Seen(k)
      BY <1>0, <1>d, <1>1, <1>2, <3>1, <3>2, <3>3
    <3> DEFINE f == [i \in 1..CacheSize |-> IF i = CacheSize THEN k ELSE cache[i]]
    <3>5. \A i \in 1..CacheSize : i # CacheSize => cache[i] \in since[o]
      BY <1>0, <1>d, <3>1, <3>4 DEF CacheInOrder
    <3>6. f \in [1..CacheSize -> since'[o]]
      BY <2>2, <3>5
    <3>7. \A i \in 1..CacheSize : cache[i] # k
      BY <1>0, <1>d, <3>4 DEF Seen, ToSet
    <3>8. IsInjective(f)
      BY <1>0, <1>d, <3>4, <3>7 DEF IsInjective, CacheInOrder
    <3> HIDE DEF f
    <3> QED BY <1>0, <1>d, <2>2, <3>6, <3>8, HoldsMany
  <2> QED BY <2>3, <2>4
<1>14. ~twice'
  <2>1. ~Seen(k) => None \in since[k] \/ Cardinality(since[k]) >= CacheSize
    BY DEF Seen, CacheInOrder
  <2>2. Cardinality(since[k]) \in Nat
    BY FS_CardinalityType DEF CacheInOrder
  <2>3. ~(~Seen(k) /\ None \notin since[k] /\ Cardinality(since[k]) < CacheSize)
    BY <1>0, <2>1, <2>2
  <2> QED BY <2>3, Zenon
<1>15. since' \in [Keys -> SUBSET (Keys \cup {None})]
  OBVIOUS
<1>16. CacheInOrder'
  BY <1>2, <1>7, <1>10, <1>11, <1>12, <1>13 DEF CacheInOrder
<1> QED BY <1>5, <1>14, <1>15, <1>16

-----------------------------------------------------------------------------
(* The connections.                                                        *)

Pcs == {"idle", "frame", "resume", "bind", "bound", "register", "unbind", "unbound",
        "offline", "closed"}

(* Fields of the record a handler puts in place of the connection's.       *)
LEMMA ConnFields ==
    ASSUME NEW x \in ConnStates
    PROVE  /\ x.pc \in Pcs /\ x.sock \in BOOLEAN /\ x.user \in Users \cup {None}
           /\ x.room \in Rooms \cup {None} /\ x.arg \in Users \cup {None} /\ x.seen \in Sessions
  BY DEF ConnStates, Pcs

LEMMA MoveFields ==
    ASSUME NEW x \in ConnStates, NEW pc \in Pcs
    PROVE  /\ [x EXCEPT !.pc = pc] \in ConnStates /\ [x EXCEPT !.pc = pc].pc = pc
           /\ [x EXCEPT !.pc = pc].user = x.user /\ [x EXCEPT !.pc = pc].room = x.room
           /\ [x EXCEPT !.pc = pc].arg = x.arg /\ [x EXCEPT !.pc = pc].seen = x.seen
  BY DEF ConnStates, Pcs

(* Closing a socket changes nothing else of a connection.                  *)
Same(x, y) ==
    x.pc = y.pc /\ x.user = y.user /\ x.room = y.room /\ x.arg = y.arg /\ x.seen = y.seen

LEMMA SockFields ==
    ASSUME NEW x \in ConnStates, NEW b \in BOOLEAN
    PROVE  [x EXCEPT !.sock = b] \in ConnStates /\ Same([x EXCEPT !.sock = b], x)
  BY DEF ConnStates, Same

(* One connection becomes rec, up to its socket, the others stay.          *)
Turns(c, rec) ==
    /\ rec \in ConnStates
    /\ conn' \in [Conns -> ConnStates]
    /\ Same(conn'[c], rec)
    /\ \A d \in Conns \ {c} : Same(conn'[d], conn[d])

LEMMA SetTurns ==
    ASSUME conn \in [Conns -> ConnStates], NEW c \in Conns, NEW rec \in ConnStates, Set(c, rec)
    PROVE  Turns(c, rec)
  BY DEF Set, Turns, Same

LEMMA GotoTurns ==
    ASSUME conn \in [Conns -> ConnStates], NEW c \in Conns, NEW pc \in Pcs, Goto(c, pc)
    PROVE  Turns(c, [conn[c] EXCEPT !.pc = pc])
<1>1. [conn[c] EXCEPT !.pc = pc] \in ConnStates
  BY MoveFields
<1>2. Set(c, [conn[c] EXCEPT !.pc = pc])
  BY DEF Set, Goto
<1> QED BY <1>1, <1>2, SetTurns

LEMMA CloseExpiredTurns ==
    ASSUME conn \in [Conns -> ConnStates], NEW c \in Conns, NEW next \in ConnStates,
           CloseExpiredHeartbeats(c, next)
    PROVE  Turns(c, next)
<1> DEFINE x(d) == IF d = c THEN next ELSE conn[d]
           b(d) == x(d).sock /\ \A u \in Expired : users[u] # d
<1>1. \A d \in Conns : x(d) \in ConnStates /\ b(d) \in BOOLEAN
  OBVIOUS
<1>2. \A d \in Conns : conn'[d] = [x(d) EXCEPT !.sock = b(d)]
  BY DEF CloseExpiredHeartbeats
<1>3. conn' = [d \in Conns |-> conn'[d]]
  BY DEF CloseExpiredHeartbeats
<1> HIDE DEF x, b
<1>4. \A d \in Conns : conn'[d] \in ConnStates /\ Same(conn'[d], x(d))
  BY <1>1, <1>2, SockFields
<1>5. conn' \in [Conns -> ConnStates]
  BY <1>3, <1>4
<1>6. x(c) = next /\ \A d \in Conns \ {c} : x(d) = conn[d]
  BY DEF x
<1> QED BY <1>4, <1>5, <1>6 DEF Turns

(* Nobody is ever turned out of the history of admissions.                 *)
LEMMA AdmittedGrows ==
    ASSUME IInv, [Next]_vars
    PROVE  admitted \subseteq admitted' /\ admitted' \subseteq Rooms \X Users
<1>0. admitted \subseteq Rooms \X Users /\ conn \in [Conns -> ConnStates]
  BY DEF IInv, HubInv, TypeOK
<1>1. ASSUME NEW c \in Conns, NEW r \in Rooms, conn[c].user # None,
             admitted' = admitted \cup {<<r, conn[c].user>>} \/ admitted' = admitted
      PROVE  admitted \subseteq admitted' /\ admitted' \subseteq Rooms \X Users
  <2>1. conn[c].user \in Users
    BY <1>0, <1>1, ConnFields
  <2> QED BY <1>0, <1>1, <2>1
<1>2. ASSUME NEW c \in Conns, JoinRoom(c)
      PROVE  admitted \subseteq admitted' /\ admitted' \subseteq Rooms \X Users
  BY <1>1, <1>2 DEF JoinRoom, AskRoom
<1>3. ASSUME NEW c \in Conns, NEW kind \in Kinds, NEW rs \in SUBSET Rooms, EnterByLobby(c, kind, rs)
      PROVE  admitted \subseteq admitted' /\ admitted' \subseteq Rooms \X Users
  BY <1>0, <1>1, <1>3 DEF EnterByLobby
<1>4. ASSUME NEW c \in Conns, AutoMatch(c) \/ CreateRoom(c)
      PROVE  admitted \subseteq admitted' /\ admitted' \subseteq Rooms \X Users
  <2>1. \E kind \in Kinds, rs \in SUBSET Rooms : EnterByLobby(c, kind, rs)
    BY <1>4 DEF AutoMatch, CreateRoom, Kinds
  <2> QED BY <1>3, <2>1
<1>5. ASSUME NEW c \in Conns,
             \/ ReadFrame(c) \/ LoginIssue(c) \/ LoginResume(c) \/ LoginResumed(c) \/ Heartbeat(c)
             \/ Limited(c) \/ Ask(c) \/ BindRead(c) \/ BindWrite(c) \/ Enter(c) \/ Act(c)
             \/ LeaveRoom(c) \/ UnbindRead(c) \/ UnbindWrite(c) \/ ReadFails(c) \/ Cleanup(c)
             \/ ClientDies(c) \/ WriteOut(c)
      PROVE  admitted' = admitted
  BY <1>5 DEF ReadFrame, LoginIssue, LoginResume, LoginResumed, Heartbeat, Limited, Ask, BindRead,
     BindWrite, Enter, Act, LeaveRoom, UnbindRead, UnbindWrite, ReadFails, Cleanup, ClientDies, WriteOut
<1>6. ASSUME \/ \E r \in Rooms : BroadcastDeliveredUsers(r)
             \/ \E u \in Users : SendToUser(u)
             \/ CursorRead \/ CursorWrite \/ CloseAll \/ Tick \/ UNCHANGED vars
      PROVE  admitted' = admitted
  BY <1>6 DEF BroadcastDeliveredUsers, SendToUser, Deliver, CursorRead, CursorWrite, CloseAll, Tick
<1> QED BY <1>0, <1>2, <1>4, <1>5, <1>6 DEF Next, Handle

(* What every step does to the connections: they stay typed and fit what   *)
(* was admitted, and only Cleanup closes one.                              *)
ConnsStand ==
    /\ conn' \in [Conns -> ConnStates]
    /\ \A c \in Conns : HandlerFits(conn[c])'
    /\ \A c \in Conns : conn'[c].pc = "closed" =>
         (conn[c].pc = "closed" /\ conn'[c].user = conn[c].user) \/ Cleanup(c)

(* HandlerFits once the history of admissions has grown. *)
FitsNow(x) ==
    /\ x.pc \in {"bind", "bound", "register"} => <<x.room, x.user>> \in admitted'
    /\ x.pc \in {"unbind", "unbound"} => x.user # None
    /\ x.pc = "resume" => /\ x.arg # None
                          /\ x.seen.room # None => <<x.seen.room, x.arg>> \in admitted'

LEMMA OneTurn ==
    ASSUME IInv, admitted \subseteq admitted', NEW c \in Conns, NEW rec, Turns(c, rec), FitsNow(rec),
           rec.pc # "closed" \/ Cleanup(c)
    PROVE  ConnsStand
<1>0. \A d \in Conns : HandlerFits(conn[d])
  BY DEF IInv, HubInv, RecordsAdmitted
<1>1. \A d \in Conns : conn'[d].pc = "closed" =>
         (conn[d].pc = "closed" /\ conn'[d].user = conn[d].user) \/ Cleanup(d)
  BY DEF Turns, Same
<1>2. \A d \in Conns : FitsNow(conn'[d])
  <2>1. FitsNow(conn'[c])
    BY DEF FitsNow, Turns, Same
  <2>2. \A d \in Conns \ {c} : FitsNow(conn'[d])
    BY <1>0 DEF FitsNow, Turns, Same, HandlerFits, NamesAdmitted
  <2> QED BY <2>1, <2>2
<1>3. \A d \in Conns : HandlerFits(conn[d])'
  BY <1>2 DEF FitsNow, HandlerFits, NamesAdmitted
<1> QED BY <1>1, <1>3 DEF ConnsStand, Turns

(* A step that leaves every connection the same up to its socket.          *)
LEMMA NoTurn ==
    ASSUME IInv, admitted \subseteq admitted', conn' \in [Conns -> ConnStates],
           \A d \in Conns : Same(conn'[d], conn[d])
    PROVE  ConnsStand
<1>0. \A d \in Conns : HandlerFits(conn[d])
  BY DEF IInv, HubInv, RecordsAdmitted
<1>1. \A d \in Conns : FitsNow(conn'[d])
  BY <1>0 DEF FitsNow, Same, HandlerFits, NamesAdmitted
<1>2. \A d \in Conns : HandlerFits(conn[d])'
  BY <1>1 DEF FitsNow, HandlerFits, NamesAdmitted
<1> QED BY <1>2 DEF ConnsStand, Same

(* A handler that only moves on, to a place where nothing is expected.     *)
LEMMA PlainTurn ==
    ASSUME IInv, admitted \subseteq admitted', NEW c \in Conns, NEW pc \in {"idle", "frame", "offline"},
           Goto(c, pc)
    PROVE  ConnsStand
<1>1. conn \in [Conns -> ConnStates] /\ pc \in Pcs
  BY DEF IInv, HubInv, TypeOK, Pcs
<1>2. Turns(c, [conn[c] EXCEPT !.pc = pc])
  BY <1>1, GotoTurns
<1>3. [conn[c] EXCEPT !.pc = pc].pc = pc
  BY <1>1, MoveFields
<1>4. FitsNow([conn[c] EXCEPT !.pc = pc])
  BY <1>3 DEF FitsNow
<1> QED BY <1>2, <1>3, <1>4, OneTurn

LEMMA ConnStep ==
    ASSUME IInv, [Next]_vars
    PROVE  ConnsStand
<1>0. /\ conn \in [Conns -> ConnStates] /\ session \in [Users -> Sessions]
      /\ \A u \in Users : NamesAdmitted(u, session[u])
      /\ \A d \in Conns : HandlerFits(conn[d])
      /\ admitted \subseteq Rooms \X Users /\ None \notin Users
  BY NoneAssumption DEF IInv, HubInv, TypeOK, RecordsAdmitted
<1>a. admitted \subseteq admitted'
  BY AdmittedGrows
<1>p. {"idle", "frame", "resume", "bind", "bound", "register", "unbind", "unbound", "offline", "closed"} = Pcs
  BY DEF Pcs
<1>n. NoSession \in Sessions
  BY DEF NoSession, Sessions
<1>1. ASSUME NEW c \in Conns, ReadFrame(c)
      PROVE  ConnsStand
  <2> DEFINE r == [conn[c] EXCEPT !.pc = "frame"]
  <2>1. r \in ConnStates /\ r.pc = "frame"
    BY <1>0, <1>p, MoveFields
  <2>2. Turns(c, r)
    BY <1>0, <1>1, <2>1, CloseExpiredTurns DEF ReadFrame
  <2> HIDE DEF r
  <2>3. FitsNow(r)
    BY <2>1 DEF FitsNow
  <2> QED BY <1>a, <2>1, <2>2, <2>3, OneTurn
<1>2. ASSUME NEW c \in Conns, LoginIssue(c)
      PROVE  ConnsStand
  <2>1. PICK u \in Users : Set(c, [conn[c] EXCEPT !.pc = "idle", !.user = u])
    BY <1>2 DEF LoginIssue
  <2> DEFINE r == [conn[c] EXCEPT !.pc = "idle", !.user = u]
  <2>2. r \in ConnStates /\ r.pc = "idle"
    BY <1>0 DEF ConnStates
  <2>3. Turns(c, r)
    BY <1>0, <2>1, <2>2, SetTurns
  <2> HIDE DEF r
  <2>4. FitsNow(r)
    BY <2>2 DEF FitsNow
  <2> QED BY <1>a, <2>2, <2>3, <2>4, OneTurn
<1>3. ASSUME NEW c \in Conns, LoginResume(c)
      PROVE  ConnsStand
  <2>1. PICK u \in Users : Set(c, [conn[c] EXCEPT !.pc = "resume", !.arg = u, !.seen = session[u]])
    BY <1>3 DEF LoginResume
  <2> DEFINE r == [conn[c] EXCEPT !.pc = "resume", !.arg = u, !.seen = session[u]]
  <2>2. r \in ConnStates /\ r.pc = "resume" /\ r.arg = u /\ r.seen = session[u]
    BY <1>0 DEF ConnStates
  <2>3. Turns(c, r)
    BY <1>0, <2>1, <2>2, SetTurns
  <2> HIDE DEF r
  <2>4. FitsNow(r)
    BY <1>0, <1>a, <2>2 DEF FitsNow, NamesAdmitted
  <2> QED BY <1>a, <2>2, <2>3, <2>4, OneTurn
<1>4. ASSUME NEW c \in Conns, LoginResumed(c)
      PROVE  ConnsStand
  <2> DEFINE back == [conn[c] EXCEPT !.pc = "idle", !.arg = None, !.seen = NoSession]
             in == [back EXCEPT !.user = conn[c].arg, !.room = conn[c].seen.room]
  <2>1. Set(c, back) \/ Set(c, in)
    BY <1>4 DEF LoginResumed
  <2>2. back \in ConnStates /\ back.pc = "idle"
    BY <1>0, <1>n DEF ConnStates
  <2>3. conn[c].arg \in Users \cup {None} /\ conn[c].seen.room \in Rooms \cup {None}
    BY <1>0, ConnFields DEF Sessions
  <2>4. in \in ConnStates /\ in.pc = "idle"
    BY <2>2, <2>3 DEF ConnStates
  <2>5. Turns(c, back) \/ Turns(c, in)
    BY <1>0, <2>1, <2>2, <2>4, SetTurns
  <2> HIDE DEF back, in
  <2>6. FitsNow(back) /\ FitsNow(in)
    BY <2>2, <2>4 DEF FitsNow
  <2> QED BY <1>a, <2>2, <2>4, <2>5, <2>6, OneTurn
<1>5. ASSUME NEW c \in Conns, Heartbeat(c) \/ Limited(c) \/ Ask(c) \/ Act(c) \/ ReadFails(c)
      PROVE  ConnsStand
  <2>1. Goto(c, "idle") \/ Goto(c, "offline")
    BY <1>5 DEF Heartbeat, Limited, Ask, Act, ReadFails
  <2> QED BY <1>a, <2>1, PlainTurn
<1>6. ASSUME NEW c \in Conns, NEW r \in Rooms, conn[c].user # None,
             \/ /\ Set(c, [conn[c] EXCEPT !.room = r, !.pc = "bind"])
                /\ admitted' = admitted \cup {<<r, conn[c].user>>}
             \/ Set(c, [conn[c] EXCEPT !.room = r, !.pc = "idle"])
      PROVE  ConnsStand
  <2> DEFINE in == [conn[c] EXCEPT !.room = r, !.pc = "bind"]
             no == [conn[c] EXCEPT !.room = r, !.pc = "idle"]
  <2>1. in \in ConnStates /\ in.pc = "bind" /\ in.room = r /\ in.user = conn[c].user
    BY <1>0 DEF ConnStates
  <2>2. no \in ConnStates /\ no.pc = "idle"
    BY <1>0 DEF ConnStates
  <2>3. \/ Turns(c, in) /\ admitted' = admitted \cup {<<r, conn[c].user>>}
        \/ Turns(c, no)
    BY <1>0, <1>6, <2>1, <2>2, SetTurns
  <2> HIDE DEF in, no
  <2>4. CASE Turns(c, in) /\ admitted' = admitted \cup {<<r, conn[c].user>>}
    <3>1. FitsNow(in)
      BY <2>1, <2>4 DEF FitsNow
    <3> QED BY <1>a, <2>1, <2>4, <3>1, OneTurn
  <2>5. CASE Turns(c, no)
    <3>1. FitsNow(no)
      BY <2>2 DEF FitsNow
    <3> QED BY <1>a, <2>2, <2>5, <3>1, OneTurn
  <2> QED BY <2>3, <2>4, <2>5
<1>7. ASSUME NEW c \in Conns, JoinRoom(c)
      PROVE  ConnsStand
  BY <1>6, <1>7 DEF JoinRoom, AskRoom
<1>8. ASSUME NEW c \in Conns, NEW kind \in Kinds, NEW rs \in SUBSET Rooms, EnterByLobby(c, kind, rs)
      PROVE  ConnsStand
  <2>1. CASE Goto(c, "idle")
    BY <1>a, <2>1, PlainTurn
  <2>2. ASSUME NEW r \in rs, Set(c, [conn[c] EXCEPT !.room = r, !.pc = "bind"]),
               admitted' = admitted \cup {<<r, conn[c].user>>}
        PROVE  ConnsStand
    <3>1. r \in Rooms /\ conn[c].user # None
      BY <1>8 DEF EnterByLobby
    <3> QED BY <1>6, <2>2, <3>1
  <2> QED BY <1>8, <2>1, <2>2 DEF EnterByLobby
<1>9. ASSUME NEW c \in Conns, AutoMatch(c) \/ CreateRoom(c)
      PROVE  ConnsStand
  <2>1. \E kind \in Kinds, rs \in SUBSET Rooms : EnterByLobby(c, kind, rs)
    BY <1>9 DEF AutoMatch, CreateRoom, Kinds
  <2> QED BY <1>8, <2>1
<1>10. ASSUME NEW c \in Conns, BindRead(c) \/ UnbindRead(c)
       PROVE  ConnsStand
  <2>1. CASE Goto(c, "idle")
    BY <1>a, <2>1, PlainTurn
  <2>2. ASSUME NEW pc \in {"bound", "unbound"},
               pc = "bound" => conn[c].pc = "bind", pc = "unbound" => conn[c].pc = "unbind",
               Set(c, [conn[c] EXCEPT !.pc = pc, !.seen = session[conn[c].user]])
        PROVE  ConnsStand
    <3> DEFINE r == [conn[c] EXCEPT !.pc = pc, !.seen = session[conn[c].user]]
    <3>1. conn[c].user \in Users
      BY <1>0, <2>2, ConnFields DEF HandlerFits
    <3>2. r \in ConnStates /\ r.pc = pc /\ r.user = conn[c].user /\ r.room = conn[c].room
      BY <1>0, <3>1 DEF ConnStates
    <3>3. Turns(c, r)
      BY <1>0, <2>2, <3>2, SetTurns
    <3> HIDE DEF r
    <3>4. FitsNow(r)
      BY <1>0, <1>a, <2>2, <3>2 DEF FitsNow, HandlerFits
    <3> QED BY <1>a, <2>2, <3>2, <3>3, <3>4, OneTurn
  <2> QED BY <1>10, <2>1, <2>2 DEF BindRead, UnbindRead
<1>11. ASSUME NEW c \in Conns, NEW pc \in {"register", "idle"},
              pc = "register" => conn[c].pc = "bound",
              Set(c, [conn[c] EXCEPT !.pc = pc, !.seen = NoSession])
       PROVE  ConnsStand
  <2> DEFINE r == [conn[c] EXCEPT !.pc = pc, !.seen = NoSession]
  <2>1. r \in ConnStates /\ r.pc = pc /\ r.user = conn[c].user /\ r.room = conn[c].room
    BY <1>0, <1>n DEF ConnStates
  <2>2. Turns(c, r)
    BY <1>0, <1>11, <2>1, SetTurns
  <2> HIDE DEF r
  <2>3. FitsNow(r)
    BY <1>0, <1>a, <1>11, <2>1 DEF FitsNow, HandlerFits
  <2> QED BY <1>a, <1>11, <2>1, <2>2, <2>3, OneTurn
<1>12. ASSUME NEW c \in Conns, BindWrite(c) \/ UnbindWrite(c)
       PROVE  ConnsStand
  BY <1>11, <1>12 DEF BindWrite, UnbindWrite
<1>13. ASSUME NEW c \in Conns, Enter(c)
       PROVE  ConnsStand
  BY <1>a, <1>13, PlainTurn DEF Enter
<1>14. ASSUME NEW c \in Conns, LeaveRoom(c)
       PROVE  ConnsStand
  <2>1. CASE Goto(c, "idle")
    BY <1>a, <2>1, PlainTurn
  <2>2. CASE conn[c].user # None /\ Set(c, [conn[c] EXCEPT !.room = None, !.pc = "unbind"])
    <3> DEFINE r == [conn[c] EXCEPT !.room = None, !.pc = "unbind"]
    <3>1. r \in ConnStates /\ r.pc = "unbind" /\ r.user = conn[c].user
      BY <1>0 DEF ConnStates
    <3>2. Turns(c, r)
      BY <1>0, <2>2, <3>1, SetTurns
    <3> HIDE DEF r
    <3>3. FitsNow(r)
      BY <2>2, <3>1 DEF FitsNow
    <3> QED BY <1>a, <3>1, <3>2, <3>3, OneTurn
  <2> QED BY <1>14, <2>1, <2>2 DEF LeaveRoom
<1>15. ASSUME NEW c \in Conns, Cleanup(c)
       PROVE  ConnsStand
  <2>1. CloseConn(c) \in ConnStates /\ CloseConn(c).pc = "closed"
    <3>1. (conn[c].sock /\ c \in writer) \in BOOLEAN
      OBVIOUS
    <3> QED BY <1>0, <3>1 DEF CloseConn, ConnStates
  <2>2. Turns(c, CloseConn(c))
    BY <1>0, <1>15, <2>1, SetTurns DEF Cleanup
  <2>3. FitsNow(CloseConn(c))
    BY <2>1 DEF FitsNow
  <2> QED BY <1>a, <1>15, <2>2, <2>3, OneTurn
<1>16. ASSUME NEW c \in Conns, WriteOut(c)
       PROVE  ConnsStand
  <2>1. CASE conn' = conn
    BY <1>0, <1>a, <2>1, NoTurn DEF Same
  <2>2. CASE conn' = [conn EXCEPT ![c].sock = @ /\ c \notin writer]
    <3>1. PICK b \in BOOLEAN : b = (conn[c].sock /\ c \notin writer)
      OBVIOUS
    <3>2. conn' = [conn EXCEPT ![c] = [conn[c] EXCEPT !.sock = b]]
      BY <2>2, <3>1
    <3>3. [conn[c] EXCEPT !.sock = b] \in ConnStates /\ Same([conn[c] EXCEPT !.sock = b], conn[c])
      BY <1>0, SockFields
    <3>4. conn' \in [Conns -> ConnStates] /\ \A d \in Conns : Same(conn'[d], conn[d])
      BY <1>0, <3>2, <3>3 DEF Same
    <3> QED BY <1>a, <3>4, NoTurn
  <2> QED BY <1>16, <2>1, <2>2 DEF WriteOut
<1>17. CASE CloseAll
  <2> DEFINE b(d) == conn[d].sock /\ \A u \in Users : users[u] # d
  <2>1. conn' = [d \in Conns |-> [conn[d] EXCEPT !.sock = b(d)]]
    BY <1>17 DEF CloseAll
  <2>2. \A d \in Conns : b(d) \in BOOLEAN
    OBVIOUS
  <2> HIDE DEF b
  <2>3. \A d \in Conns : [conn[d] EXCEPT !.sock = b(d)] \in ConnStates /\ Same([conn[d] EXCEPT !.sock = b(d)], conn[d])
    BY <1>0, <2>2, SockFields
  <2>4. conn' \in [Conns -> ConnStates] /\ \A d \in Conns : Same(conn'[d], conn[d])
    BY <2>1, <2>3
  <2> QED BY <1>a, <2>4, NoTurn
<1>18. ASSUME conn' = conn
       PROVE  ConnsStand
  BY <1>0, <1>a, <1>18, NoTurn DEF Same
<1>19. ASSUME \/ \E c \in Conns : ClientDies(c)
              \/ \E r \in Rooms : BroadcastDeliveredUsers(r)
              \/ \E u \in Users : SendToUser(u)
              \/ CursorRead \/ CursorWrite \/ Tick \/ UNCHANGED vars
       PROVE  conn' = conn
  BY <1>19 DEF ClientDies, BroadcastDeliveredUsers, SendToUser, Deliver, CursorRead, CursorWrite, Tick
<1> HIDE DEF vars
<1> QED
  BY <1>1, <1>2, <1>3, <1>4, <1>5, <1>7, <1>9, <1>10, <1>12, <1>13, <1>14, <1>15, <1>16, <1>17,
     <1>18, <1>19 DEF Next, Handle

-----------------------------------------------------------------------------
(* Sessions: what is written back names the room it was read with, the     *)
(* room just joined, or none.                                              *)
SessionsStand ==
    /\ session' \in [Users -> Sessions] /\ pump' \in PumpStates
    /\ \A u \in Users : NamesAdmitted(u, session[u])'
    /\ (pump.who # None => NamesAdmitted(pump.who, pump.seen))'

LEMMA OneSession ==
    ASSUME IInv, admitted \subseteq admitted', NEW u \in Users, NEW rec \in Sessions,
           session' = [session EXCEPT ![u] = rec],
           rec.room # None => <<rec.room, u>> \in admitted'
    PROVE  session' \in [Users -> Sessions] /\ \A v \in Users : NamesAdmitted(v, session[v])'
<1>0. session \in [Users -> Sessions] /\ \A v \in Users : NamesAdmitted(v, session[v])
  BY DEF IInv, HubInv, TypeOK, RecordsAdmitted
<1>1. session' \in [Users -> Sessions]
  BY <1>0
<1>2. \A v \in Users : session'[v].room # None => <<session'[v].room, v>> \in admitted'
  BY <1>0 DEF NamesAdmitted
<1> QED BY <1>1, <1>2 DEF NamesAdmitted

LEMMA SessionStep ==
    ASSUME IInv, [Next]_vars
    PROVE  SessionsStand
<1>0. /\ session \in [Users -> Sessions] /\ pump \in PumpStates /\ conn \in [Conns -> ConnStates]
      /\ \A u \in Users : NamesAdmitted(u, session[u])
      /\ pump.who # None => NamesAdmitted(pump.who, pump.seen)
      /\ \A d \in Conns : HandlerFits(conn[d])
      /\ admitted \subseteq Rooms \X Users /\ None \notin Users /\ events \in Nat /\ users \in [Users -> Conns \cup {None}]
      /\ rooms \subseteq Rooms \X Users
  BY NoneAssumption, BoundAssumption DEF IInv, HubInv, TypeOK, RecordsAdmitted
<1>a. admitted \subseteq admitted'
  BY AdmittedGrows
<1>n. NoSession \in Sessions /\ NoSession.room = None
  BY DEF NoSession, Sessions
<1>u. ASSUME session' = session
      PROVE  session' \in [Users -> Sessions] /\ \A v \in Users : NamesAdmitted(v, session[v])'
  BY <1>0, <1>a, <1>u DEF NamesAdmitted
<1>v. ASSUME pump' = pump
      PROVE  pump' \in PumpStates /\ (pump.who # None => NamesAdmitted(pump.who, pump.seen))'
  BY <1>0, <1>a, <1>v DEF NamesAdmitted
<1>w. ASSUME NEW c \in Conns, NEW u \in Users, NEW x \in Sessions, NEW r \in Rooms \cup {None},
             session' = [session EXCEPT ![u] = [x EXCEPT !.room = r]],
             r # None => <<r, u>> \in admitted, pump' = pump
      PROVE  SessionsStand
  <2>1. [x EXCEPT !.room = r] \in Sessions /\ [x EXCEPT !.room = r].room = r
    BY DEF Sessions
  <2>2. PICK y \in Sessions : y = [x EXCEPT !.room = r]
    BY <2>1
  <2> QED BY <1>a, <1>w, <1>v, <2>1, <2>2, OneSession DEF SessionsStand
<1>1. ASSUME NEW c \in Conns, LoginIssue(c)
      PROVE  SessionsStand
  <2>1. pump' = pump
    BY <1>1 DEF LoginIssue
  <2>2. PICK u \in Users : session' = session \/ session' = [session EXCEPT ![u] = [room |-> None, cursor |-> 0]]
    BY <1>1 DEF LoginIssue
  <2> DEFINE new == [room |-> None, cursor |-> 0]
  <2>3. new \in Sessions /\ new.room = None
    BY DEF Sessions
  <2> HIDE DEF new
  <2>4. session' \in [Users -> Sessions] /\ \A v \in Users : NamesAdmitted(v, session[v])'
    <3>1. CASE session' = session
      BY <1>u, <3>1
    <3>2. CASE session' = [session EXCEPT ![u] = new]
      BY <1>a, <2>3, <3>2, OneSession
    <3> QED BY <2>2, <3>1, <3>2 DEF new
  <2> QED BY <1>v, <2>1, <2>4 DEF SessionsStand
<1>2. ASSUME NEW c \in Conns, BindWrite(c)
      PROVE  SessionsStand
  <2>1. <<conn[c].room, conn[c].user>> \in admitted
    BY <1>0, <1>2 DEF BindWrite, HandlerFits
  <2>2. conn[c].user \in Users /\ conn[c].seen \in Sessions /\ conn[c].room \in Rooms \cup {None}
    BY <1>0, <2>1, ConnFields
  <2>3. /\ session' = [session EXCEPT ![conn[c].user] = [conn[c].seen EXCEPT !.room = conn[c].room]]
        /\ pump' = pump
    BY <1>2 DEF BindWrite
  <2> QED BY <1>w, <2>1, <2>2, <2>3
<1>3. ASSUME NEW c \in Conns, UnbindWrite(c)
      PROVE  SessionsStand
  <2>1. conn[c].user # None
    BY <1>0, <1>3 DEF UnbindWrite, HandlerFits
  <2>2. conn[c].user \in Users /\ conn[c].seen \in Sessions
    BY <1>0, <2>1, ConnFields
  <2>3. /\ session' = [session EXCEPT ![conn[c].user] = [conn[c].seen EXCEPT !.room = None]]
        /\ pump' = pump
    BY <1>3 DEF UnbindWrite
  <2> QED BY <1>w, <2>1, <2>2, <2>3
<1>4. CASE CursorRead
  <2>1. PICK u \in pump.todo : pump' = IF HasSession(u) THEN [pump EXCEPT !.who = u, !.seen = session[u]]
                                       ELSE [pump EXCEPT !.todo = @ \ {u}]
    BY <1>4 DEF CursorRead
  <2>2. session' = session /\ u \in Users /\ pump.who = None
    BY <1>0, <1>4 DEF CursorRead, PumpStates
  <2>3. pump' \in PumpStates
    BY <1>0, <2>1, <2>2 DEF PumpStates
  <2>4. pump'.who # None => pump'.who = u /\ pump'.seen = session[u]
    BY <1>0, <2>1, <2>2 DEF PumpStates
  <2>5. pump'.who # None => (pump'.seen.room # None => <<pump'.seen.room, pump'.who>> \in admitted')
    BY <1>0, <1>a, <2>2, <2>4 DEF NamesAdmitted
  <2> QED BY <1>u, <2>2, <2>3, <2>5 DEF SessionsStand, NamesAdmitted
<1>p. ASSUME NEW T \in SUBSET Users, NEW n \in Nat, pump' = [NoPump EXCEPT !.todo = T, !.seq = n]
      PROVE  pump' \in PumpStates /\ (pump.who # None => NamesAdmitted(pump.who, pump.seen))'
  <2>1. pump' \in PumpStates /\ pump'.who = None
    BY <1>n, <1>p DEF NoPump, PumpStates
  <2> QED BY <2>1
<1>5. CASE CursorWrite
  <2>1. /\ session' = [session EXCEPT ![pump.who] = [pump.seen EXCEPT !.cursor = pump.seq]]
        /\ pump' = [NoPump EXCEPT !.todo = pump.todo \ {pump.who}, !.seq = pump.seq]
        /\ pump.who # None
    BY <1>5 DEF CursorWrite
  <2>2. pump.who \in Users /\ pump.seen \in Sessions /\ pump.seq \in Nat /\ pump.todo \ {pump.who} \in SUBSET Users
    BY <1>0, <2>1 DEF PumpStates
  <2> DEFINE r == [pump.seen EXCEPT !.cursor = pump.seq]
  <2>3. r \in Sessions /\ r.room = pump.seen.room
    BY <2>2 DEF Sessions
  <2> HIDE DEF r
  <2>4. r.room # None => <<r.room, pump.who>> \in admitted'
    BY <1>0, <1>a, <2>1, <2>3 DEF NamesAdmitted
  <2>5. session' = [session EXCEPT ![pump.who] = r]
    BY <2>1 DEF r
  <2>6. session' \in [Users -> Sessions] /\ \A v \in Users : NamesAdmitted(v, session[v])'
    BY <1>a, <2>2, <2>3, <2>4, <2>5, OneSession
  <2> QED BY <1>p, <2>1, <2>2, <2>6 DEF SessionsStand
<1>6. ASSUME NEW to \in SUBSET Users, NEW from, Deliver(to, from)
      PROVE  SessionsStand
  <2>1. PICK got \in SUBSET to : pump' = [NoPump EXCEPT !.todo = got, !.seq = events + 1]
    BY <1>6 DEF Deliver
  <2>2. session' = session /\ events + 1 \in Nat /\ got \in SUBSET Users
    BY <1>0, <1>6 DEF Deliver
  <2>3. PICK n \in Nat : n = events + 1
    BY <2>2
  <2> QED BY <1>p, <1>u, <2>1, <2>2, <2>3 DEF SessionsStand
<1>7. ASSUME \/ \E r \in Rooms : BroadcastDeliveredUsers(r)
             \/ \E u \in Users : SendToUser(u)
      PROVE  SessionsStand
  <2>1. \A r \in Rooms : {p[2] : p \in {q \in rooms : q[1] = r}} \in SUBSET Users
    BY <1>0
  <2>2. \A u \in Users : {u} \in SUBSET Users
    OBVIOUS
  <2> QED BY <1>6, <1>7, <2>1, <2>2 DEF BroadcastDeliveredUsers, SendToUser
<1>8. ASSUME session' = session, pump' = pump
      PROVE  SessionsStand
  BY <1>u, <1>v, <1>8 DEF SessionsStand
<1>9. ASSUME NEW c \in Conns,
             \/ ReadFrame(c) \/ LoginResume(c) \/ LoginResumed(c) \/ Heartbeat(c)
             \/ Limited(c) \/ Ask(c) \/ JoinRoom(c) \/ AutoMatch(c) \/ CreateRoom(c) \/ BindRead(c)
             \/ Enter(c) \/ Act(c) \/ LeaveRoom(c) \/ UnbindRead(c) \/ ReadFails(c) \/ Cleanup(c)
             \/ ClientDies(c) \/ WriteOut(c)
      PROVE  session' = session /\ pump' = pump
  BY <1>9 DEF ReadFrame, LoginResume, LoginResumed, Heartbeat, Limited, Ask, JoinRoom, AutoMatch,
     CreateRoom, EnterByLobby, BindRead, Enter, Act, LeaveRoom, UnbindRead, ReadFails, Cleanup,
     ClientDies, WriteOut
<1>10. ASSUME CloseAll \/ Tick \/ UNCHANGED vars
       PROVE  session' = session /\ pump' = pump
  BY <1>10 DEF CloseAll, Tick
<1> HIDE DEF vars
<1> QED
  BY <1>1, <1>2, <1>3, <1>4, <1>5, <1>7, <1>8, <1>9, <1>10 DEF Next, Handle

-----------------------------------------------------------------------------
(* The write queues never hold more than their size.                       *)
QueuesStand == queue' \in [Conns -> 0..QueueSize] /\ writer' \subseteq Conns

LEMMA OutStep ==
    ASSUME IInv, [Next]_vars
    PROVE  QueuesStand
<1>0. /\ queue \in [Conns -> 0..QueueSize] /\ writer \subseteq Conns /\ QueueSize \in Nat
      /\ users \in [Users -> Conns \cup {None}] /\ rooms \subseteq Rooms \X Users /\ None \notin Conns
  BY NoneAssumption, SizeAssumption DEF IInv, HubInv, TypeOK
<1>u. ASSUME UNCHANGED out
      PROVE  QueuesStand
  BY <1>0, <1>u DEF QueuesStand
<1>a. ASSUME NEW c \in Conns, Answer(c)
      PROVE  QueuesStand
  BY <1>0, <1>a DEF Answer, QueuesStand
<1>1. ASSUME NEW c \in Conns,
             \/ LoginIssue(c) \/ LoginResumed(c) \/ Heartbeat(c) \/ Ask(c) \/ BindRead(c) \/ Enter(c)
             \/ JoinRoom(c) \/ Act(c) \/ LeaveRoom(c) \/ UnbindRead(c) \/ UnbindWrite(c)
             \/ ReadFrame(c) \/ LoginResume(c) \/ Limited(c) \/ BindWrite(c) \/ ReadFails(c)
             \/ AutoMatch(c) \/ CreateRoom(c) \/ ClientDies(c)
      PROVE  Answer(c) \/ UNCHANGED out
  BY <1>1 DEF LoginIssue, LoginResumed, Heartbeat, Ask, BindRead, Enter, JoinRoom, AskRoom, Act,
     LeaveRoom, UnbindRead, UnbindWrite, ReadFrame, LoginResume, Limited, BindWrite, ReadFails,
     AutoMatch, CreateRoom, EnterByLobby, ClientDies
<1>2. ASSUME NEW c \in Conns, Cleanup(c)
      PROVE  QueuesStand
  BY <1>0, <1>2 DEF Cleanup, QueuesStand
<1>3. ASSUME NEW c \in Conns, WriteOut(c)
      PROVE  QueuesStand
  <2>1. CASE queue' = [queue EXCEPT ![c] = @ - 1] /\ UNCHANGED writer
    <3>1. queue[c] - 1 \in 0..QueueSize
      BY <1>0, <1>3 DEF WriteOut
    <3> QED BY <1>0, <2>1, <3>1 DEF QueuesStand
  <2>2. CASE queue' = [queue EXCEPT ![c] = 0] /\ writer' = writer \ {c}
    BY <1>0, <2>2 DEF QueuesStand
  <2> QED BY <1>3, <2>1, <2>2 DEF WriteOut
<1>4. ASSUME NEW to \in SUBSET Users, NEW from, Deliver(to, from)
      PROVE  QueuesStand
  <2>1. PICK got \in SUBSET to :
           /\ Reached(to, got)
           /\ queue' = [c \in Conns |-> queue[c] + Cardinality({u \in got : users[u] = c})]
           /\ writer' = writer \cup ({users[u] : u \in to} \ {None})
    BY <1>4 DEF Deliver
  <2>2. \A c \in Conns : queue[c] + Cardinality({u \in got : users[u] = c}) <= QueueSize
    BY <2>1 DEF Reached
  <2>3. ASSUME NEW c \in Conns
        PROVE  Cardinality({u \in got : users[u] = c}) \in Nat
    <3>1. {u \in got : users[u] = c} \subseteq Users
      OBVIOUS
    <3>2. IsFiniteSet({u \in got : users[u] = c})
      BY <3>1, UsersAssumption, FS_Subset
    <3> QED BY <3>2, FS_CardinalityType
  <2>4. \A c \in Conns : queue[c] + Cardinality({u \in got : users[u] = c}) \in 0..QueueSize
    <3> TAKE c \in Conns
    <3>1. PICK n \in Nat : n = Cardinality({u \in got : users[u] = c})
      BY <2>3
    <3>2. queue[c] \in Nat /\ queue[c] + n <= QueueSize
      BY <1>0, <2>2, <3>1
    <3>3. queue[c] + n \in 0..QueueSize
      BY <1>0, <3>2
    <3> QED BY <3>1, <3>3
  <2>5. queue' \in [Conns -> 0..QueueSize]
    BY <2>1, <2>4
  <2>6. writer' \subseteq Conns
    BY <1>0, <2>1
  <2> QED BY <2>5, <2>6 DEF QueuesStand
<1>5. ASSUME \/ \E r \in Rooms : BroadcastDeliveredUsers(r)
             \/ \E u \in Users : SendToUser(u)
      PROVE  QueuesStand
  <2>1. \A r \in Rooms : {p[2] : p \in {q \in rooms : q[1] = r}} \in SUBSET Users
    BY <1>0
  <2>2. \A u \in Users : {u} \in SUBSET Users
    OBVIOUS
  <2> QED BY <1>4, <1>5, <2>1, <2>2 DEF BroadcastDeliveredUsers, SendToUser
<1>6. ASSUME CursorRead \/ CursorWrite \/ CloseAll \/ Tick \/ UNCHANGED vars
      PROVE  UNCHANGED out
  BY <1>6 DEF CursorRead, CursorWrite, CloseAll, Tick
<1> HIDE DEF vars, out
<1> QED
  BY <1>u, <1>a, <1>1, <1>2, <1>3, <1>5, <1>6 DEF Next, Handle

-----------------------------------------------------------------------------
(* The hub.                                                                *)
HubTyped ==
    /\ users' \in [Users -> Conns \cup {None}] /\ rooms' \subseteq Rooms \X Users
    /\ beat' \in [Users -> -1..Timeout] /\ newest' \in [Users -> Conns \cup {None}]

(* A user's newest connection is the registered one, with a heartbeat.     *)
HubStands ==
    /\ HubTyped /\ NewestStaysRegistered' /\ RegisteredHasHeartbeat' /\ RegisteredWasAdmitted'
    /\ \A u \in Users, c \in Conns : users'[u] = c =>
         users[u] = c \/ conn'[c].pc \in {"idle", "frame"}

LEMMA HubStep ==
    ASSUME IInv, [Next]_vars
    PROVE  HubStands
<1>0. /\ users \in [Users -> Conns \cup {None}] /\ rooms \subseteq Rooms \X Users
      /\ beat \in [Users -> -1..Timeout] /\ newest \in [Users -> Conns \cup {None}]
      /\ NewestStaysRegistered /\ RegisteredHasHeartbeat /\ rooms \subseteq admitted
      /\ conn \in [Conns -> ConnStates] /\ \A c \in Conns : HandlerFits(conn[c])
      /\ admitted \subseteq Rooms \X Users
  BY DEF IInv, HubInv, TypeOK, RegisteredWasAdmitted, RecordsAdmitted
<1>t. Timeout \in Nat \ {0} /\ None \notin Conns /\ None \notin Users /\ None \notin Rooms
  BY SizeAssumption, NoneAssumption
<1>a. admitted \subseteq admitted'
  BY AdmittedGrows
<1>b. \A x \in {-1, 0} : x \in -1..Timeout
  BY <1>t
<1>u. ASSUME UNCHANGED <<hub, newest>>
      PROVE  HubStands
  BY <1>0, <1>a, <1>u DEF HubStands, HubTyped, NewestStaysRegistered, RegisteredHasHeartbeat, RegisteredWasAdmitted
<1>r. ASSUME NEW c \in Conns, NEW u \in Users, NEW r \in Rooms, <<r, u>> \in admitted, Register(u, r, c),
             newest' = [newest EXCEPT ![u] = c], conn'[c].pc = "idle"
      PROVE  HubStands
  <2>1. HubTyped
    BY <1>0, <1>b, <1>r DEF HubTyped, Register
  <2>2. NewestStaysRegistered'
    BY <1>0, <1>r DEF Register, NewestStaysRegistered
  <2>3. RegisteredHasHeartbeat'
    BY <1>0, <1>t, <1>r DEF Register, RegisteredHasHeartbeat
  <2>4. RegisteredWasAdmitted'
    BY <1>0, <1>a, <1>r DEF Register, RegisteredWasAdmitted
  <2>5. \A v \in Users, d \in Conns : users'[v] = d => users[v] = d \/ conn'[d].pc \in {"idle", "frame"}
    BY <1>0, <1>r DEF Register
  <2> QED BY <2>1, <2>2, <2>3, <2>4, <2>5 DEF HubStands
<1>f. ASSUME NEW gone \in SUBSET Users, NEW from, Forget(gone, from)
      PROVE  HubStands
  <2>1. HubTyped
    BY <1>0, <1>b, <1>f DEF HubTyped, Forget
  <2>2. NewestStaysRegistered'
    BY <1>0, <1>f DEF Forget, NewestStaysRegistered
  <2>3. RegisteredHasHeartbeat'
    BY <1>0, <1>f DEF Forget, RegisteredHasHeartbeat
  <2>4. RegisteredWasAdmitted'
    BY <1>0, <1>a, <1>f DEF Forget, RegisteredWasAdmitted
  <2>5. \A v \in Users, d \in Conns : users'[v] = d => users[v] = d
    BY <1>0, <1>t, <1>f DEF Forget
  <2> QED BY <2>1, <2>2, <2>3, <2>4, <2>5 DEF HubStands
<1>d. ASSUME NEW u \in Users, NEW r, Unregister(u, r),
             newest' \in [Users -> Conns \cup {None}], newest'[u] = None,
             \A v \in Users : newest'[v] \in {newest[v], None}
      PROVE  HubStands
  <2>1. HubTyped
    BY <1>0, <1>b, <1>d DEF HubTyped, Unregister
  <2>2. NewestStaysRegistered'
    BY <1>0, <1>d DEF Unregister, NewestStaysRegistered
  <2>3. RegisteredHasHeartbeat'
    BY <1>0, <1>d DEF Unregister, RegisteredHasHeartbeat
  <2>4. RegisteredWasAdmitted'
    BY <1>0, <1>a, <1>d DEF Unregister, RegisteredWasAdmitted
  <2>5. \A v \in Users, c \in Conns : users'[v] = c => users[v] = c
    BY <1>0, <1>t, <1>d DEF Unregister
  <2> QED BY <2>1, <2>2, <2>3, <2>4, <2>5 DEF HubStands
<1>1. ASSUME NEW c \in Conns, ReadFrame(c)
      PROVE  HubStands
  BY <1>1, <1>f DEF ReadFrame, CloseExpiredHeartbeats, Expired
<1>2. ASSUME NEW c \in Conns, LoginResumed(c)
      PROVE  HubStands
  <2>1. CASE UNCHANGED <<hub, newest>>
    BY <1>u, <2>1
  <2>2. CASE ~UNCHANGED <<hub, newest>>
    <3> DEFINE u == conn[c].arg
               r == conn[c].seen.room
    <3>0. PICK how \in Outcomes(r) :
            /\ Set(c, IF how = "refused" THEN [conn[c] EXCEPT !.pc = "idle", !.arg = None, !.seen = NoSession]
                      ELSE [[conn[c] EXCEPT !.pc = "idle", !.arg = None, !.seen = NoSession] EXCEPT !.user = u, !.room = r])
            /\ IF how = "resumed" THEN Register(u, r, c) /\ newest' = [newest EXCEPT ![u] = c]
               ELSE UNCHANGED <<hub, newest>>
      BY <1>2 DEF LoginResumed
    <3>1. how = "resumed" /\ r # None /\ Register(u, r, c) /\ newest' = [newest EXCEPT ![u] = c]
      BY <2>2, <3>0 DEF Outcomes
    <3>2. conn[c].pc = "resume"
      BY <1>2 DEF LoginResumed
    <3>3. <<r, u>> \in admitted
      BY <1>0, <3>1, <3>2 DEF HandlerFits, NamesAdmitted
    <3>4. r \in Rooms /\ u \in Users
      BY <1>0, <3>3
    <3>5. conn'[c].pc = "idle"
      BY <1>0, <3>0 DEF Set, ConnStates
    <3> HIDE DEF u, r
    <3> QED BY <1>r, <3>1, <3>3, <3>4, <3>5
  <2> QED BY <2>1, <2>2
<1>3. ASSUME NEW c \in Conns, Enter(c)
      PROVE  HubStands
  <2>1. /\ conn[c].pc = "register" /\ Register(conn[c].user, conn[c].room, c)
        /\ newest' = [newest EXCEPT ![conn[c].user] = c] /\ Goto(c, "idle")
    BY <1>3 DEF Enter
  <2>2. <<conn[c].room, conn[c].user>> \in admitted
    BY <1>0, <2>1 DEF HandlerFits
  <2>3. conn[c].room \in Rooms /\ conn[c].user \in Users
    BY <1>0, <2>2
  <2>4. conn'[c].pc = "idle"
    BY <1>0, <2>1 DEF Goto, ConnStates
  <2> QED BY <1>r, <2>1, <2>2, <2>3, <2>4
<1>4. ASSUME NEW c \in Conns, Heartbeat(c)
      PROVE  HubStands
  <2>1. beat' = (IF conn[c].user = None THEN beat ELSE [beat EXCEPT ![conn[c].user] = 0])
        /\ users' = users /\ rooms' = rooms /\ newest' = newest
    BY <1>4 DEF Heartbeat
  <2>2. conn[c].user \in Users \cup {None}
    BY <1>0, ConnFields
  <2>3. beat' \in [Users -> -1..Timeout] /\ \A v \in Users : beat'[v] >= beat[v] \/ beat'[v] = 0
    BY <1>0, <1>b, <1>t, <2>1, <2>2
  <2>4. HubTyped
    BY <1>0, <2>1, <2>3 DEF HubTyped
  <2>5. RegisteredHasHeartbeat'
    <3>1. ASSUME NEW v \in Users, users[v] # None
          PROVE  beat'[v] >= 0
      <4>1. beat[v] >= 0 /\ beat[v] \in Int
        BY <1>0, <1>t, <3>1 DEF RegisteredHasHeartbeat
      <4>2. beat'[v] \in {beat[v], 0}
        BY <1>0, <2>1, <2>2
      <4> QED BY <4>1, <4>2
    <3> QED BY <2>1, <3>1 DEF RegisteredHasHeartbeat
  <2> QED BY <1>0, <1>a, <2>1, <2>4, <2>5 DEF HubStands, NewestStaysRegistered, RegisteredWasAdmitted
<1>5. ASSUME NEW c \in Conns, LeaveRoom(c)
      PROVE  HubStands
  <2>1. CASE UNCHANGED <<hub, newest>>
    BY <1>u, <2>1
  <2>2. CASE /\ conn[c].user # None /\ Unregister(conn[c].user, conn[c].room)
             /\ newest' = [newest EXCEPT ![conn[c].user] = None]
    <3>1. conn[c].user \in Users
      BY <1>0, <2>2, ConnFields
    <3>2. /\ newest' \in [Users -> Conns \cup {None}] /\ newest'[conn[c].user] = None
          /\ \A v \in Users : newest'[v] \in {newest[v], None}
      BY <1>0, <2>2, <3>1
    <3> QED BY <1>d, <2>2, <3>1, <3>2
  <2> QED BY <1>5, <2>1, <2>2 DEF LeaveRoom
<1>6. ASSUME NEW c \in Conns, Cleanup(c)
      PROVE  HubStands
  <2>1. /\ UnregisterConn(conn[c].user, conn[c].room, c)
        /\ newest' = [u \in Users |-> IF newest[u] = c THEN None ELSE newest[u]]
    BY <1>6 DEF Cleanup
  <2>2. newest' \in [Users -> Conns \cup {None}] /\ \A v \in Users : newest'[v] \in {newest[v], None}
    BY <1>0, <2>1
  <2>3. CASE conn[c].user # None /\ users[conn[c].user] = c
    <3>1. conn[c].user \in Users /\ Unregister(conn[c].user, conn[c].room)
      BY <1>0, <2>1, <2>3, ConnFields DEF UnregisterConn
    <3>2. newest'[conn[c].user] = None
      BY <1>0, <2>1, <2>3, <3>1 DEF NewestStaysRegistered
    <3> QED BY <1>d, <2>2, <3>1, <3>2
  <2>4. CASE ~(conn[c].user # None /\ users[conn[c].user] = c)
    <3>1. UNCHANGED hub
      BY <2>1, <2>4 DEF UnregisterConn
    <3>2. HubTyped
      BY <1>0, <2>2, <3>1 DEF HubTyped
    <3>3. NewestStaysRegistered'
      BY <1>0, <2>2, <3>1 DEF NewestStaysRegistered
    <3> QED BY <1>0, <1>a, <3>1, <3>2, <3>3 DEF HubStands, RegisteredHasHeartbeat, RegisteredWasAdmitted
  <2> QED BY <2>3, <2>4
<1>7. ASSUME NEW to \in SUBSET Users, NEW from, Deliver(to, from)
      PROVE  HubStands
  <2>1. PICK got \in SUBSET to : Forget(to \ got, from)
    BY <1>7 DEF Deliver
  <2>2. to \ got \in SUBSET Users
    OBVIOUS
  <2> QED BY <1>f, <2>1, <2>2
<1>8. ASSUME \/ \E r \in Rooms : BroadcastDeliveredUsers(r)
             \/ \E u \in Users : SendToUser(u)
      PROVE  HubStands
  <2>1. \A r \in Rooms : {p[2] : p \in {q \in rooms : q[1] = r}} \in SUBSET Users
    BY <1>0
  <2>2. \A u \in Users : {u} \in SUBSET Users
    OBVIOUS
  <2> QED BY <1>7, <1>8, <2>1, <2>2 DEF BroadcastDeliveredUsers, SendToUser
<1>9. CASE CloseAll
  BY <1>9, <1>f DEF CloseAll
<1>10. CASE Tick
  <2>1. /\ beat' = [u \in Users |-> IF beat[u] \in 0..(Timeout - 1) THEN beat[u] + 1 ELSE beat[u]]
        /\ users' = users /\ rooms' = rooms /\ newest' = newest
    BY <1>10 DEF Tick
  <2>2. beat' \in [Users -> -1..Timeout] /\ \A v \in Users : beat'[v] >= beat[v]
    BY <1>0, <1>t, <2>1
  <2>3. HubTyped
    BY <1>0, <2>1, <2>2 DEF HubTyped
  <2>4. RegisteredHasHeartbeat'
    <3>1. ASSUME NEW v \in Users, users[v] # None
          PROVE  beat'[v] >= 0
      <4>1. beat[v] >= 0 /\ beat[v] \in Int /\ beat'[v] >= beat[v] /\ beat'[v] \in Int
        BY <1>0, <1>t, <2>2, <3>1 DEF RegisteredHasHeartbeat
      <4> QED BY <4>1
    <3> QED BY <2>1, <3>1 DEF RegisteredHasHeartbeat
  <2> QED BY <1>0, <1>a, <2>1, <2>3, <2>4 DEF HubStands, NewestStaysRegistered, RegisteredWasAdmitted
<1>11. ASSUME NEW c \in Conns,
              \/ LoginIssue(c) \/ LoginResume(c) \/ Limited(c) \/ Ask(c) \/ JoinRoom(c) \/ AutoMatch(c)
              \/ CreateRoom(c) \/ BindRead(c) \/ BindWrite(c) \/ Act(c) \/ UnbindRead(c)
              \/ UnbindWrite(c) \/ ReadFails(c) \/ ClientDies(c) \/ WriteOut(c)
       PROVE  UNCHANGED <<hub, newest>>
  BY <1>11 DEF LoginIssue, LoginResume, Limited, Ask, JoinRoom, AutoMatch, CreateRoom, EnterByLobby,
     BindRead, BindWrite, Act, UnbindRead, UnbindWrite, ReadFails, ClientDies, WriteOut
<1>12. ASSUME CursorRead \/ CursorWrite \/ UNCHANGED vars
       PROVE  UNCHANGED <<hub, newest>>
  BY <1>12 DEF CursorRead, CursorWrite
<1> HIDE DEF vars, hub
<1> QED
  BY <1>u, <1>1, <1>2, <1>3, <1>4, <1>5, <1>6, <1>8, <1>9, <1>10, <1>11, <1>12 DEF Next, Handle

LEMMA ClosedStep ==
    ASSUME IInv, [Next]_vars
    PROVE  ClosedIsForgotten'
<1>0. conn \in [Conns -> ConnStates] /\ ClosedIsForgotten /\ users \in [Users -> Conns \cup {None}]
      /\ None \notin Users /\ None \notin Conns
  BY NoneAssumption DEF IInv, HubInv, TypeOK
<1>1. ConnsStand /\ HubStands
  BY ConnStep, HubStep
<1> SUFFICES ASSUME NEW c \in Conns, NEW u \in Users, conn'[c].pc = "closed", conn'[c].user = u
             PROVE  users'[u] # c
  BY DEF ClosedIsForgotten
<1>2. users'[u] = c => users[u] = c
  BY <1>1 DEF HubStands
<1>3. CASE conn[c].pc = "closed" /\ conn'[c].user = conn[c].user
  BY <1>0, <1>2, <1>3 DEF ClosedIsForgotten
<1>4. CASE Cleanup(c)
  <2>1. conn' = [conn EXCEPT ![c] = CloseConn(c)] /\ UnregisterConn(conn[c].user, conn[c].room, c)
    BY <1>4 DEF Cleanup, Set
  <2>2. conn[c].user = u
    BY <1>0, <2>1 DEF CloseConn, ConnStates
  <2>3. CASE users[u] = c
    <3>1. users' = [users EXCEPT ![u] = None]
      BY <1>0, <2>1, <2>2, <2>3 DEF UnregisterConn, Unregister
    <3> QED BY <1>0, <3>1
  <2> QED BY <1>2, <2>3
<1> QED BY <1>1, <1>3, <1>4 DEF ConnsStand

(* The cache changes only where a key is used.                             *)
CacheStands ==
    /\ cache' \in Seq(Keys) /\ Len(cache') <= CacheSize /\ CacheInOrder' /\ ~twice'
    /\ since' \in [Keys -> SUBSET (Keys \cup {None})] /\ twice' \in BOOLEAN

LEMMA CacheStep ==
    ASSUME IInv, [Next]_vars
    PROVE  CacheStands
<1>0. /\ cache \in Seq(Keys) /\ Len(cache) <= CacheSize /\ CacheInOrder /\ ~twice
      /\ since \in [Keys -> SUBSET (Keys \cup {None})]
  BY DEF IInv, HubInv, TypeOK, KeyRunsOnce
<1>u. ASSUME UNCHANGED <<cache, since, twice>>
      PROVE  CacheStands
  <2>1. twice' \in BOOLEAN
    BY <1>u DEF IInv, HubInv, TypeOK
  <2> QED BY <1>0, <1>u, <2>1 DEF CacheStands, CacheInOrder
<1>1. ASSUME NEW k \in Keys, UseKey(k)
      PROVE  CacheStands
  <2>1. /\ cache' = SeenOrStore(k)
        /\ since' = [o \in Keys |-> IF o = k THEN (IF Seen(k) THEN since[k] ELSE {})
                                    ELSE since[o] \cup {k}]
        /\ twice' = (twice \/ (~Seen(k) /\ None \notin since[k]
                               /\ Cardinality(since[k]) < CacheSize))
    BY <1>1 DEF UseKey
  <2>2. twice' \in BOOLEAN
    BY <2>1, Zenon
  <2> QED BY <1>0, <2>1, <2>2, UseKeepsOrder DEF CacheStands
<1>4. ASSUME NEW c \in Conns, NEW kind \in Kinds, Passes(c, kind) \/ Dropped(c, kind)
      PROVE  CacheStands
  <2>1. conn[c].user \in Users \cup {None}
    BY ConnFields DEF IInv, HubInv, TypeOK
  <2>2. \A i \in Ids : <<kind, conn[c].user, i>> \in Keys
    BY <2>1 DEF Keys
  <2> QED BY <1>u, <1>1, <1>4, <2>2 DEF Passes, Dropped
<1>5. ASSUME NEW c \in Conns, AutoMatch(c) \/ CreateRoom(c) \/ Act(c) \/ LeaveRoom(c)
      PROVE  CacheStands
  <2>1. \E kind \in Kinds : Passes(c, kind) \/ Dropped(c, kind)
    BY <1>5 DEF AutoMatch, CreateRoom, EnterByLobby, Act, LeaveRoom, Kinds
  <2> QED BY <1>4, <2>1
<1>2. ASSUME NEW c \in Conns,
             \/ ReadFrame(c) \/ LoginIssue(c) \/ LoginResume(c) \/ LoginResumed(c) \/ Heartbeat(c)
             \/ Limited(c) \/ Ask(c) \/ JoinRoom(c) \/ BindRead(c)
             \/ BindWrite(c) \/ Enter(c) \/ UnbindRead(c) \/ UnbindWrite(c)
             \/ ReadFails(c) \/ Cleanup(c) \/ ClientDies(c) \/ WriteOut(c)
      PROVE  UNCHANGED <<cache, since, twice>>
  BY <1>2 DEF ReadFrame, LoginIssue, LoginResume, LoginResumed, Heartbeat, Limited, Ask, JoinRoom,
     BindRead, BindWrite, Enter, UnbindRead, UnbindWrite, ReadFails, Cleanup, ClientDies, WriteOut
<1>3. ASSUME \/ \E r \in Rooms : BroadcastDeliveredUsers(r)
             \/ \E u \in Users : SendToUser(u)
             \/ CursorRead \/ CursorWrite \/ CloseAll \/ Tick \/ UNCHANGED vars
      PROVE  UNCHANGED <<cache, since, twice>>
  BY <1>3 DEF BroadcastDeliveredUsers, SendToUser, Deliver, CursorRead, CursorWrite, CloseAll, Tick
<1> HIDE DEF vars
<1> QED BY <1>u, <1>2, <1>3, <1>5 DEF Next, Handle

(* The counters keep to their bounds and the dead stay dead.               *)
LEMMA CountStep ==
    ASSUME IInv, [Next]_vars
    PROVE  alive' \subseteq Conns /\ frames' \in 0..MaxFrames /\ events' \in 0..MaxEvents
<1>0. /\ alive \subseteq Conns /\ frames \in 0..MaxFrames /\ events \in 0..MaxEvents
      /\ MaxFrames \in Nat /\ MaxEvents \in Nat
  BY BoundAssumption DEF IInv, HubInv, TypeOK
<1> DEFINE Goal == alive' \subseteq Conns /\ frames' \in 0..MaxFrames /\ events' \in 0..MaxEvents
<1>1. ASSUME NEW c \in Conns, ReadFrame(c)
      PROVE  Goal
  BY <1>0, <1>1 DEF ReadFrame
<1>2. ASSUME NEW c \in Conns, ClientDies(c)
      PROVE  Goal
  BY <1>0, <1>2 DEF ClientDies
<1>3. ASSUME \/ \E r \in Rooms : BroadcastDeliveredUsers(r)
             \/ \E u \in Users : SendToUser(u)
             \/ CloseAll
      PROVE  Goal
  <2>1. alive' = alive /\ frames' = frames /\ (events' = events + 1 \/ events' = MaxEvents) /\ events < MaxEvents
    BY <1>3 DEF BroadcastDeliveredUsers, SendToUser, Deliver, CloseAll
  <2> QED BY <1>0, <2>1
<1>4. ASSUME UNCHANGED <<alive, frames, events>>
      PROVE  Goal
  BY <1>0, <1>4
<1>5. ASSUME NEW c \in Conns,
             \/ LoginIssue(c) \/ LoginResume(c) \/ LoginResumed(c) \/ Heartbeat(c) \/ Act(c)
             \/ Limited(c) \/ Ask(c) \/ JoinRoom(c) \/ AutoMatch(c) \/ CreateRoom(c) \/ BindRead(c)
             \/ BindWrite(c) \/ Enter(c) \/ LeaveRoom(c) \/ UnbindRead(c) \/ UnbindWrite(c)
             \/ ReadFails(c) \/ Cleanup(c) \/ WriteOut(c)
      PROVE  UNCHANGED <<alive, frames, events>>
  BY <1>5 DEF LoginIssue, LoginResume, LoginResumed, Heartbeat, Act, Limited, Ask, JoinRoom,
     AutoMatch, CreateRoom, EnterByLobby, BindRead, BindWrite, Enter, LeaveRoom, UnbindRead,
     UnbindWrite, ReadFails, Cleanup, WriteOut
<1>6. ASSUME CursorRead \/ CursorWrite \/ Tick \/ UNCHANGED vars
      PROVE  UNCHANGED <<alive, frames, events>>
  BY <1>6 DEF CursorRead, CursorWrite, Tick
<1> HIDE DEF vars, Goal
<1>7. Goal
  BY <1>1, <1>2, <1>3, <1>4, <1>5, <1>6 DEF Next, Handle
<1> QED BY <1>7 DEF Goal

-----------------------------------------------------------------------------
(* The invariants of the gate hold in every state, whatever connections    *)
(* die, queues fill up, heartbeats expire and handlers overlap.            *)
THEOREM GateInductive == Spec => []IInv
<1>1. Init => IInv
  <2> SUFFICES ASSUME Init PROVE IInv
    OBVIOUS
  <2>0. /\ {CacheSize, QueueSize, Timeout} \subseteq Nat \ {0} /\ {MaxFrames, MaxEvents} \subseteq Nat
        /\ None \notin Users \cup Keys
    BY SizeAssumption, BoundAssumption, NoneAssumption
  <2>1. NoSession \in Sessions /\ NoSession.room = None
    BY DEF NoSession, Sessions
  <2>2. NewConn \in ConnStates /\ NewConn.pc = "idle"
    BY <2>1 DEF NewConn, ConnStates
  <2>3. NoPump \in PumpStates /\ NoPump.who = None
    BY <2>1 DEF NoPump, PumpStates
  <2>4. cache \in Seq(Keys) /\ Len(cache) = 0 /\ DOMAIN cache = {} /\ IsInjective(cache) /\ ToSet(cache) = {}
    BY EmptySeq DEF Init, IsInjective, ToSet
  <2>5. TypeOK
    <3>1. conn \in [Conns -> ConnStates] /\ session \in [Users -> Sessions] /\ pump \in PumpStates
      BY <2>1, <2>2, <2>3 DEF Init
    <3>2. queue \in [Conns -> 0..QueueSize] /\ beat \in [Users -> -1..Timeout]
      BY <2>0 DEF Init
    <3>3. frames \in 0..MaxFrames /\ events \in 0..MaxEvents
      BY <2>0 DEF Init
    <3>4. Len(cache) <= CacheSize
      BY <2>0, <2>4
    <3> QED BY <2>4, <3>1, <3>2, <3>3, <3>4 DEF Init, TypeOK
  <2>6. NewestStaysRegistered /\ ClosedIsForgotten /\ RegisteredHasHeartbeat /\ RegisteredWasAdmitted
    BY <2>2 DEF Init, NewestStaysRegistered, ClosedIsForgotten, RegisteredHasHeartbeat, RegisteredWasAdmitted
  <2>7. RecordsAdmitted
    BY <2>1, <2>2, <2>3 DEF Init, RecordsAdmitted, NamesAdmitted, HandlerFits
  <2>8. CacheInOrder
    <3>1. \A k \in Keys : since[k] = {None}
      BY DEF Init
    <3>2. IsFiniteSet({None})
      BY FS_Singleton
    <3> QED BY <2>4, <3>1, <3>2 DEF CacheInOrder
  <2> QED BY <2>5, <2>6, <2>7, <2>8 DEF Init, IInv, HubInv, KeyRunsOnce
<1>2. IInv /\ [Next]_vars => IInv'
  <2> SUFFICES ASSUME IInv, [Next]_vars PROVE IInv'
    OBVIOUS
  <2>1. ConnsStand /\ SessionsStand /\ QueuesStand /\ HubStands /\ CacheStands /\ ClosedIsForgotten'
    BY ConnStep, SessionStep, OutStep, HubStep, CacheStep, ClosedStep
  <2>2. /\ alive' \subseteq Conns /\ frames' \in 0..MaxFrames /\ events' \in 0..MaxEvents
        /\ admitted' \subseteq Rooms \X Users
    BY CountStep, AdmittedGrows
  <2>t. twice' \in BOOLEAN
    BY <2>1 DEF CacheStands
  <2>s. Sessions' = Sessions /\ ConnStates' = ConnStates /\ PumpStates' = PumpStates
    BY DEF Sessions, ConnStates, PumpStates
  <2>3. TypeOK'
    <3>1. conn' \in [Conns -> ConnStates'] /\ session' \in [Users -> Sessions'] /\ pump' \in PumpStates'
      BY <2>1, <2>s DEF ConnsStand, SessionsStand
    <3>2. queue' \in [Conns -> 0..QueueSize] /\ writer' \subseteq Conns
      BY <2>1 DEF QueuesStand
    <3>3. /\ users' \in [Users -> Conns \cup {None}] /\ rooms' \subseteq Rooms \X Users
          /\ beat' \in [Users -> -1..Timeout] /\ newest' \in [Users -> Conns \cup {None}]
      BY <2>1 DEF HubStands, HubTyped
    <3>4. /\ cache' \in Seq(Keys) /\ Len(cache') <= CacheSize
          /\ since' \in [Keys -> SUBSET (Keys \cup {None})]
      BY <2>1 DEF CacheStands
    <3> QED BY <2>2, <2>t, <3>1, <3>2, <3>3, <3>4 DEF TypeOK
  <2>4. RecordsAdmitted'
    BY <2>1 DEF RecordsAdmitted, ConnsStand, SessionsStand
  <2> QED BY <2>1, <2>3, <2>4 DEF IInv, HubInv, KeyRunsOnce, HubStands, CacheStands
<1> QED BY <1>1, <1>2, PTL DEF Spec

(* The hub holds the newest connection of every user, each with a          *)
(* heartbeat that can expire, none that is closed, and only for rooms that *)
(* took the user in; sessions name only such rooms, and write queues and   *)
(* the cache keep to their size and order (session/hub, writer, manager).  *)
THEOREM HubSound == Spec => []HubInv
<1>1. IInv => HubInv
  BY DEF IInv
<1> QED BY <1>1, GateInductive, PTL

(* A request with an idempotency key runs once, unless at least CacheSize  *)
(* other keys of its user were used since: for every capacity and every    *)
(* order of requests (shouldDropRequest, SeenOrStore).                     *)
THEOREM KeySound == Spec => []KeyRunsOnce
<1>1. IInv => KeyRunsOnce
  BY DEF IInv
<1> QED BY <1>1, GateInductive, PTL
=============================================================================
