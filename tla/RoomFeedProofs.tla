--------------------------- MODULE RoomFeedProofs ---------------------------
(***************************************************************************)
(* Theorems about RoomFeed, for any number of pollers, events, logins and  *)
(* faults.  FeedInv without the bound on the list's length is inductive;   *)
(* the bound follows from it, because a list without repetitions over the  *)
(* stored events is no longer than their number.                           *)
(***************************************************************************)
EXTENDS RoomFeed, SequenceTheorems, FiniteSetTheorems, TLAPS

USE DEF vars

Typed ==
    /\ stored \in 0..MaxEvents /\ pushing \subseteq 1..stored
    /\ list \in Seq(1..stored)
    /\ handle \in Pollers \cup {None}
    /\ poller \in [Pollers -> PollerStates] /\ client \in ClientStates
    /\ registered \in BOOLEAN
    /\ shown \subseteq 1..stored /\ lost \subseteq 1..stored
    /\ logins \in 0..MaxLogins /\ faults \in 0..MaxFaults

IInv == Typed /\ PushedOnce /\ PollersFit /\ NothingSlips

-----------------------------------------------------------------------------
(* The list.                                                               *)

(* What a push does to the elements of a list.                             *)
LEMMA PushElements ==
    ASSUME NEW S, NEW s \in Seq(S), NEW e \in S
    PROVE  /\ ToSet(Append(s, e)) = ToSet(s) \cup {e}
           /\ IsInjective(s) /\ e \notin ToSet(s) => IsInjective(Append(s, e))
<1>1. Append(s, e) \in Seq(S) /\ Len(Append(s, e)) = Len(s) + 1 /\ Len(s) \in Nat
      /\ DOMAIN s = 1..Len(s) /\ DOMAIN Append(s, e) = 1..(Len(s) + 1)
  BY AppendProperties, LenProperties
<1>2. \A i \in 1..Len(s) : Append(s, e)[i] = s[i]
  BY AppendProperties
<1>3. Append(s, e)[Len(s) + 1] = e
  BY AppendProperties
<1>4. ToSet(Append(s, e)) \subseteq ToSet(s) \cup {e}
  BY <1>1, <1>2, <1>3 DEF ToSet
<1>5. ToSet(s) \subseteq ToSet(Append(s, e))
  BY <1>1, <1>2 DEF ToSet
<1>6. e \in ToSet(Append(s, e))
  BY <1>1, <1>3 DEF ToSet
<1>7. ASSUME IsInjective(s), e \notin ToSet(s)
      PROVE  IsInjective(Append(s, e))
  BY <1>1, <1>2, <1>3, <1>7 DEF IsInjective, ToSet
<1> QED BY <1>4, <1>5, <1>6, <1>7

(* What a pop does to them.                                                *)
LEMMA PopElements ==
    ASSUME NEW S, NEW s \in Seq(S), s # <<>>, IsInjective(s)
    PROVE  /\ Head(s) \in S /\ Tail(s) \in Seq(S)
           /\ Head(s) \in ToSet(s) /\ ToSet(Tail(s)) = ToSet(s) \ {Head(s)}
           /\ IsInjective(Tail(s))
<1>1. Head(s) \in S /\ Tail(s) \in Seq(S) /\ Len(Tail(s)) = Len(s) - 1
  BY HeadTailProperties
<1>2. \A i \in 1..Len(Tail(s)) : Tail(s)[i] = s[i + 1]
  BY HeadTailProperties
<1>3. Len(s) \in Nat \ {0} /\ DOMAIN s = 1..Len(s) /\ DOMAIN Tail(s) = 1..(Len(s) - 1)
  BY <1>1, LenProperties, EmptySeq
<1>4. Head(s) = s[1] /\ 1 \in DOMAIN s
  BY <1>3
<1>5. ToSet(Tail(s)) \subseteq ToSet(s) \ {Head(s)}
  BY <1>1, <1>2, <1>3, <1>4 DEF ToSet, IsInjective
<1>6. ASSUME NEW i \in DOMAIN s, s[i] # Head(s)
      PROVE  s[i] \in ToSet(Tail(s))
  <2>1. i - 1 \in DOMAIN Tail(s)
    BY <1>3, <1>4, <1>6
  <2>2. Tail(s)[i - 1] = s[i]
    BY <2>1, <1>1, <1>2, <1>3
  <2> QED BY <2>1, <2>2 DEF ToSet
<1>7. IsInjective(Tail(s))
  BY <1>1, <1>2, <1>3 DEF IsInjective
<1> QED BY <1>1, <1>4, <1>5, <1>6, <1>7 DEF ToSet

(* A list without repetitions over 1..n has at most n elements.            *)
LEMMA InjectiveIsShort ==
    ASSUME NEW n \in Nat, NEW s \in Seq(1..n), IsInjective(s)
    PROVE  Len(s) <= n
<1>1. Len(s) \in Nat /\ s \in [1..Len(s) -> 1..n]
  BY LenProperties
<1>2. s \in Injection(1..Len(s), 1..n)
  BY <1>1 DEF Injection
<1>3. \A m \in Nat : IsFiniteSet(1..m) /\ Cardinality(1..m) = m
  <2> TAKE m \in Nat
  <2>1. IsFiniteSet(1..m) /\ Cardinality(1..m) = IF 1 > m THEN 0 ELSE m - 1 + 1
    BY FS_Interval
  <2> QED BY <2>1
<1>4. Cardinality(1..Len(s)) <= Cardinality(1..n)
  BY <1>2, <1>3, FS_Injection
<1> QED BY <1>1, <1>3, <1>4

-----------------------------------------------------------------------------
(* What the steps leave typed.                                             *)

LEMMA RestTyped ==
    ASSUME Typed
    PROVE  /\ Rest \in PollerStates /\ Off \in ClientStates /\ stored \in Nat
           /\ \A s \in {"poll", "pop"} : [Rest EXCEPT !.pc = s] \in PollerStates
           /\ \A e \in 0..stored : [Rest EXCEPT !.pc = "forward", !.event = e] \in PollerStates
           /\ \A p \in Pollers : poller[p] \in PollerStates
<1>1. MaxEvents \in Nat
  BY BoundAssumption
<1>2. stored \in Nat /\ 0 \in 0..stored
  BY <1>1 DEF Typed
<1>3. Rest \in PollerStates /\ Off \in ClientStates
  BY <1>2 DEF Rest, Off, PollerStates, ClientStates
<1>4. \A s \in {"poll", "pop"} : [Rest EXCEPT !.pc = s] \in PollerStates
  BY <1>2 DEF Rest, PollerStates
<1>5. \A e \in 0..stored : [Rest EXCEPT !.pc = "forward", !.event = e] \in PollerStates
  BY <1>2 DEF Rest, PollerStates
<1>6. \A p \in Pollers : poller[p] \in PollerStates
  BY DEF Typed
<1> QED BY <1>2, <1>3, <1>4, <1>5, <1>6

(* Storing an event makes no typed state less typed.                       *)
LEMMA StoreGrows ==
    ASSUME Typed, stored' = stored + 1
    PROVE  /\ 1..stored \subseteq 1..stored' /\ stored + 1 \in 1..stored'
           /\ PollerStates \subseteq PollerStates' /\ ClientStates \subseteq ClientStates'
           /\ Seq(1..stored) \subseteq Seq(1..stored')
<1>1. stored \in Nat
  BY BoundAssumption DEF Typed
<1>2. 1..stored \subseteq 1..stored' /\ stored + 1 \in 1..stored' /\ 0..stored \subseteq 0..stored'
  BY <1>1
<1>3. PollerStates \subseteq PollerStates'
  BY <1>2 DEF PollerStates
<1>4. ClientStates \subseteq ClientStates'
  BY <1>2 DEF ClientStates
<1>5. Seq(1..stored) \subseteq Seq(1..stored')
  BY <1>2, SeqMonotonic
<1> QED BY <1>2, <1>3, <1>4, <1>5

(* The record a step of poller p puts in place of its state.               *)
PollerMoves(p, r) == r \in PollerStates /\ poller' = [poller EXCEPT ![p] = r]

(* Poller p forwards nothing any more, or has just popped the head.        *)
Quiet(p, r) == PollerMoves(p, r) /\ r.event = 0 /\ r.pc # "forward"
Popped(p, r) == PollerMoves(p, r) /\ r.pc = "forward" /\ r.event = Head(list) /\ r.event # 0 /\ ~r.own

LEMMA PollLoopMoves ==
    ASSUME IInv, NEW p \in Pollers, PollLoop(p)
    PROVE  /\ \E r : Quiet(p, r) /\ ~r.own /\ (handle = p => r.pc # "none")
           /\ poller[p].pc = "poll"
<1> DEFINE r == IF Cancelled(p) THEN Rest ELSE [Rest EXCEPT !.pc = "pop"]
<1>1. r \in PollerStates
  BY RestTyped DEF IInv
<1>2. poller' = [poller EXCEPT ![p] = r] /\ poller[p].pc = "poll"
  BY DEF PollLoop
<1>3. r.event = 0 /\ r.pc # "forward" /\ ~r.own /\ (handle = p => r.pc # "none")
  BY DEF Rest, Cancelled
<1> HIDE DEF r
<1> QED BY <1>1, <1>2, <1>3 DEF Quiet, PollerMoves

LEMMA PopMoves ==
    ASSUME IInv, NEW p \in Pollers, RoomEventQueuePop(p)
    PROVE  /\ poller[p].pc = "pop"
           /\ \/ list # <<>> /\ list' = Tail(list) /\ \E r : Popped(p, r)
              \/ list' = list /\ \E r : Quiet(p, r) /\ r.pc = "poll" /\ ~r.own
<1>1. CASE list # <<>>
  <2> DEFINE r == [Rest EXCEPT !.pc = "forward", !.event = Head(list)]
  <2>1. Head(list) \in 1..stored
    BY <1>1, PopElements DEF IInv, Typed, PushedOnce
  <2>2. r \in PollerStates
    <3>1. \A e \in 0..stored : [Rest EXCEPT !.pc = "forward", !.event = e] \in PollerStates
      BY RestTyped DEF IInv
    <3>0. stored \in Nat
      BY RestTyped DEF IInv
    <3>2. \A x \in 1..stored : x \in 0..stored
      BY <3>0
    <3> QED BY <2>1, <3>1, <3>2, Zenon
  <2>3. poller' = [poller EXCEPT ![p] = r] /\ poller[p].pc = "pop" /\ list' = Tail(list)
    BY <1>1 DEF RoomEventQueuePop
  <2>4. r.pc = "forward" /\ r.event = Head(list) /\ ~r.own
    BY DEF Rest
  <2>5. \A x \in 1..stored : x # 0
    <3>1. stored \in Nat
      BY RestTyped DEF IInv
    <3> QED BY <3>1
  <2> HIDE DEF r
  <2> QED BY <1>1, <2>1, <2>2, <2>3, <2>4, <2>5 DEF Popped, PollerMoves
<1>2. CASE list = <<>>
  <2> DEFINE r == [poller[p] EXCEPT !.pc = "poll"]
  <2>1. poller[p] \in PollerStates
    BY RestTyped DEF IInv
  <2>2. poller[p].pc = "pop" /\ poller' = [poller EXCEPT ![p].pc = "poll"] /\ list' = list
    BY <1>2 DEF RoomEventQueuePop
  <2>3. r \in PollerStates /\ poller' = [poller EXCEPT ![p] = r]
    BY <2>1, <2>2 DEF PollerStates
  <2>4. poller[p].event = 0 /\ ~poller[p].own
    BY <2>1, <2>2 DEF IInv, PollersFit
  <2>5. r.pc = "poll" /\ r.event = 0 /\ ~r.own
    BY <2>1, <2>4 DEF PollerStates
  <2> HIDE DEF r
  <2> QED BY <2>2, <2>3, <2>5 DEF Quiet, PollerMoves
<1> QED BY <1>1, <1>2

LEMMA BackToPoll ==
    ASSUME IInv, NEW p \in Pollers, PollForward(p) \/ Replay(p)
    PROVE  /\ poller[p].pc \in {"forward", "replay"}
           /\ \E r : Quiet(p, r) /\ r.pc = "poll" /\ ~r.own
<1> DEFINE r == [Rest EXCEPT !.pc = "poll"]
<1>1. r \in PollerStates
  BY RestTyped DEF IInv
<1>2. poller' = [poller EXCEPT ![p] = r] /\ poller[p].pc \in {"forward", "replay"}
  BY DEF PollForward, Replay
<1>3. r.event = 0 /\ r.pc = "poll" /\ ~r.own
  BY DEF Rest
<1> HIDE DEF r
<1> QED BY <1>1, <1>2, <1>3 DEF Quiet, PollerMoves

LEMMA SubscribeMoves ==
    ASSUME IInv, Subscribe
    PROVE  \E p \in Pollers : /\ poller[p] = Rest /\ handle' = p
                              /\ \E r : Quiet(p, r) /\ r.pc = "poll" /\ ~r.own
<1>1. PICK p \in Pollers : poller[p] = Rest /\ handle' = p /\ poller' = [poller EXCEPT ![p].pc = "poll"]
  BY DEF Subscribe
<1> DEFINE r == [Rest EXCEPT !.pc = "poll"]
<1>2. r \in PollerStates
  BY RestTyped DEF IInv
<1>3. poller' = [poller EXCEPT ![p] = r]
  BY <1>1
<1>4. r.event = 0 /\ r.pc = "poll" /\ ~r.own
  BY DEF Rest
<1> HIDE DEF r
<1> QED BY <1>1, <1>2, <1>3, <1>4 DEF Quiet, PollerMoves

LEMMA ResubscribeMoves ==
    ASSUME IInv, NEW p \in Pollers, NEW k \in 0..stored, NEW own \in BOOLEAN, Resubscribe(p, k, own)
    PROVE  /\ poller[p] = Rest /\ handle' = p
           /\ \E r : Quiet(p, r) /\ r.pc = "replay" /\ r.since = k /\ (r.own <=> own)
<1> DEFINE r == [pc |-> "replay", event |-> 0, since |-> k, own |-> own]
<1>0. stored \in Nat
  BY RestTyped DEF IInv
<1>1. 0 \in 0..stored
  BY <1>0
<1>2. r \in PollerStates
  BY <1>1 DEF PollerStates
<1>3. poller' = [poller EXCEPT ![p] = r] /\ poller[p] = Rest /\ handle' = p
  BY DEF Resubscribe
<1>4. r.event = 0 /\ r.pc = "replay" /\ r.since = k /\ (r.own <=> own)
  OBVIOUS
<1> HIDE DEF r
<1> QED BY <1>2, <1>3, <1>4 DEF Quiet, PollerMoves

-----------------------------------------------------------------------------
(* Every step keeps the types.                                             *)
LEMMA TypedStep ==
    ASSUME IInv, [Next]_vars
    PROVE  Typed'
<1> USE BoundAssumption DEF IInv
<1>0. stored \in Nat /\ MaxEvents \in Nat /\ MaxLogins \in Nat /\ MaxFaults \in Nat
  BY RestTyped
<1>a. ASSUME stored' = stored, pushing' \subseteq pushing, list' \in Seq(1..stored),
             handle' \in Pollers \cup {None}, poller' \in [Pollers -> PollerStates],
             client' \in ClientStates, registered' \in BOOLEAN,
             shown' \subseteq 1..stored, lost' \subseteq 1..stored,
             logins' \in 0..MaxLogins, faults' \in 0..MaxFaults
      PROVE  Typed'
  <2>1. PollerStates' = PollerStates /\ ClientStates' = ClientStates
    BY <1>a DEF PollerStates, ClientStates
  <2>2. pushing' \subseteq 1..stored
    BY <1>a DEF Typed
  <2>3. stored' \in 0..MaxEvents
    BY <1>a DEF Typed
  <2> QED BY <1>a, <2>1, <2>2, <2>3 DEF Typed
<1>b. \A p \in Pollers : \A r : PollerMoves(p, r) => poller' \in [Pollers -> PollerStates]
  BY DEF PollerMoves, Typed
<1>c. ASSUME NEW kind, NEW E, E \subseteq 1..stored, Fault(kind, E) \/ NoFault
      PROVE  lost' \subseteq 1..stored /\ faults' \in 0..MaxFaults
  <2>1. CASE Fault(kind, E)
    BY <1>0, <1>c, <2>1 DEF Fault, Typed
  <2>2. CASE NoFault
    BY <2>2 DEF NoFault, Typed
  <2> QED BY <1>c, <2>1, <2>2
<1>d. MoreLogins => logins' \in 0..MaxLogins
  BY <1>0 DEF MoreLogins, Typed
<1>e. \A E \in SUBSET (1..stored) : Forward(E) => shown' \subseteq 1..stored
  BY DEF Forward, Typed
<1>1. CASE Store
  <2>1. /\ stored' = stored + 1 /\ stored < MaxEvents /\ pushing' = pushing \cup {stored + 1}
        /\ list' = list /\ handle' = handle /\ poller' = poller /\ client' = client
        /\ registered' = registered /\ shown' = shown /\ lost' = lost
        /\ logins' = logins /\ faults' = faults
    BY <1>1 DEF Store
  <2>2. /\ 1..stored \subseteq 1..stored' /\ stored + 1 \in 1..stored'
        /\ PollerStates \subseteq PollerStates' /\ ClientStates \subseteq ClientStates'
        /\ Seq(1..stored) \subseteq Seq(1..stored')
    BY <2>1, StoreGrows
  <2>3. stored' \in 0..MaxEvents /\ pushing' \subseteq 1..stored' /\ list' \in Seq(1..stored')
    BY <1>0, <2>1, <2>2 DEF Typed
  <2>4. poller' \in [Pollers -> PollerStates'] /\ client' \in ClientStates'
    BY <2>1, <2>2 DEF Typed
  <2>5. shown' \subseteq 1..stored' /\ lost' \subseteq 1..stored'
    BY <2>1, <2>2 DEF Typed
  <2> QED BY <2>1, <2>3, <2>4, <2>5 DEF Typed
<1>2. ASSUME NEW e \in pushing, PublishToRedis(e)
      PROVE  Typed'
  <2>1. list' \in Seq(1..stored)
    <3>1. e \in 1..stored /\ list \in Seq(1..stored)
      BY DEF Typed
    <3>2. Append(list, e) \in Seq(1..stored)
      BY <3>1, AppendProperties
    <3> QED BY <1>2, <3>1, <3>2 DEF PublishToRedis, RoomEventQueuePush
  <2>2. lost' \subseteq 1..stored /\ faults' \in 0..MaxFaults
    <3>1. {e} \subseteq 1..stored
      BY DEF Typed
    <3>2. Fault("push", {e}) \/ NoFault
      BY <1>2 DEF PublishToRedis
    <3> QED BY <1>c, <3>1, <3>2
  <2> QED BY <1>2, <1>a, <2>1, <2>2 DEF PublishToRedis, Typed
<1>3. CASE Expire
  <2>1. ToSet(list) \subseteq 1..stored
    BY LenProperties DEF ToSet, Typed
  <2>2. lost' \subseteq 1..stored /\ faults' \in 0..MaxFaults
    BY <1>3, <1>c, <2>1 DEF Expire
  <2>3. list' \in Seq(1..stored)
    BY <1>3, EmptySeq DEF Expire
  <2> QED BY <1>3, <1>a, <2>2, <2>3 DEF Expire, Typed
<1>4. CASE OtherGatePops
  <2>1. Head(list) \in 1..stored /\ list' \in Seq(1..stored)
    BY <1>4, PopElements DEF OtherGatePops, Typed, PushedOnce
  <2>2. lost' \subseteq 1..stored /\ faults' \in 0..MaxFaults
    BY <1>4, <1>c, <2>1 DEF OtherGatePops
  <2> QED BY <1>4, <1>a, <2>1, <2>2 DEF OtherGatePops, Typed
<1>5. ASSUME NEW p \in Pollers, PollLoop(p)
      PROVE  Typed'
  <2>1. poller' \in [Pollers -> PollerStates]
    BY <1>5, <1>b, PollLoopMoves DEF Quiet
  <2> QED BY <1>5, <1>a, <2>1 DEF PollLoop, Typed
<1>6. ASSUME NEW p \in Pollers, RoomEventQueuePop(p)
      PROVE  Typed'
  <2>1. poller' \in [Pollers -> PollerStates]
    BY <1>6, <1>b, PopMoves DEF Quiet, Popped
  <2>2. list' \in Seq(1..stored)
    <3>1. list \in Seq(1..stored) /\ IsInjective(list)
      BY DEF Typed, PushedOnce
    <3>2. list # <<>> => Tail(list) \in Seq(1..stored)
      BY <3>1, PopElements
    <3>3. list' = list \/ (list # <<>> /\ list' = Tail(list))
      BY <1>6, PopMoves
    <3> QED BY <3>1, <3>2, <3>3
  <2> QED BY <1>6, <1>a, <2>1, <2>2 DEF RoomEventQueuePop, Typed
<1>7. ASSUME NEW p \in Pollers, PollForward(p)
      PROVE  Typed'
  <2>1. poller' \in [Pollers -> PollerStates]
    BY <1>7, <1>b, BackToPoll DEF Quiet
  <2>2. {poller[p].event} \in SUBSET (1..stored)
    <3>1. poller[p] \in PollerStates
      BY RestTyped
    <3>2. poller[p].pc = "forward"
      BY <1>7 DEF PollForward
    <3>3. poller[p].event # 0 /\ poller[p].event \in 0..stored
      BY <3>1, <3>2 DEF PollerStates, PollersFit
    <3> QED BY <1>0, <3>3
  <2>3. shown' \subseteq 1..stored
    BY <1>7, <1>e, <2>2 DEF PollForward
  <2> QED BY <1>7, <1>a, <2>1, <2>3 DEF PollForward, Typed
<1>8. ASSUME NEW p \in Pollers, Replay(p)
      PROVE  Typed'
  <2>1. poller' \in [Pollers -> PollerStates]
    BY <1>8, <1>b, BackToPoll DEF Quiet
  <2>2. ListEventsAfter(poller[p].since) \in SUBSET (1..stored)
    <3>1. poller[p].since \in 0..stored
      BY RestTyped DEF PollerStates
    <3> QED BY <1>0, <3>1 DEF ListEventsAfter
  <2>3. shown' \subseteq 1..stored
    BY <1>8, <1>e, <2>2 DEF Replay, Typed
  <2>4. lost' \subseteq 1..stored /\ faults' \in 0..MaxFaults
    <3>1. Fault("replay", ListEventsAfter(poller[p].since)) \/ NoFault
      BY <1>8 DEF Replay
    <3> QED BY <1>c, <2>2, <3>1
  <2>5. client' \in ClientStates
    <3>1. client \in ClientStates /\ [client EXCEPT !.pc = "on"] \in ClientStates
      BY DEF Typed, ClientStates
    <3> QED BY <1>8, <3>1 DEF Replay
  <2> QED BY <1>8, <1>a, <2>1, <2>3, <2>4, <2>5 DEF Replay, Typed
<1>9. CASE Subscribe
  <2>1. poller' \in [Pollers -> PollerStates] /\ handle' \in Pollers
    BY <1>9, <1>b, SubscribeMoves DEF Quiet
  <2> QED BY <1>9, <1>a, <2>1 DEF Subscribe, Typed
<1>10. CASE Leave
  <2>1. faults' \in 0..MaxFaults
    BY <1>10, <1>0 DEF Leave, Typed
  <2> QED BY <1>10, <1>a, <2>1 DEF Leave, Typed
<1>11. CASE OtherResumes
  <2>1. poller' \in [Pollers -> PollerStates] /\ handle' \in Pollers
    <3>1. PICK p \in Pollers, k \in 0..stored : Resubscribe(p, k, FALSE)
      BY <1>11 DEF OtherResumes
    <3> QED BY <1>b, <3>1, ResubscribeMoves DEF Quiet
  <2> QED BY <1>11, <1>a, <1>d, <2>1 DEF OtherResumes, Typed
<1>12. CASE SnapshotRoom
  <2>1. client' \in ClientStates
    BY <1>12, <1>0 DEF SnapshotRoom, ClientStates
  <2> QED BY <1>12, <1>a, <1>d, <2>1 DEF SnapshotRoom, Typed
<1>13. CASE Register
  <2>1. client' \in ClientStates
    BY <1>13 DEF Register, ClientStates, Typed
  <2> QED BY <1>13, <1>a, <2>1 DEF Register, Typed
<1>14. CASE ResubscribeClient
  <2>1. poller' \in [Pollers -> PollerStates] /\ handle' \in Pollers
    <3>1. PICK p \in Pollers : Resubscribe(p, client.cursor, TRUE)
      BY <1>14 DEF ResubscribeClient
    <3>2. client.cursor \in 0..stored
      BY DEF Typed, ClientStates
    <3> QED BY <1>b, <3>1, <3>2, ResubscribeMoves DEF Quiet
  <2>2. client' \in ClientStates
    BY <1>14 DEF ResubscribeClient, ClientStates, Typed
  <2> QED BY <1>14, <1>a, <2>1, <2>2 DEF ResubscribeClient, Typed
<1>15. CASE Unregister
  <2>1. client' \in ClientStates
    BY <1>15, RestTyped DEF Unregister
  <2> QED BY <1>15, <1>a, <2>1 DEF Unregister, Typed
<1>16. CASE UNCHANGED vars
  BY <1>16, <1>a DEF Typed
<1> QED
  BY <1>1, <1>2, <1>3, <1>4, <1>5, <1>6, <1>7, <1>8, <1>9, <1>10, <1>11, <1>12, <1>13, <1>14,
     <1>15, <1>16 DEF Next, Poll, Login

-----------------------------------------------------------------------------
(* Every step keeps an event at one place.                                 *)
LEMMA PushedOnceStep ==
    ASSUME IInv, [Next]_vars
    PROVE  PushedOnce'
<1> USE DEF IInv
<1>0. list \in Seq(1..stored) /\ IsInjective(list) /\ pushing \subseteq 1..stored /\ stored \in Nat
  BY RestTyped DEF Typed, PushedOnce
<1>a. ASSUME IsInjective(list'), ToSet(list') \cap pushing' = {},
             \A q \in Pollers : poller'[q].event # 0 =>
                poller'[q].event = poller[q].event /\ poller'[q].event \notin ToSet(list') \cup pushing'
      PROVE  PushedOnce'
  BY <1>a DEF PushedOnce
<1>b. ASSUME UNCHANGED <<list, pushing, poller>>
      PROVE  PushedOnce'
  BY <1>b, <1>a DEF PushedOnce
<1>c. ASSUME NEW p \in Pollers, NEW r, Quiet(p, r), UNCHANGED <<list, pushing>>
      PROVE  PushedOnce'
  <2>1. poller' = [poller EXCEPT ![p] = r] /\ r.event = 0 /\ poller \in [Pollers -> PollerStates]
    BY <1>c DEF Quiet, PollerMoves, Typed
  <2>2. \A q \in Pollers : poller'[q].event # 0 => poller'[q] = poller[q]
    BY <2>1
  <2> QED BY <1>c, <1>a, <2>2 DEF PushedOnce
<1>1. CASE Store
  <2>1. list' = list /\ poller' = poller /\ pushing' = pushing \cup {stored + 1}
    BY <1>1 DEF Store
  <2>2. stored + 1 \notin ToSet(list)
    <3>1. ToSet(list) \subseteq 1..stored
      BY <1>0, LenProperties DEF ToSet
    <3> QED BY <1>0, <3>1
  <2>3. ASSUME NEW q \in Pollers
        PROVE  poller[q].event # stored + 1
    <3>1. poller[q].event \in 0..stored
      BY RestTyped DEF PollerStates
    <3> QED BY <1>0, <3>1
  <2> QED BY <1>a, <2>1, <2>2, <2>3 DEF PushedOnce
<1>2. ASSUME NEW e \in pushing, PublishToRedis(e)
      PROVE  PushedOnce'
  <2>1. pushing' = pushing \ {e} /\ poller' = poller
    BY <1>2 DEF PublishToRedis
  <2>2. e \in 1..stored /\ e \notin ToSet(list)
    BY <1>0 DEF PushedOnce
  <2>3. /\ ToSet(Append(list, e)) = ToSet(list) \cup {e}
        /\ IsInjective(list) /\ e \notin ToSet(list) => IsInjective(Append(list, e))
    BY <1>0, <2>2, PushElements
  <2>4. list' = list \/ list' = Append(list, e)
    BY <1>2 DEF PublishToRedis, RoomEventQueuePush
  <2>5. IsInjective(list')
    BY <1>0, <2>2, <2>3, <2>4
  <2>6. ToSet(list') \subseteq ToSet(list) \cup {e}
    BY <2>3, <2>4
  <2>7. ToSet(list') \cup pushing' \subseteq ToSet(list) \cup pushing
    BY <2>1, <2>6
  <2>8. ToSet(list') \cap pushing' = {}
    BY <2>1, <2>6 DEF PushedOnce
  <2>9. ASSUME NEW q \in Pollers, poller'[q].event # 0
        PROVE  poller'[q].event = poller[q].event /\ poller'[q].event \notin ToSet(list') \cup pushing'
    BY <2>1, <2>7, <2>9 DEF PushedOnce
  <2> QED BY <1>a, <2>5, <2>8, <2>9
<1>3. CASE Expire
  <2>1. list' = <<>> /\ pushing' = pushing /\ poller' = poller
    BY <1>3 DEF Expire
  <2>2. IsInjective(<<>>) /\ ToSet(<<>>) = {}
    BY EmptySeq DEF IsInjective, ToSet
  <2> QED BY <1>a, <2>1, <2>2 DEF PushedOnce
<1>4. CASE OtherGatePops
  <2>1. list # <<>> /\ list' = Tail(list) /\ pushing' = pushing /\ poller' = poller
    BY <1>4 DEF OtherGatePops
  <2>2. IsInjective(list') /\ ToSet(list') \subseteq ToSet(list)
    BY <1>0, <2>1, PopElements
  <2> QED BY <1>a, <2>1, <2>2 DEF PushedOnce
<1>5. ASSUME NEW p \in Pollers, PollLoop(p)
      PROVE  PushedOnce'
  <2>1. UNCHANGED <<list, pushing>>
    BY <1>5 DEF PollLoop
  <2> QED BY <1>5, <1>c, <2>1, PollLoopMoves
<1>6. ASSUME NEW p \in Pollers, RoomEventQueuePop(p)
      PROVE  PushedOnce'
  <2>1. pushing' = pushing
    BY <1>6 DEF RoomEventQueuePop
  <2>2. CASE list' = list /\ \E r : Quiet(p, r)
    BY <1>c, <2>1, <2>2
  <2>3. ASSUME list # <<>>, list' = Tail(list), NEW r, Popped(p, r)
        PROVE  PushedOnce'
    <3>1. IsInjective(list') /\ ToSet(list') = ToSet(list) \ {Head(list)} /\ Head(list) \in ToSet(list)
      BY <1>0, <2>3, PopElements
    <3>2. PICK h : h = Head(list)
      OBVIOUS
    <3>3. h \in ToSet(list) /\ h \notin pushing /\ ToSet(list') = ToSet(list) \ {h}
      BY <3>1, <3>2 DEF PushedOnce
    <3>4. poller' = [poller EXCEPT ![p] = r] /\ r.event = h /\ poller \in [Pollers -> PollerStates]
      BY <2>3, <3>2 DEF Popped, PollerMoves, Typed
    <3>5. poller'[p].event = h /\ \A q \in Pollers : q # p => poller'[q] = poller[q]
      BY <3>4
    <3>6. \A q \in Pollers : q # p /\ poller'[q].event # 0 =>
            poller'[q].event # h /\ poller'[q].event \notin ToSet(list') \cup pushing'
      BY <2>1, <3>3, <3>5 DEF PushedOnce
    <3>7. \A q \in Pollers : poller'[q].event # 0 => poller'[q].event \notin ToSet(list') \cup pushing'
      BY <2>1, <3>3, <3>5, <3>6
    <3>8. \A q, o \in Pollers : poller'[q].event # 0 /\ q # o => poller'[q].event # poller'[o].event
      BY <3>5, <3>6 DEF PushedOnce
    <3>9. ToSet(list') \cap pushing' = {}
      BY <2>1, <3>3 DEF PushedOnce
    <3> QED BY <3>1, <3>7, <3>8, <3>9 DEF PushedOnce
  <2> QED BY <1>6, <2>2, <2>3, PopMoves
<1>7. ASSUME NEW p \in Pollers, PollForward(p) \/ Replay(p)
      PROVE  PushedOnce'
  <2>1. UNCHANGED <<list, pushing>>
    BY <1>7 DEF PollForward, Replay
  <2> QED BY <1>7, <1>c, <2>1, BackToPoll
<1>9. CASE Subscribe
  <2>1. UNCHANGED <<list, pushing>>
    BY <1>9 DEF Subscribe
  <2> QED BY <1>9, <1>c, <2>1, SubscribeMoves
<1>11. CASE OtherResumes
  <2>1. UNCHANGED <<list, pushing>>
    BY <1>11 DEF OtherResumes
  <2>2. PICK p \in Pollers, k \in 0..stored : Resubscribe(p, k, FALSE)
    BY <1>11 DEF OtherResumes
  <2> QED BY <1>c, <2>1, <2>2, ResubscribeMoves
<1>14. CASE ResubscribeClient
  <2>1. UNCHANGED <<list, pushing>>
    BY <1>14 DEF ResubscribeClient
  <2>2. PICK p \in Pollers : Resubscribe(p, client.cursor, TRUE)
    BY <1>14 DEF ResubscribeClient
  <2>3. client.cursor \in 0..stored
    BY DEF Typed, ClientStates
  <2> QED BY <1>c, <2>1, <2>2, <2>3, ResubscribeMoves
<1>15. CASE Leave \/ SnapshotRoom \/ Register \/ Unregister \/ UNCHANGED vars
  BY <1>15, <1>b DEF Leave, SnapshotRoom, Register, Unregister
<1> QED
  BY <1>1, <1>2, <1>3, <1>4, <1>5, <1>6, <1>7, <1>9, <1>11, <1>14, <1>15 DEF Next, Poll, Login

(* Every step keeps pollers and login together.                            *)
LEMMA PollersFitStep ==
    ASSUME IInv, [Next]_vars
    PROVE  PollersFit'
<1> USE DEF IInv
<1>0. poller \in [Pollers -> PollerStates] /\ None \notin Pollers /\ handle \in Pollers \cup {None}
  BY NoneAssumption DEF Typed
<1>a. ASSUME NEW p \in Pollers, NEW r, Quiet(p, r) \/ Popped(p, r)
      PROVE  /\ poller'[p] = r /\ \A q \in Pollers : q # p => poller'[q] = poller[q]
             /\ \A q \in Pollers : poller'[q].pc = "forward" <=> poller'[q].event # 0
  <2>1. poller' = [poller EXCEPT ![p] = r]
    BY <1>a DEF Quiet, Popped, PollerMoves
  <2>2. r.pc = "forward" <=> r.event # 0
    BY <1>a DEF Quiet, Popped
  <2> QED BY <1>0, <2>1, <2>2 DEF PollersFit
<1>b. ASSUME NEW p \in Pollers, NEW r, Quiet(p, r) \/ Popped(p, r), ~r.own,
             handle' = p \/ handle' = handle, handle' = p => r.pc # "none",
             \A q \in Pollers : poller[q].own /\ q # p => client' = client,
             client'.pc = "replay" => client.pc = "replay" /\ ~poller[p].own,
             registered' <=> client'.pc \in {"registered", "replay", "on"}
      PROVE  PollersFit'
  <2>1. /\ poller'[p] = r /\ \A q \in Pollers : q # p => poller'[q] = poller[q]
        /\ \A q \in Pollers : poller'[q].pc = "forward" <=> poller'[q].event # 0
    BY <1>a, <1>b
  <2>2. handle' # None => poller'[handle'].pc # "none"
    BY <1>0, <1>b, <2>1 DEF PollersFit
  <2>3. \A q \in Pollers : poller'[q].own => q # p /\ poller'[q] = poller[q]
    BY <1>b, <2>1
  <2>4. \A q, o \in Pollers : poller'[q].own =>
          /\ poller'[q].pc = "replay" /\ client'.pc = "replay"
          /\ poller'[q].since = client'.cursor /\ (poller'[o].own => o = q)
    BY <1>b, <2>3 DEF PollersFit
  <2>5. client'.pc = "replay" => \E q \in Pollers : poller'[q].own
    BY <1>b, <2>1 DEF PollersFit
  <2> QED BY <1>b, <2>1, <2>2, <2>4, <2>5 DEF PollersFit
<1>c. ASSUME UNCHANGED poller, handle' = handle \/ handle' = None,
             client' = client \/ (client.pc # "replay" /\ client'.pc # "replay"),
             registered' <=> client'.pc \in {"registered", "replay", "on"}
      PROVE  PollersFit'
  BY <1>c DEF PollersFit
<1>d. registered <=> client.pc \in {"registered", "replay", "on"}
  BY DEF PollersFit
<1>1. CASE Store \/ Expire \/ OtherGatePops \/ (\E e \in pushing : PublishToRedis(e)) \/ UNCHANGED vars
  <2>1. UNCHANGED <<poller, handle, client, registered>>
    BY <1>1 DEF Store, Expire, OtherGatePops, PublishToRedis
  <2> QED BY <1>c, <1>d, <2>1
<1>2. CASE Leave
  <2>1. UNCHANGED <<poller, client, registered>> /\ handle' = None
    BY <1>2 DEF Leave
  <2> QED BY <1>c, <1>d, <2>1
<1>3. ASSUME NEW p \in Pollers, PollLoop(p)
      PROVE  PollersFit'
  <2>1. UNCHANGED <<handle, client, registered>>
    BY <1>3 DEF PollLoop
  <2>2. PICK r : Quiet(p, r) /\ ~r.own /\ (handle = p => r.pc # "none")
    BY <1>3, PollLoopMoves
  <2>3. ~poller[p].own
    BY <1>3, PollLoopMoves DEF PollersFit
  <2> QED BY <1>b, <1>d, <2>1, <2>2, <2>3
<1>4. ASSUME NEW p \in Pollers, RoomEventQueuePop(p)
      PROVE  PollersFit'
  <2>1. UNCHANGED <<handle, client, registered>>
    BY <1>4 DEF RoomEventQueuePop
  <2>2. PICK r : (Quiet(p, r) \/ Popped(p, r)) /\ ~r.own /\ r.pc # "none"
    BY <1>4, PopMoves DEF Popped
  <2>3. ~poller[p].own
    BY <1>4, PopMoves DEF PollersFit
  <2> QED BY <1>b, <1>d, <2>1, <2>2, <2>3
<1>5. ASSUME NEW p \in Pollers, PollForward(p)
      PROVE  PollersFit'
  <2>1. UNCHANGED <<handle, client, registered>>
    BY <1>5 DEF PollForward
  <2>2. PICK r : Quiet(p, r) /\ r.pc = "poll" /\ ~r.own
    BY <1>5, BackToPoll
  <2>3. ~poller[p].own
    BY <1>5 DEF PollForward, PollersFit
  <2> QED BY <1>b, <1>d, <2>1, <2>2, <2>3
<1>6. ASSUME NEW p \in Pollers, Replay(p)
      PROVE  PollersFit'
  <2>1. UNCHANGED <<handle, registered>>
    BY <1>6 DEF Replay
  <2>2. PICK r : Quiet(p, r) /\ r.pc = "poll" /\ ~r.own
    BY <1>6, BackToPoll
  <2>3. client' = IF poller[p].own THEN [client EXCEPT !.pc = "on"] ELSE client
    BY <1>6 DEF Replay
  <2>4. CASE poller[p].own
    <3>1. client'.pc = "on" /\ client.pc = "replay" /\ \A q \in Pollers : poller[q].own => q = p
      BY <2>3, <2>4 DEF PollersFit, Typed, ClientStates
    <3> QED BY <1>b, <1>d, <2>1, <2>2, <3>1
  <2>5. CASE ~poller[p].own
    BY <1>b, <1>d, <2>1, <2>2, <2>3, <2>5
  <2> QED BY <2>4, <2>5
<1>7. CASE Subscribe
  <2>1. UNCHANGED <<client, registered>>
    BY <1>7 DEF Subscribe
  <2>2. PICK p \in Pollers : /\ poller[p] = Rest /\ handle' = p
                             /\ \E r : Quiet(p, r) /\ r.pc = "poll" /\ ~r.own
    BY <1>7, SubscribeMoves
  <2>3. ~poller[p].own
    BY <2>2 DEF Rest
  <2> QED BY <1>b, <1>d, <2>1, <2>2, <2>3
<1>8. CASE OtherResumes
  <2>1. UNCHANGED <<client, registered>>
    BY <1>8 DEF OtherResumes
  <2>2. PICK p \in Pollers, k \in 0..stored : Resubscribe(p, k, FALSE)
    BY <1>8 DEF OtherResumes
  <2>3. handle' = p /\ \E r : Quiet(p, r) /\ r.pc = "replay" /\ ~r.own
    BY <2>2, ResubscribeMoves
  <2>4. ~poller[p].own
    BY <2>2 DEF Resubscribe, Rest
  <2> QED BY <1>b, <1>d, <2>1, <2>3, <2>4
<1>9. CASE SnapshotRoom
  <2>1. UNCHANGED <<poller, handle>> /\ client.pc # "replay" /\ client'.pc = "snapshot" /\ registered' = FALSE
    BY <1>9 DEF SnapshotRoom
  <2> QED BY <1>c, <2>1
<1>10. CASE Register
  <2>1. UNCHANGED <<poller, handle>> /\ client.pc # "replay" /\ client'.pc = "registered" /\ registered' = TRUE
    BY <1>10 DEF Register, Typed, ClientStates
  <2> QED BY <1>c, <2>1
<1>11. CASE Unregister
  <2>1. UNCHANGED <<poller, handle>> /\ client.pc # "replay" /\ client'.pc = "off" /\ registered' = FALSE
    BY <1>11 DEF Unregister, Off
  <2> QED BY <1>c, <2>1
<1>12. CASE ResubscribeClient
  <2>1. registered' = registered /\ client.pc = "registered" /\ client'.pc = "replay"
        /\ client'.cursor = client.cursor
    BY <1>12 DEF ResubscribeClient, Typed, ClientStates
  <2>2. PICK p \in Pollers : Resubscribe(p, client.cursor, TRUE)
    BY <1>12 DEF ResubscribeClient
  <2>3. client.cursor \in 0..stored
    BY DEF Typed, ClientStates
  <2>4. handle' = p /\ \E r : Quiet(p, r) /\ r.pc = "replay" /\ r.since = client.cursor /\ r.own
    BY <2>2, <2>3, ResubscribeMoves
  <2>5. PICK r : Quiet(p, r) /\ r.pc = "replay" /\ r.since = client.cursor /\ r.own
    BY <2>4
  <2>6. \A q \in Pollers : ~poller[q].own
    BY <2>1 DEF PollersFit
  <2>7. /\ poller'[p] = r /\ \A q \in Pollers : q # p => poller'[q] = poller[q]
        /\ \A q \in Pollers : poller'[q].pc = "forward" <=> poller'[q].event # 0
    BY <1>a, <2>5
  <2>8. \A q, o \in Pollers : poller'[q].own =>
          /\ poller'[q].pc = "replay" /\ client'.pc = "replay"
          /\ poller'[q].since = client'.cursor /\ (poller'[o].own => o = q)
    BY <2>1, <2>5, <2>6, <2>7
  <2> QED BY <1>d, <2>1, <2>4, <2>5, <2>7, <2>8 DEF PollersFit
<1> QED
  BY <1>1, <1>2, <1>3, <1>4, <1>5, <1>6, <1>7, <1>8, <1>9, <1>10, <1>11, <1>12 DEF Next, Poll, Login

(* Every step keeps the events on their way.                               *)
LEMMA NothingSlipsStep ==
    ASSUME IInv, [Next]_vars
    PROVE  NothingSlips'
<1> USE DEF IInv
<1> DEFINE Way == shown \cup lost \cup pushing \cup ToSet(list)
           Held(e) == \E p \in Pollers : poller[p].event = e
<1>0. stored \in Nat /\ list \in Seq(1..stored) /\ IsInjective(list)
      /\ poller \in [Pollers -> PollerStates]
  BY RestTyped DEF Typed, PushedOnce
<1>a. ASSUME stored' = stored, Way \subseteq Way', \A e \in 1..stored : Held(e) => e \in Way' \/ Held(e)',
             client' = client, shown \subseteq shown'
      PROVE  NothingSlips'
  BY <1>a DEF NothingSlips
<1>b. ASSUME NEW p \in Pollers, NEW r, PollerMoves(p, r), NEW e, Held(e)
      PROVE  e = poller[p].event \/ Held(e)'
  <2>1. PICK q \in Pollers : poller[q].event = e
    BY <1>b
  <2>2. q # p => poller'[q] = poller[q]
    BY <1>0, <1>b DEF PollerMoves
  <2> QED BY <2>1, <2>2
<1>c. ASSUME NEW p \in Pollers, NEW r, PollerMoves(p, r), poller[p].event = 0,
             UNCHANGED <<stored, shown, lost, pushing, list>>
      PROVE  Way \subseteq Way' /\ \A e \in 1..stored : Held(e) => Held(e)'
  <2>1. \A e \in 1..stored : e # 0
    BY <1>0
  <2>2. Way' = Way
    BY <1>c
  <2> QED BY <1>b, <1>c, <2>1, <2>2
<1>d. ASSUME NEW p \in Pollers, poller[p].pc # "forward"
      PROVE  poller[p].event = 0
  BY <1>d DEF PollersFit
<1>1. CASE Store
  <2>1. stored' = stored + 1 /\ pushing' = pushing \cup {stored + 1} /\ list' = list
        /\ poller' = poller /\ client' = client /\ shown' = shown /\ lost' = lost
    BY <1>1 DEF Store
  <2>2. 1..stored' = 1..stored \cup {stored + 1}
    BY <1>0, <2>1
  <2>3. client'.pc # "off" => 1..client'.cursor \subseteq shown'
    BY <2>1 DEF NothingSlips
  <2>4. ASSUME NEW e \in 1..stored'
        PROVE  \/ e \in Way' \/ Held(e)'
               \/ client'.pc = "off"
               \/ client'.pc \in {"snapshot", "registered", "replay"} /\ e > client'.cursor
    <3>1. stored + 1 \in Way'
      BY <2>1
    <3>2. Way \subseteq Way' /\ \A x \in 1..stored : Held(x) => Held(x)'
      BY <2>1
    <3>3. CASE e = stored + 1
      BY <3>1, <3>3
    <3>4. CASE e \in 1..stored
      <4>1. \/ e \in Way \/ Held(e)
            \/ client.pc = "off"
            \/ client.pc \in {"snapshot", "registered", "replay"} /\ e > client.cursor
        BY <3>4 DEF NothingSlips
      <4> HIDE DEF Way, Held
      <4> QED BY <2>1, <3>2, <3>4, <4>1
    <3> QED BY <2>2, <3>3, <3>4
  <2> QED BY <2>3, <2>4 DEF NothingSlips
<1>2. ASSUME NEW e \in pushing, PublishToRedis(e)
      PROVE  NothingSlips'
  <2>1. /\ stored' = stored /\ pushing' = pushing \ {e} /\ shown' = shown
        /\ poller' = poller /\ client' = client
        /\ \/ list' = Append(list, e) /\ lost' = lost
           \/ list' = list /\ lost' = lost \cup {e}
    BY <1>2 DEF PublishToRedis, RoomEventQueuePush, NoFault, Fault
  <2>2. ToSet(Append(list, e)) = ToSet(list) \cup {e}
    <3>1. e \in 1..stored
      BY DEF Typed
    <3> QED BY <1>0, <3>1, PushElements
  <2>3. Way \subseteq Way'
    <3>1. CASE list' = Append(list, e) /\ lost' = lost
      <4>1. ToSet(list') = ToSet(list) \cup {e}
        BY <2>2, <3>1
      <4> QED BY <2>1, <3>1, <4>1
    <3>2. CASE list' = list /\ lost' = lost \cup {e}
      BY <2>1, <3>2
    <3> QED BY <2>1, <3>1, <3>2
  <2>4. \A x \in 1..stored : Held(x) => Held(x)'
    BY <2>1
  <2> QED BY <1>a, <2>1, <2>3, <2>4
<1>3. CASE Expire
  <2>1. /\ stored' = stored /\ pushing' = pushing /\ shown' = shown
        /\ poller' = poller /\ client' = client /\ lost' = lost \cup ToSet(list)
    BY <1>3 DEF Expire, Fault
  <2>2. Way \subseteq Way' /\ \A x \in 1..stored : Held(x) => Held(x)'
    BY <2>1
  <2> QED BY <1>a, <2>1, <2>2
<1>4. CASE OtherGatePops
  <2>1. /\ stored' = stored /\ pushing' = pushing /\ shown' = shown
        /\ poller' = poller /\ client' = client
    BY <1>4 DEF OtherGatePops, Fault
  <2>2. ToSet(Tail(list)) = ToSet(list) \ {Head(list)}
    BY <1>0, <1>4, PopElements DEF OtherGatePops
  <2>3. list' = Tail(list) /\ lost' = lost \cup {Head(list)}
    BY <1>4 DEF OtherGatePops, Fault
  <2>4. Way \subseteq Way'
    <3>1. PICK h : h = Head(list)
      OBVIOUS
    <3>2. ToSet(list') = ToSet(list) \ {h} /\ lost' = lost \cup {h}
      BY <2>2, <2>3, <3>1
    <3> QED BY <2>1, <3>2
  <2>5. \A x \in 1..stored : Held(x) => Held(x)'
    BY <2>1
  <2> QED BY <1>a, <2>1, <2>4, <2>5
<1>5. ASSUME NEW p \in Pollers, PollLoop(p)
      PROVE  NothingSlips'
  <2>1. UNCHANGED <<stored, shown, lost, pushing, list, client>>
    BY <1>5 DEF PollLoop
  <2>2. poller[p].event = 0 /\ \E r : PollerMoves(p, r)
    BY <1>5, <1>d, PollLoopMoves DEF Quiet
  <2> QED BY <1>a, <1>c, <2>1, <2>2
<1>6. ASSUME NEW p \in Pollers, RoomEventQueuePop(p)
      PROVE  NothingSlips'
  <2>1. UNCHANGED <<stored, shown, lost, pushing, client>>
    BY <1>6 DEF RoomEventQueuePop
  <2>2. poller[p].event = 0
    BY <1>6, <1>d, PopMoves
  <2>3. ASSUME list' = list, NEW r, Quiet(p, r)
        PROVE  NothingSlips'
    BY <1>a, <1>c, <2>1, <2>2, <2>3 DEF Quiet
  <2>4. ASSUME list # <<>>, list' = Tail(list), NEW r, Popped(p, r)
        PROVE  NothingSlips'
    <3>1. PICK h : h = Head(list)
      OBVIOUS
    <3>2. ToSet(list') = ToSet(list) \ {h}
      BY <1>0, <2>4, <3>1, PopElements
    <3>3. r.event = h /\ PollerMoves(p, r)
      BY <2>4, <3>1 DEF Popped
    <3>4. Held(h)'
      BY <1>0, <3>3 DEF PollerMoves
    <3>5. \A x \in 1..stored : Held(x) => Held(x)'
      <4>1. \A x \in 1..stored : x # 0
        BY <1>0
      <4> QED BY <1>b, <2>2, <3>3, <4>1
    <3>6. \A x \in 1..stored : x \in Way => x \in Way' \/ Held(x)'
      BY <2>1, <3>2, <3>4
    <3> HIDE DEF Held, Way
    <3>7. ASSUME NEW x \in 1..stored
          PROVE  \/ x \in Way' \/ Held(x)'
                 \/ client.pc = "off"
                 \/ client.pc \in {"snapshot", "registered", "replay"} /\ x > client.cursor
      <4>1. \/ x \in Way \/ Held(x)
            \/ client.pc = "off"
            \/ client.pc \in {"snapshot", "registered", "replay"} /\ x > client.cursor
        BY DEF NothingSlips, Held, Way
      <4> QED BY <3>5, <3>6, <4>1
    <3>8. client'.pc # "off" => 1..client'.cursor \subseteq shown'
      BY <2>1 DEF NothingSlips
    <3> QED BY <2>1, <3>7, <3>8 DEF NothingSlips, Held, Way
  <2> QED BY <1>6, <2>3, <2>4, PopMoves
<1>7. ASSUME NEW p \in Pollers, PollForward(p)
      PROVE  NothingSlips'
  <2>1. /\ UNCHANGED <<stored, lost, pushing, list, client, registered>>
        /\ shown' = IF registered THEN shown \cup {poller[p].event} ELSE shown
    BY <1>7 DEF PollForward, Forward
  <2>2. PICK r : PollerMoves(p, r)
    BY <1>7, BackToPoll DEF Quiet
  <2>3. Way \subseteq Way'
    BY <2>1
  <2>4. CASE registered
    <3>1. \A e \in 1..stored : Held(e) => e \in Way' \/ Held(e)'
      BY <1>b, <2>1, <2>2, <2>4
    <3> QED BY <1>a, <2>1, <2>3, <3>1
  <2>5. CASE ~registered
    <3>1. client.pc \in {"off", "snapshot"}
      BY <2>5 DEF PollersFit, Typed, ClientStates
    <3>2. CASE client.pc = "off"
      BY <2>1, <3>2 DEF NothingSlips
    <3>3. CASE client.pc = "snapshot"
      <4>1. \A e \in 1..stored : e \in shown \/ e > client.cursor
        BY <1>0, <3>3 DEF NothingSlips, Typed, ClientStates
      <4> QED BY <2>1, <3>3, <4>1 DEF NothingSlips
    <3> QED BY <3>1, <3>2, <3>3
  <2> QED BY <2>4, <2>5
<1>8. ASSUME NEW p \in Pollers, Replay(p)
      PROVE  NothingSlips'
  <2> DEFINE due == ListEventsAfter(poller[p].since)
  <2>1. /\ UNCHANGED <<stored, pushing, list, registered>>
        /\ client' = IF poller[p].own THEN [client EXCEPT !.pc = "on"] ELSE client
        /\ \/ shown' = (IF registered THEN shown \cup due ELSE shown) /\ lost' = lost
           \/ shown' = shown /\ lost' = lost \cup due
    BY <1>8 DEF Replay, Forward, NoFault, Fault
  <2> HIDE DEF due
  <2>2. poller[p].event = 0 /\ \E r : PollerMoves(p, r)
    BY <1>8, <1>d, BackToPoll DEF Quiet, Replay
  <2>3. \A e \in 1..stored : Held(e) => Held(e)'
    <3>1. \A x \in 1..stored : x # 0
      BY <1>0
    <3> QED BY <1>b, <2>2, <3>1
  <2>4. shown \subseteq shown' /\ Way \subseteq Way'
    BY <2>1
  <2>5. CASE ~poller[p].own
    BY <1>a, <2>1, <2>3, <2>4, <2>5
  <2>6. CASE poller[p].own
    <3>1. registered /\ client.pc = "replay" /\ poller[p].since = client.cursor
      BY <2>6 DEF PollersFit
    <3>2. client \in ClientStates /\ client.cursor \in 0..stored
      BY DEF Typed, ClientStates
    <3>3. client'.pc = "on" /\ client'.cursor = client.cursor
      BY <2>1, <2>6, <3>2 DEF ClientStates
    <3>4. \A e \in 1..stored : e > client.cursor => e \in due
      BY <1>0, <3>1, <3>2 DEF due, ListEventsAfter
    <3>5. due \subseteq Way'
      BY <2>1, <3>1
    <3>6. \A e \in 1..stored : e \in Way' \/ Held(e)'
      <4>1. \A e \in 1..stored : e \in Way \/ Held(e) \/ e > client.cursor
        BY <3>1 DEF NothingSlips
      <4> HIDE DEF Way, Held
      <4> QED BY <2>3, <2>4, <3>4, <3>5, <4>1
    <3>7. 1..client'.cursor \subseteq shown'
      BY <2>4, <3>1, <3>3 DEF NothingSlips
    <3> QED BY <2>1, <3>3, <3>6, <3>7 DEF NothingSlips
  <2> QED BY <2>5, <2>6
<1>9. CASE Subscribe
  <2>1. UNCHANGED <<stored, shown, lost, pushing, list, client>>
    BY <1>9 DEF Subscribe
  <2>2. PICK p \in Pollers : poller[p].event = 0 /\ \E r : PollerMoves(p, r)
    BY <1>9, SubscribeMoves DEF Quiet, Rest
  <2> QED BY <1>a, <1>c, <2>1, <2>2
<1>10. CASE OtherResumes
  <2>1. UNCHANGED <<stored, shown, lost, pushing, list, client>>
    BY <1>10 DEF OtherResumes
  <2>2. PICK p \in Pollers, k \in 0..stored : Resubscribe(p, k, FALSE)
    BY <1>10 DEF OtherResumes
  <2>3. poller[p].event = 0 /\ \E r : PollerMoves(p, r)
    <3>1. poller[p] = Rest /\ \E r : PollerMoves(p, r)
      BY <2>2, ResubscribeMoves DEF Quiet
    <3> QED BY <3>1 DEF Rest
  <2> QED BY <1>a, <1>c, <2>1, <2>3
<1>11. CASE ResubscribeClient
  <2>1. UNCHANGED <<stored, shown, lost, pushing, list>>
    BY <1>11 DEF ResubscribeClient
  <2>2. PICK p \in Pollers : Resubscribe(p, client.cursor, TRUE)
    BY <1>11 DEF ResubscribeClient
  <2>3. client.cursor \in 0..stored
    BY DEF Typed, ClientStates
  <2>4. poller[p].event = 0 /\ \E r : PollerMoves(p, r)
    <3>1. poller[p] = Rest /\ \E r : PollerMoves(p, r)
      BY <2>2, <2>3, ResubscribeMoves DEF Quiet
    <3> QED BY <3>1 DEF Rest
  <2>5. client.pc = "registered" /\ client'.pc = "replay" /\ client'.cursor = client.cursor
    BY <1>11 DEF ResubscribeClient, Typed, ClientStates
  <2>6. Way \subseteq Way' /\ \A e \in 1..stored : Held(e) => Held(e)'
    BY <1>c, <2>1, <2>4
  <2>7. \A e \in 1..stored : e \in Way' \/ Held(e)' \/ e > client.cursor
    <3>1. \A e \in 1..stored : e \in Way \/ Held(e) \/ e > client.cursor
      BY <2>5 DEF NothingSlips
    <3> HIDE DEF Way, Held
    <3> QED BY <2>6, <3>1
  <2>8. 1..client'.cursor \subseteq shown'
    BY <2>1, <2>5 DEF NothingSlips
  <2> QED BY <2>1, <2>5, <2>7, <2>8 DEF NothingSlips
<1>12. CASE Leave \/ UNCHANGED vars
  <2>1. UNCHANGED <<stored, shown, lost, pushing, list, poller, client>>
    BY <1>12 DEF Leave
  <2> QED BY <2>1 DEF NothingSlips
<1>13. CASE SnapshotRoom
  <2>1. stored' = stored /\ shown' = 1..stored /\ client'.cursor = stored
    BY <1>13 DEF SnapshotRoom
  <2> QED BY <2>1 DEF NothingSlips
<1>14. CASE Register
  <2>1. UNCHANGED <<stored, shown, lost, pushing, list, poller>>
    BY <1>14 DEF Register
  <2>2. client.pc = "snapshot" /\ client'.pc = "registered" /\ client'.cursor = client.cursor
    BY <1>14 DEF Register, Typed, ClientStates
  <2> QED BY <2>1, <2>2 DEF NothingSlips
<1>15. CASE Unregister
  <2>1. client'.pc = "off"
    BY <1>15 DEF Unregister, Off
  <2> QED BY <2>1 DEF NothingSlips
<1> QED
  BY <1>1, <1>2, <1>3, <1>4, <1>5, <1>6, <1>7, <1>8, <1>9, <1>10, <1>11, <1>12, <1>13, <1>14, <1>15
  DEF Next, Poll, Login

-----------------------------------------------------------------------------
(* The feed's invariant with all its parts: the typed state, one place for *)
(* each event, pollers that fit the login, and nothing that slips past.    *)
THEOREM FeedInductive == Spec => []IInv
<1>1. Init => IInv
  <2> SUFFICES ASSUME Init PROVE IInv
    OBVIOUS
  <2>1. MaxEvents \in Nat /\ MaxLogins \in Nat /\ MaxFaults \in Nat
    BY BoundAssumption
  <2>2. stored = 0 /\ pushing = {} /\ list = <<>> /\ shown = {} /\ lost = {}
        /\ poller = [p \in Pollers |-> Rest] /\ client = Off /\ handle = None /\ registered = FALSE
        /\ logins = 0 /\ faults = 0
    BY DEF Init
  <2>3. Rest \in PollerStates /\ Off \in ClientStates
    BY <2>2 DEF Rest, Off, PollerStates, ClientStates
  <2>4. list \in Seq(1..stored)
    BY <2>2, EmptySeq
  <2>5. Typed
    <3>1. poller \in [Pollers -> PollerStates] /\ client \in ClientStates
      BY <2>2, <2>3
    <3>2. 0 \in 0..MaxEvents /\ 0 \in 0..MaxLogins /\ 0 \in 0..MaxFaults
      BY <2>1
    <3> QED BY <2>2, <2>4, <3>1, <3>2 DEF Typed
  <2>6. \A p \in Pollers : poller[p].event = 0 /\ poller[p].pc = "none" /\ ~poller[p].own
    BY <2>2 DEF Rest
  <2>7. IsInjective(<<>>) /\ ToSet(<<>>) = {}
    BY EmptySeq DEF IsInjective, ToSet
  <2>8. PushedOnce
    BY <2>2, <2>6, <2>7 DEF PushedOnce
  <2>9. PollersFit
    BY <2>2, <2>6 DEF PollersFit, Off
  <2>10. NothingSlips
    BY <2>2 DEF NothingSlips, Off
  <2> QED BY <2>5, <2>8, <2>9, <2>10 DEF IInv
<1>2. IInv /\ [Next]_vars => IInv'
  BY TypedStep, PushedOnceStep, PollersFitStep, NothingSlipsStep DEF IInv
<1> QED BY <1>1, <1>2, PTL DEF Spec

(* An event waits to be pushed, stands in the room's list or is held by    *)
(* one poller, never two of these; and from a login on every stored event  *)
(* is shown, at one of these places, still to be replayed or lost by a     *)
(* fault, whatever pollers come and go (RoomEventQueue, pollRoomEvents).   *)
THEOREM FeedSound == Spec => []FeedInv
<1>1. IInv => FeedInv
  <2> SUFFICES ASSUME IInv PROVE Len(list) <= MaxEvents
    BY DEF IInv, FeedInv, TypeOK, Typed
  <2>1. stored \in Nat /\ stored <= MaxEvents /\ MaxEvents \in Nat
    BY BoundAssumption DEF IInv, Typed
  <2>2. list \in Seq(1..stored) /\ IsInjective(list)
    BY DEF IInv, Typed, PushedOnce
  <2>3. Len(list) \in Nat /\ Len(list) <= stored
    BY <2>1, <2>2, InjectiveIsShort, LenProperties
  <2> QED BY <2>1, <2>3
<1> QED BY <1>1, FeedInductive, PTL

-----------------------------------------------------------------------------
(* The steps of the feed are steps of EventFeed, or nothing it can see.    *)

(* What a fault takes away is lost, and nothing else happens to the view.  *)
LEMMA FaultLoses ==
    ASSUME IInv, NEW kind, NEW E, E \subseteq 1..stored, Fault(kind, E) \/ NoFault,
           UNCHANGED <<stored, shown, registered, handle>>
    PROVE  Feed!Lose
<1>1. lost \subseteq lost' /\ lost' \subseteq 1..stored
  <2>1. CASE Fault(kind, E)
    BY <2>1 DEF Fault, IInv, Typed
  <2>2. CASE NoFault
    BY <2>2 DEF NoFault, IInv, Typed
  <2> QED BY <2>1, <2>2
<1> QED BY <1>1 DEF Feed!Lose

(* What is forwarded is shown to a registered player, and to nobody else.  *)
LEMMA ForwardShows ==
    ASSUME IInv, NEW E \in SUBSET (1..stored), Forward(E),
           UNCHANGED <<stored, lost, registered, handle>>
    PROVE  [Feed!Next]_Feed!feed
<1>1. CASE registered /\ E # {}
  <2>1. PICK e \in E : TRUE
    BY <1>1
  <2>2. e \in 1..stored /\ shown' = shown \cup {e} \cup E
    BY <1>1 DEF Forward
  <2>3. Feed!Show(e)
    BY <2>2 DEF Feed!Show
  <2> QED BY <2>2, <2>3 DEF Feed!Next
<1>2. CASE ~(registered /\ E # {})
  <2>1. shown' = shown
    BY <1>2 DEF Forward
  <2> QED BY <2>1 DEF Feed!feed
<1> QED BY <1>1, <1>2

(* Coming and going of pollers and connections is switching, or nothing.   *)
LEMMA SwitchOrNothing ==
    ASSUME UNCHANGED <<stored, shown, lost>>
    PROVE  [Feed!Next]_Feed!feed
<1>1. CASE (registered /\ handle # None)' <=> (registered /\ handle # None)
  BY <1>1 DEF Feed!feed
<1>2. CASE ~((registered /\ handle # None)' <=> (registered /\ handle # None))
  BY <1>2 DEF Feed!Next, Feed!Switch
<1> QED BY <1>1, <1>2

(* Spec implements the safety part of EventFeed: the view of a player who  *)
(* logs in starts with a prefix of the room's events and grows by stored   *)
(* events only, an event counts as lost only when a fault took it, and     *)
(* nothing is shown as a side effect of switching pollers (gateway/remote).*)
(* That every event is shown in the end is liveness, and left to TLC.      *)
THEOREM FeedImplemented == Spec => Feed!Safety
<1>1. Init => Feed!Init
  BY DEF Init, Feed!Init
<1>2. IInv /\ [Next]_vars => [Feed!Next]_Feed!feed
  <2> SUFFICES ASSUME IInv, [Next]_vars PROVE [Feed!Next]_Feed!feed
    OBVIOUS
  <2>0. stored \in Nat
    BY RestTyped DEF IInv
  <2>1. CASE Store
    BY <2>1 DEF Store, Feed!Next, Feed!Store
  <2>2. ASSUME NEW e \in pushing, PublishToRedis(e)
        PROVE  Feed!Lose
    <3>1. {e} \subseteq 1..stored
      BY DEF IInv, Typed
    <3>2. UNCHANGED <<stored, shown, registered, handle>> /\ (Fault("push", {e}) \/ NoFault)
      BY <2>2 DEF PublishToRedis
    <3> QED BY <3>1, <3>2, FaultLoses
  <2>3. CASE Expire
    <3>1. ToSet(list) \subseteq 1..stored
      BY LenProperties DEF IInv, Typed, ToSet
    <3>2. UNCHANGED <<stored, shown, registered, handle>> /\ Fault("expire", ToSet(list))
      BY <2>3 DEF Expire
    <3> QED BY <3>1, <3>2, FaultLoses DEF Feed!Next
  <2>4. CASE OtherGatePops
    <3>1. {Head(list)} \subseteq 1..stored
      BY <2>4, HeadTailProperties DEF OtherGatePops, IInv, Typed
    <3>2. UNCHANGED <<stored, shown, registered, handle>> /\ Fault("gate", {Head(list)})
      BY <2>4 DEF OtherGatePops
    <3> QED BY <3>1, <3>2, FaultLoses DEF Feed!Next
  <2>5. ASSUME NEW p \in Pollers, PollLoop(p) \/ RoomEventQueuePop(p)
        PROVE  [Feed!Next]_Feed!feed
    <3>1. UNCHANGED <<stored, shown, lost>>
      BY <2>5 DEF PollLoop, RoomEventQueuePop
    <3> QED BY <3>1, SwitchOrNothing
  <2>6. ASSUME NEW p \in Pollers, PollForward(p)
        PROVE  [Feed!Next]_Feed!feed
    <3>1. UNCHANGED <<stored, lost, registered, handle>> /\ Forward({poller[p].event})
      BY <2>6 DEF PollForward
    <3>2. poller[p] \in PollerStates /\ poller[p].pc = "forward"
      BY <2>6, RestTyped DEF PollForward, IInv
    <3>3. poller[p].event \in 0..stored /\ poller[p].event # 0
      BY <3>2 DEF PollerStates, IInv, PollersFit
    <3>4. {poller[p].event} \in SUBSET (1..stored)
      BY <2>0, <3>3
    <3> QED BY <3>1, <3>4, ForwardShows
  <2>7. ASSUME NEW p \in Pollers, Replay(p)
        PROVE  [Feed!Next]_Feed!feed
    <3> DEFINE due == ListEventsAfter(poller[p].since)
    <3>1. due \in SUBSET (1..stored)
      <4>1. poller[p].since \in 0..stored
        BY RestTyped DEF PollerStates, IInv
      <4> QED BY <2>0, <4>1 DEF ListEventsAfter
    <3>2. /\ UNCHANGED <<stored, registered, handle>>
          /\ (Forward(due) /\ NoFault) \/ (Fault("replay", due) /\ UNCHANGED shown)
      BY <2>7 DEF Replay
    <3> HIDE DEF due
    <3>3. CASE Forward(due) /\ NoFault
      BY <3>1, <3>2, <3>3, ForwardShows DEF NoFault
    <3>4. CASE Fault("replay", due) /\ UNCHANGED shown
      BY <3>1, <3>2, <3>4, FaultLoses DEF Feed!Next
    <3> QED BY <3>2, <3>3, <3>4
  <2>8. CASE Subscribe \/ Leave \/ OtherResumes \/ Register \/ ResubscribeClient \/ Unregister
    <3>1. UNCHANGED <<stored, shown, lost>>
      BY <2>8 DEF Subscribe, Leave, OtherResumes, Register, ResubscribeClient, Unregister
    <3> QED BY <3>1, SwitchOrNothing
  <2>9. CASE SnapshotRoom
    <3>1. stored' = stored /\ lost' = lost /\ shown' = 1..stored /\ registered' = FALSE
      BY <2>9 DEF SnapshotRoom
    <3>2. stored \in 0..stored
      BY <2>0
    <3> QED BY <3>1, <3>2 DEF Feed!Next, Feed!Connect
  <2>10. CASE UNCHANGED vars
    BY <2>10 DEF Feed!feed
  <2> QED
    BY <2>1, <2>2, <2>3, <2>4, <2>5, <2>6, <2>7, <2>8, <2>9, <2>10 DEF Next, Poll, Login, Feed!Next
<1> QED BY <1>1, <1>2, FeedInductive, PTL DEF Spec, Feed!Safety
=============================================================================
