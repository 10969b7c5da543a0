--------------------------- MODULE RoomActorProofs ---------------------------
(***************************************************************************)
(* RoomActor for every number of callers, players, connections and mailbox *)
(* slots: nobody is left waiting, no deadline is missed unseen, an offline *)
(* timer follows the last signal and a shutdown leaves nothing behind.     *)
(***************************************************************************)
EXTENDS RoomActor, TLAPS

(* The inductive invariant: the safety properties and what they rest on.   *)
IInv == ActorInv /\ NobodyLeftWaiting /\ ExpiredDeadlineWatched

-----------------------------------------------------------------------------
(* The mailbox. *)

(* Taking a message shifts the others by one place.                        *)
LEMMA Shifted ==
    ASSUME TypeOK, mailbox # <<>>, mailbox' = Tail(mailbox)
    PROVE  /\ mailbox' \in Seq(Messages)
           /\ Len(mailbox') = Len(mailbox) - 1
           /\ Len(mailbox) \in Nat \ {0}
           /\ Head(mailbox) = mailbox[1] /\ mailbox[1] \in Messages
           /\ DOMAIN mailbox = 1..Len(mailbox)
           /\ DOMAIN mailbox' = 1..(Len(mailbox) - 1)
           /\ \A i \in DOMAIN mailbox : mailbox[i] \in Messages
           /\ \A i \in DOMAIN mailbox' : i + 1 \in DOMAIN mailbox
                                      /\ mailbox'[i] = mailbox[i + 1]
<1>1. Len(mailbox) \in Nat \ {0} /\ Len(mailbox') = Len(mailbox) - 1
  BY DEF TypeOK
<1>2. DOMAIN mailbox = 1..Len(mailbox) /\ DOMAIN mailbox' = 1..(Len(mailbox) - 1)
  BY <1>1 DEF TypeOK
<1>3. \A i \in 1..(Len(mailbox) - 1) : i + 1 \in 1..Len(mailbox)
  BY <1>1
<1>4. QED
  BY <1>1, <1>2, <1>3 DEF TypeOK

(* A message that is queued comes last and leaves the others in place.     *)
LEMMA Appended ==
    ASSUME TypeOK, NEW m \in Messages, Enqueue(m)
    PROVE  /\ mailbox' \in Seq(Messages)
           /\ Len(mailbox') = Len(mailbox) + 1 /\ Len(mailbox') <= Capacity
           /\ Len(mailbox) \in Nat
           /\ DOMAIN mailbox = 1..Len(mailbox)
           /\ DOMAIN mailbox' = 1..(Len(mailbox) + 1)
           /\ \A i \in DOMAIN mailbox : mailbox[i] \in Messages
           /\ \A i \in DOMAIN mailbox : mailbox'[i] = mailbox[i]
           /\ mailbox'[Len(mailbox) + 1] = m
  BY CapacityAssumption DEF TypeOK, Enqueue, Full

(* What the commands, callers and timers queue are messages. *)
LEMMA Sent ==
    ASSUME TypeOK
    PROVE  /\ \A c \in Callers : Msg("read", c, NoOne) \in Messages
           /\ \A c \in Callers, u \in Users, kind \in {"act", "ready", "leave"} :
                 Msg(kind, c, u) \in Messages
           /\ \A u \in Users, kind \in {"markOffline", "cancelOffline"} :
                 Msg(kind, NoOne, u) \in Messages
           /\ \A kind \in {"timeout", "shutdown"} : Msg(kind, NoOne, NoOne) \in Messages
           /\ \A u \in Users :
                 [Msg("offlineTimeout", NoOne, u) EXCEPT
                     !.gen = gens[u], !.signal = signal[u]] \in Messages
  BY DEF TypeOK, Msg, Messages

-----------------------------------------------------------------------------
(* Types. *)

LEMMA InitType == Init => TypeOK
<1> SUFFICES ASSUME Init PROVE TypeOK
  OBVIOUS
<1>1. fires \in FireCounts
  BY DEF Init, FireCounts
<1>2. round \in BOOLEAN /\ timer \in BOOLEAN
  BY DEF Init
<1>3. draining \in BOOLEAN /\ lost \in BOOLEAN /\ closed \in BOOLEAN
  BY DEF Init
<1>4. otimer \in [Users -> BOOLEAN] /\ online \in [Users -> BOOLEAN]
  BY DEF Init
<1>5. mailbox \in Seq(Messages) /\ Len(mailbox) <= Capacity /\ drops \in 0..MaxDrops
  BY CapacityAssumption, BoundAssumption DEF Init
<1>6. QED
  BY <1>1, <1>2, <1>3, <1>4, <1>5 DEF Init, TypeOK

(* The parts of TypeOK that take more than one look. *)
MailboxType == mailbox \in Seq(Messages) /\ Len(mailbox) <= Capacity
OfflineType == otimer \in [Users -> BOOLEAN] /\ gens \in [Users -> Nat]
TimerType == /\ timer \in BOOLEAN /\ draining \in BOOLEAN /\ lost \in BOOLEAN
             /\ fires \in FireCounts

LEMMA TakeType ==
    ASSUME TypeOK, NEW kind, Take(kind)
    PROVE  MailboxType'
  BY Shifted, CapacityAssumption DEF TypeOK, Take, MailboxType

LEMMA NextGeneration ==
    ASSUME TypeOK, NEW u
    PROVE  [gens EXCEPT ![u] = @ + 1] \in [Users -> Nat]
<1>1. CASE u \in Users
  BY <1>1 DEF TypeOK
<1>2. CASE u \notin Users
  BY <1>2 DEF TypeOK
<1>3. QED
  BY <1>1, <1>2

LEMMA CancelType ==
    ASSUME TypeOK, NEW u, CancelOfflineTimer(u)
    PROVE  OfflineType'
  BY NextGeneration DEF TypeOK, CancelOfflineTimer, OfflineType

LEMMA ResetType ==
    ASSUME TypeOK, NEW f \in FireCounts,
           ResetScheduler(f)
    PROVE  TimerType'
<1>1. (timer \in BOOLEAN /\ draining \in BOOLEAN /\ lost \in BOOLEAN)'
  BY DEF TypeOK, ResetScheduler
<1>2. CASE deadline' = "expired" /\ ~draining
  BY <1>1, <1>2 DEF ResetScheduler, TimerType, FireCounts
<1>3. CASE ~(deadline' = "expired" /\ ~draining)
  BY <1>1, <1>3 DEF ResetScheduler, TimerType, FireCounts
<1>4. QED
  BY <1>2, <1>3

LEMMA FireMoves ==
    ASSUME NEW f \in FireCounts
    PROVE  /\ [f EXCEPT !.callback = @ + 1] \in FireCounts
           /\ [f EXCEPT !.start = @ + 1] \in FireCounts
           /\ f.start > 0 => \A n \in Nat :
                 [f EXCEPT !.start = @ - 1, !.sending = @ + n] \in FireCounts
           /\ f.sending > 0 => [f EXCEPT !.sending = @ - 1] \in FireCounts
           /\ f.callback > 0 => [f EXCEPT !.callback = @ - 1] \in FireCounts
<1> USE DEF FireCounts
<1>1. [f EXCEPT !.callback = @ + 1] \in FireCounts /\ [f EXCEPT !.start = @ + 1] \in FireCounts
  OBVIOUS
<1>2. ASSUME f.start > 0, NEW n \in Nat
      PROVE  [f EXCEPT !.start = @ - 1, !.sending = @ + n] \in FireCounts
  <2>1. f.start - 1 \in Nat /\ f.sending + n \in Nat
    BY <1>2
  <2>2. QED
    BY <2>1
<1>3. ASSUME f.sending > 0 PROVE [f EXCEPT !.sending = @ - 1] \in FireCounts
  <2>1. f.sending - 1 \in Nat
    BY <1>3
  <2>2. QED
    BY <2>1
<1>4. ASSUME f.callback > 0 PROVE [f EXCEPT !.callback = @ - 1] \in FireCounts
  <2>1. f.callback - 1 \in Nat
    BY <1>4
  <2>2. QED
    BY <2>1
<1>5. QED
  BY <1>1, <1>2, <1>3, <1>4

LEMMA SameTimerType ==
    ASSUME TypeOK
    PROVE  /\ UNCHANGED timerVars => TimerType'
           /\ fires \in FireCounts
  BY DEF TypeOK, timerVars, TimerType

LEMMA LoopType ==
    ASSUME TypeOK, RunStep
    PROVE  TypeOK'
<1> USE DEF roundVars, loopVars, timerVars, offlineVars, clientVars
<1> USE DEF MailboxType, OfflineType, TimerType, Take
<1>1. CASE HandleAct
  <2>1. MailboxType'
    BY <1>1, TakeType DEF HandleAct
  <2>2. OfflineType'
    BY <1>1, CancelType DEF HandleAct
  <2>3. TimerType'
    BY <1>1, ResetType, SameTimerType DEF HandleAct
  <2>4. QED
    BY <1>1, <2>1, <2>2, <2>3, ZenonT(60) DEF TypeOK, HandleAct, LoopOn, Keep, Answered, Advance, Stall, Finish
<1>2. CASE HandleReady
  <2>1. MailboxType'
    BY <1>2, TakeType DEF HandleReady
  <2>2. OfflineType'
    BY <1>2, CancelType DEF HandleReady
  <2>3. TimerType'
    BY <1>2, ResetType, SameTimerType DEF HandleReady
  <2>4. QED
    BY <1>2, <2>1, <2>2, <2>3 DEF TypeOK, HandleReady, LoopOn, Keep, Answered, Start
<1>3. CASE HandleLeave
  <2>1. MailboxType'
    BY <1>3, TakeType DEF HandleLeave
  <2>2. OfflineType'
    BY <1>3, CancelType DEF HandleLeave
  <2>3. TimerType'
    BY <1>3, ResetType, SameTimerType DEF HandleLeave
  <2>4. QED
    BY <1>3, <2>1, <2>2, <2>3 DEF TypeOK, HandleLeave, LoopOn, Keep, Answered
<1>4. CASE HandleRead
  <2>1. MailboxType'
    BY <1>4, TakeType DEF HandleRead
  <2>2. (call \in [Callers -> {"idle", "sending", "waiting", "answered",
                              "refused", "cancelled"}])'
    BY <1>4 DEF TypeOK, HandleRead, Answered
  <2>3. run' \in {"loop", "closing", "draining", "exited"}
    BY <1>4 DEF HandleRead, LoopOn
  <2>4. QED
    BY <1>4, <2>1, <2>2, <2>3 DEF TypeOK, HandleRead, Keep
<1>5. CASE HandleTimeout
  <2>1. MailboxType'
    BY <1>5, TakeType DEF HandleTimeout
  <2>2. [fires EXCEPT !.callback = @ + 1] \in FireCounts
    BY SameTimerType, FireMoves
  <2>3. TimerType'
    BY <1>5, <2>2, ResetType, SameTimerType DEF HandleTimeout
  <2>4. QED
    BY <1>5, <2>1, <2>3 DEF TypeOK, HandleTimeout, LoopOn, Keep, Answered, Advance, Stall, Finish
<1>6. CASE HandleMarkOffline
  <2>1. MailboxType'
    BY <1>6, TakeType DEF HandleMarkOffline
  <2>2. CASE draining
    BY <1>6, <2>1, <2>2 DEF TypeOK, HandleMarkOffline, LoopOn, Keep
  <2>3. CASE ~draining
    <3>1. otimer' \in [Users -> BOOLEAN]
      BY <1>6, <2>3 DEF HandleMarkOffline, TypeOK
    <3>2. gens' \in [Users -> Nat]
      <4>1. gens' = [gens EXCEPT ![Head(mailbox).user] = @ + 1]
        BY <1>6, <2>3 DEF HandleMarkOffline
      <4>2. QED
        BY <4>1, NextGeneration
    <3>3. QED
      BY <1>6, <2>1, <3>1, <3>2 DEF TypeOK, HandleMarkOffline, LoopOn, Keep
  <2>4. QED
    BY <2>2, <2>3
<1>7. CASE HandleCancelOffline
  <2>1. MailboxType'
    BY <1>7, TakeType DEF HandleCancelOffline
  <2>2. OfflineType'
    BY <1>7, CancelType DEF HandleCancelOffline
  <2>3. QED
    BY <1>7, <2>1, <2>2 DEF TypeOK, HandleCancelOffline, LoopOn, Keep, Answered
<1>8. CASE HandleOfflineTimeout
  <2>1. MailboxType'
    BY <1>8, TakeType DEF HandleOfflineTimeout
  <2>2. TimerType'
    BY <1>8, ResetType, SameTimerType DEF HandleOfflineTimeout
  <2>3. QED
    BY <1>8, <2>1, <2>2 DEF TypeOK, HandleOfflineTimeout, LoopOn, Keep, Answered
<1>9. CASE HandleShutdown
  <2>1. MailboxType'
    BY <1>9, TakeType DEF HandleShutdown
  <2>2. QED
    BY <1>9, <2>1 DEF TypeOK, HandleShutdown, LoopOn, Keep, Answered
<1>10. CASE Close
  BY <1>10 DEF TypeOK, Close
<1>11. CASE Drain
  <2>1. MailboxType'
    BY <1>11, Shifted, CapacityAssumption DEF TypeOK, Drain
  <2>2. QED
    BY <1>11, <2>1 DEF TypeOK, Drain, RejectPendingMsg, Answered
<1>12. CASE Exit
  BY <1>12, ZenonT(60) DEF TypeOK, Exit
<1>13. QED
  BY <1>1, <1>2, <1>3, <1>4, <1>5, <1>6, <1>7, <1>8, <1>9, <1>10, <1>11, <1>12
     DEF RunStep
LEMMA TypeStep ==
    ASSUME TypeOK, [Next]_vars
    PROVE  TypeOK'
<1> USE DEF roundVars, loopVars, timerVars, offlineVars, clientVars, MailboxType
<1>1. CASE RunStep
  BY <1>1, LoopType
<1>2. ASSUME NEW c \in Callers, Begin(c) \/ Send(c) \/ GiveUp(c)
      PROVE  TypeOK'
  <2>1. CASE Begin(c)
    <3>1. call' \in [Callers -> {"idle", "sending", "waiting", "answered",
                                "refused", "cancelled"}]
      BY <2>1 DEF TypeOK, Begin
    <3>2. lock' \in Callers \cup {Free, "shutdown"}
      BY <2>1 DEF TypeOK, Begin
    <3>3. QED
      BY <2>1, <3>1, <3>2 DEF TypeOK, Begin
  <2>2. CASE Send(c)
    <3>1. MailboxType'
      BY <2>2, Sent, Appended DEF TypeOK, Send, SendRead, SendCommand
    <3>2. signal' \in [Users -> {"on", "off"}]
      BY <2>2 DEF TypeOK, Send, SendRead, SendCommand
    <3>3. call' \in [Callers -> {"idle", "sending", "waiting", "answered",
                                "refused", "cancelled"}]
      BY <2>2 DEF TypeOK, Send, SendRead, SendCommand
    <3>4. QED
      BY <2>2, <3>1, <3>2, <3>3 DEF TypeOK, Send
  <2>3. CASE GiveUp(c)
    BY <2>3 DEF TypeOK, GiveUp
  <2>4. QED
    BY <1>2, <2>1, <2>2, <2>3
<1>3. CASE Tick \/ TimerFires \/ FireCheck \/ FireDone
  <2>1. fires' \in FireCounts
    <3>1. fires \in FireCounts
      BY SameTimerType
    <3>2. CASE FireCheck
      BY <3>1, <3>2, FireMoves DEF FireCheck
    <3>3. QED
      BY <1>3, <3>1, <3>2, FireMoves DEF Tick, TimerFires, FireDone
  <2>2. timer' \in BOOLEAN /\ UNCHANGED <<draining, lost>>
    BY <1>3 DEF TypeOK, Tick, TimerFires, FireCheck, FireDone
  <2>3. deadline' \in {"none", "running", "expired"} /\ UNCHANGED <<room, round>>
    BY <1>3 DEF TypeOK, Tick, TimerFires, FireCheck, FireDone
  <2>4. UNCHANGED <<loopVars, offlineVars, clientVars, call, shut>>
    BY <1>3 DEF Tick, TimerFires, FireCheck, FireDone
  <2>5. QED
    BY <2>1, <2>2, <2>3, <2>4 DEF TypeOK
<1>4. CASE FireSubmit
  <2>1. MailboxType'
    BY <1>4, Sent, Appended DEF TypeOK, FireSubmit
  <2>2. fires' \in FireCounts
    BY <1>4, SameTimerType, FireMoves DEF FireSubmit
  <2>3. lost' \in BOOLEAN
    BY <1>4 DEF TypeOK, FireSubmit
  <2>4. UNCHANGED <<roundVars, run, closed, lock, timer, draining, offlineVars,
                    clientVars, call, shut>>
    BY <1>4 DEF FireSubmit
  <2>5. QED
    BY <2>1, <2>2, <2>3, <2>4 DEF TypeOK
<1>5. ASSUME NEW u \in Users, Drop(u) \/ Notice(u) \/ Reconnect(u) \/ OfflineExpire(u)
      PROVE  TypeOK'
  <2>1. CASE Drop(u)
    BY <2>1, BoundAssumption DEF TypeOK, Drop
  <2>2. CASE Notice(u)
    <3>1. MailboxType'
      BY <2>2, Sent, Appended DEF TypeOK, Notice, SubmitSignal
    <3>2. QED
      BY <2>2, <3>1 DEF TypeOK, Notice, SubmitSignal
  <2>3. CASE Reconnect(u)
    <3>1. MailboxType'
      BY <2>3, Sent, Appended DEF TypeOK, Reconnect, SubmitSignal
    <3>2. QED
      BY <2>3, <3>1, SMTT(30) DEF TypeOK, Reconnect, SubmitSignal
  <2>4. CASE OfflineExpire(u)
    <3>1. MailboxType'
      BY <2>4, Sent, Appended DEF TypeOK, OfflineExpire
    <3>2. QED
      BY <2>4, <3>1 DEF TypeOK, OfflineExpire
  <2>5. QED
    BY <1>5, <2>1, <2>2, <2>3, <2>4
<1>6. CASE ShutdownBegin \/ ShutdownExpire \/ ShutdownReturn
  BY <1>6 DEF TypeOK, ShutdownBegin, ShutdownExpire, ShutdownReturn
<1>7. CASE ShutdownSend
  <2>1. MailboxType'
    BY <1>7, Sent, Appended DEF TypeOK, ShutdownSend
  <2>2. QED
    BY <1>7, <2>1 DEF TypeOK, ShutdownSend
<1>8. CASE UNCHANGED vars
  BY <1>8 DEF TypeOK, vars
<1>9. QED
  BY <1>1, <1>2, <1>3, <1>4, <1>5, <1>6, <1>7, <1>8 DEF Next
-----------------------------------------------------------------------------
(* The lock. *)

LEMMA LockStep ==
    ASSUME TypeOK, LockIsSending, [Next]_vars
    PROVE  LockIsSending'
<1> USE DEF roundVars, loopVars, timerVars, offlineVars, clientVars
<1>1. ASSUME UNCHANGED <<closed, lock, shut>>, run = "loop", LoopOn,
             call' = call \/ \E c : call' = Answered(c)
      PROVE  LockIsSending'
  <2>1. \A c \in Callers : call'[c] = "sending" <=> call[c] = "sending"
    BY <1>1 DEF TypeOK, Answered
  <2>2. QED
    BY <1>1, <2>1 DEF LockIsSending, LoopOn
<1>2. CASE HandleAct \/ HandleReady \/ HandleLeave \/ HandleRead
  BY <1>1, <1>2 DEF HandleAct, HandleReady, HandleLeave, HandleRead, Take
<1>3. CASE HandleTimeout \/ HandleMarkOffline \/ HandleCancelOffline \/ HandleOfflineTimeout
  BY <1>1, <1>3 DEF HandleTimeout, HandleMarkOffline, HandleCancelOffline,
                    HandleOfflineTimeout, Take
<1>4. CASE HandleShutdown
  BY <1>4 DEF LockIsSending, HandleShutdown, Take, LoopOn
<1>5. CASE Close \/ Exit
  BY <1>5 DEF LockIsSending, Close, Exit
<1>6. CASE Drain
  <2>1. \A c \in Callers : call'[c] = "sending" <=> call[c] = "sending"
    BY <1>6 DEF TypeOK, Drain, RejectPendingMsg, Answered
  <2>2. QED
    BY <1>6, <2>1 DEF LockIsSending, Drain, RejectPendingMsg
<1>7. ASSUME NEW c \in Callers, Begin(c) \/ Send(c) \/ GiveUp(c)
      PROVE  LockIsSending'
  <2>1. c # Free /\ c # "shutdown" /\ "shutdown" # Free
    BY NameAssumption
  <2>2. CASE Begin(c)
    <3>1. CASE closed
      BY <2>2, <3>1 DEF LockIsSending, TypeOK, Begin
    <3>2. CASE ~closed
      <4>1. /\ UNCHANGED <<run, closed, shut>> /\ lock' = c /\ lock = Free
            /\ call' = [call EXCEPT ![c] = "sending"]
        BY <2>2, <3>2 DEF Begin
      <4>2. \A d \in Callers : call'[d] = "sending" <=> d = c
        BY <4>1, NameAssumption DEF LockIsSending, TypeOK
      <4>3. QED
        BY <2>1, <3>2, <4>1, <4>2 DEF LockIsSending, TypeOK
    <3>3. QED
      BY <3>1, <3>2
  <2>3. CASE Send(c)
    BY <2>1, <2>3, NameAssumption DEF LockIsSending, TypeOK, Send, SendRead, SendCommand
  <2>4. CASE GiveUp(c)
    BY <2>1, <2>4, NameAssumption DEF LockIsSending, TypeOK, GiveUp
  <2>5. QED
    BY <1>7, <2>2, <2>3, <2>4
<1>8. CASE Tick \/ TimerFires \/ FireCheck \/ FireSubmit \/ FireDone
  BY <1>8 DEF LockIsSending, Tick, TimerFires, FireCheck, FireSubmit, FireDone
<1>9. ASSUME NEW u \in Users, Drop(u) \/ Notice(u) \/ Reconnect(u) \/ OfflineExpire(u)
      PROVE  LockIsSending'
  BY <1>9 DEF LockIsSending, Drop, Notice, Reconnect, OfflineExpire, SubmitSignal
<1>10. CASE ShutdownBegin \/ ShutdownSend \/ ShutdownExpire \/ ShutdownReturn
  BY <1>10, NameAssumption DEF LockIsSending, TypeOK, ShutdownBegin, ShutdownSend,
                               ShutdownExpire, ShutdownReturn
<1>11. CASE UNCHANGED vars
  BY <1>11 DEF LockIsSending, vars
<1>12. QED
  BY <1>2, <1>3, <1>4, <1>5, <1>6, <1>7, <1>8, <1>9, <1>10, <1>11 DEF Next, RunStep

-----------------------------------------------------------------------------
(* Messages and timers. *)

(* A room that loops has looped before, a drained actor stays drained, and *)
(* until then no generation is taken back.                                 *)
LEMMA GenerationsGrow ==
    ASSUME TypeOK, [Next]_vars
    PROVE  /\ run' = "loop" => run = "loop"
           /\ draining => draining'
           /\ run' = "loop" /\ ~draining' => \A u \in Users : gens'[u] >= gens[u]
<1> USE DEF roundVars, loopVars, timerVars, offlineVars, clientVars
<1>1. ASSUME UNCHANGED gens
             \/ \E u : gens' = [gens EXCEPT ![u] = @ + 1]
      PROVE  \A u \in Users : gens'[u] >= gens[u]
  <2>1. SUFFICES ASSUME NEW v \in Users PROVE gens'[v] >= gens[v]
    OBVIOUS
  <2>2. gens[v] \in Nat
    BY DEF TypeOK
  <2>3. gens'[v] = gens[v] \/ gens'[v] = gens[v] + 1
    BY <1>1 DEF TypeOK
  <2>4. QED
    BY <2>2, <2>3
<1>2. CASE HandleAct \/ HandleReady \/ HandleLeave \/ HandleRead
  BY <1>1, <1>2 DEF HandleAct, HandleReady, HandleLeave, HandleRead, Take,
                    CancelOfflineTimer, ResetScheduler
<1>3. CASE HandleTimeout \/ HandleMarkOffline \/ HandleCancelOffline \/ HandleOfflineTimeout
  BY <1>1, <1>3 DEF HandleTimeout, HandleMarkOffline, HandleCancelOffline, Take,
                    HandleOfflineTimeout, CancelOfflineTimer, ResetScheduler
<1>4. CASE HandleShutdown \/ Close \/ Drain \/ Exit
  BY <1>1, <1>4 DEF HandleShutdown, Take, Close, Drain, Exit
<1>5. ASSUME NEW c \in Callers, Begin(c) \/ Send(c) \/ GiveUp(c)
      PROVE  UNCHANGED <<run, draining, gens>>
  BY <1>5 DEF Begin, Send, GiveUp
<1>6. CASE Tick \/ TimerFires \/ FireCheck \/ FireSubmit \/ FireDone
  BY <1>1, <1>6 DEF Tick, TimerFires, FireCheck, FireSubmit, FireDone
<1>7. ASSUME NEW u \in Users, Drop(u) \/ Notice(u) \/ Reconnect(u) \/ OfflineExpire(u)
      PROVE  UNCHANGED <<run, draining, gens>>
  BY <1>7 DEF Drop, Notice, Reconnect, OfflineExpire, SubmitSignal
<1>8. CASE ShutdownBegin \/ ShutdownSend \/ ShutdownExpire \/ ShutdownReturn
  BY <1>1, <1>8 DEF ShutdownBegin, ShutdownSend, ShutdownExpire, ShutdownReturn
<1>9. CASE UNCHANGED vars
  BY <1>1, <1>9 DEF vars
<1>10. QED
  BY <1>1, <1>2, <1>3, <1>4, <1>5, <1>6, <1>7, <1>8, <1>9 DEF Next, RunStep

(* A step leaves the mailbox alone, takes its head, or adds one message    *)
(* that is as its kind says.                                               *)
LEMMA MailboxMoves ==
    ASSUME TypeOK, TimersSound, [Next]_vars
    PROVE  \/ UNCHANGED mailbox
           \/ mailbox # <<>> /\ mailbox' = Tail(mailbox)
           \/ \E m \in Messages : Enqueue(m) /\ MessageSound(m)'
<1> USE DEF roundVars, loopVars, timerVars, offlineVars, clientVars
<1>1. CASE HandleAct \/ HandleReady \/ HandleLeave \/ HandleRead \/ HandleTimeout
  BY <1>1 DEF HandleAct, HandleReady, HandleLeave, HandleRead, HandleTimeout, Take
<1>2. CASE HandleMarkOffline \/ HandleCancelOffline \/ HandleOfflineTimeout
  BY <1>2 DEF HandleMarkOffline, HandleCancelOffline, HandleOfflineTimeout, Take
<1>3. CASE HandleShutdown \/ Close \/ Drain \/ Exit
  BY <1>3 DEF HandleShutdown, Take, Close, Drain, Exit
<1>4. ASSUME NEW c \in Callers, Begin(c) \/ GiveUp(c) PROVE UNCHANGED mailbox
  BY <1>4 DEF Begin, GiveUp
<1>5. ASSUME NEW c \in Callers, Send(c), ~UNCHANGED mailbox
      PROVE  \E m \in Messages : Enqueue(m) /\ MessageSound(m)'
  <2>1. CASE SendRead(c)
    BY <2>1, Sent DEF SendRead, Msg, MessageSound
  <2>2. CASE SendCommand(c)
    <3>1. PICK kind \in {"act", "ready", "leave"}, u \in Users : Enqueue(Msg(kind, c, u))
      BY <2>2 DEF SendCommand
    <3>2. MessageSound(Msg(kind, c, u))'
      BY DEF Msg, MessageSound
    <3>3. QED
      BY <3>1, <3>2, Sent
  <2>3. QED
    BY <1>5, <2>1, <2>2 DEF Send
<1>6. CASE Tick \/ TimerFires \/ FireCheck \/ FireDone
  BY <1>6 DEF Tick, TimerFires, FireCheck, FireDone
<1>7. CASE FireSubmit
  BY <1>7, Sent, NameAssumption DEF FireSubmit, Msg, MessageSound
<1>8. ASSUME NEW u \in Users, Drop(u) PROVE UNCHANGED mailbox
  BY <1>8 DEF Drop
<1>9. ASSUME NEW u \in Users, Notice(u) \/ Reconnect(u), ~UNCHANGED mailbox
      PROVE  \E m \in Messages : Enqueue(m) /\ MessageSound(m)'
  BY <1>9, Sent, NameAssumption DEF Notice, Reconnect, SubmitSignal, Msg, MessageSound
<1>10. ASSUME NEW u \in Users, OfflineExpire(u), ~UNCHANGED mailbox
       PROVE  \E m \in Messages : Enqueue(m) /\ MessageSound(m)'
  <2>1. PICK m \in Messages :
            /\ Enqueue(m)
            /\ m = [Msg("offlineTimeout", NoOne, u) EXCEPT
                      !.gen = gens[u], !.signal = signal[u]]
    BY <1>10, Sent DEF OfflineExpire
  <2>2. m.kind = "offlineTimeout" /\ m.by = NoOne /\ m.user = u /\ m.gen = gens[u]
    BY <2>1 DEF Msg
  <2>3. gens[u] > 0 /\ UNCHANGED <<gens, run, draining>>
    BY <1>10 DEF OfflineExpire, TimersSound
  <2>4. MessageSound(m)'
    BY <2>2, <2>3, NameAssumption DEF MessageSound, TypeOK
  <2>5. QED
    BY <2>1, <2>4
<1>11. CASE ShutdownBegin \/ ShutdownExpire \/ ShutdownReturn
  BY <1>11 DEF ShutdownBegin, ShutdownExpire, ShutdownReturn
<1>12. CASE ShutdownSend
  BY <1>12, Sent, NameAssumption DEF ShutdownSend, Msg, MessageSound
<1>13. CASE UNCHANGED vars
  BY <1>13 DEF vars
<1>14. QED
  BY <1>1, <1>2, <1>3, <1>4, <1>5, <1>6, <1>7, <1>8, <1>9, <1>10, <1>11, <1>12, <1>13
     DEF Next, RunStep

LEMMA MessagesStep ==
    ASSUME TypeOK, TimersSound, [Next]_vars
    PROVE  (\A i \in DOMAIN mailbox : MessageSound(mailbox[i]))'
<1>1. ASSUME NEW m \in Messages, MessageSound(m) PROVE MessageSound(m)'
  <2>1. m.gen \in Nat
    BY DEF Messages
  <2>2. \A u \in Users : gens[u] \in Nat /\ gens'[u] \in Nat
    BY TypeStep DEF TypeOK
  <2>3. ASSUME m.kind = "offlineTimeout", run' = "loop", ~draining', m.user \in Users
        PROVE  m.gen <= gens'[m.user]
    <3>1. run = "loop" /\ ~draining /\ gens'[m.user] >= gens[m.user]
      BY <2>3, GenerationsGrow
    <3>2. m.gen <= gens[m.user]
      BY <1>1, <2>3, <3>1 DEF MessageSound
    <3>3. QED
      BY <2>1, <2>2, <2>3, <3>1, <3>2
  <2>4. QED
    BY <1>1, <2>3 DEF MessageSound
<1>2. \A i \in DOMAIN mailbox : mailbox[i] \in Messages /\ MessageSound(mailbox[i])
  BY DEF TimersSound, TypeOK
<1>3. CASE UNCHANGED mailbox
  BY <1>1, <1>2, <1>3
<1>4. CASE mailbox # <<>> /\ mailbox' = Tail(mailbox)
  BY <1>1, <1>2, <1>4, Shifted
<1>5. ASSUME NEW m \in Messages, Enqueue(m), MessageSound(m)'
      PROVE  (\A i \in DOMAIN mailbox : MessageSound(mailbox[i]))'
  <2>1. SUFFICES ASSUME NEW i \in DOMAIN mailbox' PROVE MessageSound(mailbox[i])'
    OBVIOUS
  <2>2. QED
    BY <1>1, <1>2, <1>5, Appended
<1>6. QED
  BY <1>3, <1>4, <1>5, MailboxMoves

(* The timers themselves.  ResetScheduler arms the phase timer whenever a  *)
(* deadline runs, and HandleShutdown clears what it finds.                 *)
LEMMA TimersStep ==
    ASSUME TypeOK, TimersSound, [Next]_vars
    PROVE  TimersSound'
<1> USE DEF roundVars, loopVars, timerVars, offlineVars, clientVars
<1> DEFINE Offline == \A u \in Users : otimer[u] => gens[u] > 0
           Drained == draining => ~timer /\ \A u \in Users : gens[u] = 0
           Armed == deadline = "running" /\ run = "loop" /\ ~draining => timer
<1>1. ASSUME NEW u, CancelOfflineTimer(u)
      PROVE  Offline' /\ (draining => \A v \in Users : gens'[v] = 0)
  <2>1. \A v \in Users : gens[v] \in Nat
    BY DEF TypeOK
  <2>2. QED
    BY <1>1, <2>1 DEF CancelOfflineTimer, TimersSound, TypeOK
<1>2. ASSUME NEW f, ResetScheduler(f)
      PROVE  /\ deadline' = "running" /\ ~draining' => timer'
             /\ draining' = draining /\ (draining' => ~timer')
  BY <1>2 DEF ResetScheduler
<1>3. CASE HandleAct \/ HandleReady \/ HandleLeave
  <2>1. Offline' /\ (draining => \A v \in Users : gens'[v] = 0)
    BY <1>1, <1>3 DEF HandleAct, HandleReady, HandleLeave
  <2>2. CASE UNCHANGED <<deadline, timerVars>>
    <3>1. Drained' /\ Armed'
      BY <2>1, <2>2, GenerationsGrow DEF TimersSound
    <3>2. QED
      BY <2>1, <3>1, MessagesStep DEF TimersSound
  <2>3. CASE ResetScheduler(fires)
    <3>1. Drained' /\ Armed'
      BY <1>2, <2>1, <2>3
    <3>2. QED
      BY <2>1, <3>1, MessagesStep DEF TimersSound
  <2>4. QED
    BY <1>3, <2>2, <2>3 DEF HandleAct, HandleReady, HandleLeave, Keep
<1>4. CASE HandleRead
  BY <1>4, MessagesStep, GenerationsGrow DEF HandleRead, Keep, TimersSound
<1>5. CASE HandleTimeout
  <2>1. PICK f : ResetScheduler(f)
    BY <1>5 DEF HandleTimeout
  <2>2. UNCHANGED offlineVars
    BY <1>5 DEF HandleTimeout
  <2>3. Offline' /\ Drained' /\ Armed'
    BY <1>2, <2>1, <2>2 DEF TimersSound
  <2>4. QED
    BY <2>3, MessagesStep DEF TimersSound
<1>6. CASE HandleMarkOffline
  <2>1. UNCHANGED <<deadline, timerVars>>
    BY <1>6 DEF HandleMarkOffline, Keep
  <2>2. CASE draining
    BY <1>6, <2>1, <2>2, MessagesStep, GenerationsGrow DEF HandleMarkOffline, TimersSound
  <2>3. CASE ~draining
    <3>1. Offline'
      <4>1. \A v \in Users : gens[v] \in Nat
        BY DEF TypeOK
      <4>2. /\ gens' = [gens EXCEPT ![Head(mailbox).user] = @ + 1]
            /\ otimer' = [otimer EXCEPT ![Head(mailbox).user] = TRUE]
        BY <1>6, <2>3 DEF HandleMarkOffline
      <4>3. QED
        BY <4>1, <4>2 DEF TimersSound, TypeOK
    <3>2. QED
      BY <2>1, <2>3, <3>1, MessagesStep, GenerationsGrow DEF TimersSound
  <2>4. QED
    BY <2>2, <2>3
<1>7. CASE HandleCancelOffline
  <2>1. Offline' /\ (draining => \A v \in Users : gens'[v] = 0)
    BY <1>1, <1>7 DEF HandleCancelOffline
  <2>2. UNCHANGED <<deadline, timerVars>>
    BY <1>7 DEF HandleCancelOffline, Keep
  <2>3. QED
    BY <2>1, <2>2, MessagesStep, GenerationsGrow DEF TimersSound
<1>8. CASE HandleOfflineTimeout
  <2>1. UNCHANGED <<deadline, offlineVars>>
    BY <1>8 DEF HandleOfflineTimeout, Keep
  <2>2. UNCHANGED timerVars \/ ResetScheduler(fires)
    BY <1>8 DEF HandleOfflineTimeout
  <2>3. Drained' /\ Armed'
    BY <1>2, <2>1, <2>2, GenerationsGrow DEF TimersSound
  <2>4. QED
    BY <2>1, <2>3, MessagesStep DEF TimersSound
<1>9. CASE HandleShutdown
  BY <1>9, MessagesStep DEF HandleShutdown, TimersSound
<1>10. CASE Close \/ Drain \/ Exit
  BY <1>10, MessagesStep DEF Close, Drain, Exit, TimersSound
<1>11. CASE Tick \/ TimerFires \/ FireCheck \/ FireSubmit \/ FireDone
  BY <1>11, MessagesStep DEF Tick, TimerFires, FireCheck, FireSubmit, FireDone, TimersSound
<1>12. ASSUME NEW c \in Callers, Begin(c) \/ Send(c) \/ GiveUp(c)
       PROVE  UNCHANGED <<roundVars, run, timerVars, offlineVars>>
  BY <1>12 DEF Begin, Send, GiveUp
<1>13. ASSUME NEW u \in Users, Drop(u) \/ Notice(u) \/ Reconnect(u)
       PROVE  UNCHANGED <<roundVars, run, timerVars, offlineVars>>
  BY <1>13 DEF Drop, Notice, Reconnect, SubmitSignal
<1>14. ASSUME NEW u \in Users, OfflineExpire(u) PROVE TimersSound'
  BY <1>14, MessagesStep DEF OfflineExpire, TimersSound, TypeOK
<1>15. CASE ShutdownBegin \/ ShutdownSend \/ ShutdownExpire \/ ShutdownReturn
  BY <1>15, MessagesStep DEF ShutdownBegin, ShutdownSend, ShutdownExpire, ShutdownReturn,
                             TimersSound
<1>16. CASE UNCHANGED <<roundVars, run, timerVars, offlineVars>>
  BY <1>16, MessagesStep DEF TimersSound
<1>17. QED
  BY <1>3, <1>4, <1>5, <1>6, <1>7, <1>8, <1>9, <1>10, <1>11, <1>12, <1>13, <1>14, <1>15,
     <1>16 DEF Next, RunStep, vars

-----------------------------------------------------------------------------
(* Nobody is left waiting. *)

(* A message that is taken from the mailbox takes its sender along: the    *)
(* others who wait still have theirs.                                      *)
LEMMA WaitingBehind ==
    ASSUME TypeOK, NobodyLeftWaiting,
           mailbox # <<>>, mailbox' = Tail(mailbox),
           \A c \in Callers : call'[c] = "waiting" =>
               call[c] = "waiting" /\ Head(mailbox).by # c,
           shut' = "waiting" => shut = "waiting" /\ Head(mailbox).kind # "shutdown",
           run' # "exited"
    PROVE  NobodyLeftWaiting'
<1> USE Shifted
<1>1. ASSUME NEW c \in Callers, call'[c] = "waiting"
      PROVE  \E i \in DOMAIN mailbox' : mailbox'[i].by = c
  <2>1. PICK i \in DOMAIN mailbox : mailbox[i].by = c
    BY <1>1 DEF NobodyLeftWaiting
  <2>2. i # 1
    BY <1>1, <2>1
  <2>3. i - 1 \in DOMAIN mailbox' /\ mailbox'[i - 1] = mailbox[i]
    BY <2>2
  <2>4. QED
    BY <2>1, <2>3
<1>2. ASSUME shut' = "waiting" PROVE (Queued("shutdown"))' # {}
  <2>1. PICK i \in DOMAIN mailbox : mailbox[i].kind = "shutdown"
    BY <1>2 DEF NobodyLeftWaiting, Queued
  <2>2. i # 1
    BY <1>2, <2>1
  <2>3. i - 1 \in DOMAIN mailbox' /\ mailbox'[i - 1] = mailbox[i]
    BY <2>2
  <2>4. QED
    BY <2>1, <2>3 DEF Queued
<1>3. QED
  BY <1>1, <1>2 DEF NobodyLeftWaiting

(* A message that is queued leaves those in front where they are.          *)
LEMMA WaitingAhead ==
    ASSUME TypeOK, NobodyLeftWaiting, NEW m \in Messages, Enqueue(m),
           \A c \in Callers : call'[c] = "waiting" => call[c] = "waiting" \/ m.by = c,
           shut' = "waiting" => shut = "waiting" \/ m.kind = "shutdown",
           run' = "exited" => /\ run = "exited" /\ m.by = NoOne
                              /\ m.kind \notin {"timeout", "shutdown"}
    PROVE  NobodyLeftWaiting'
<1> USE Appended
<1>1. \A c \in Callers : call'[c] = "waiting" =>
          \E i \in DOMAIN mailbox' : mailbox'[i].by = c
  BY DEF NobodyLeftWaiting
<1>2. shut' = "waiting" => (Queued("shutdown"))' # {}
  BY DEF NobodyLeftWaiting, Queued
<1>3. run' = "exited" => \A i \in DOMAIN mailbox' :
          mailbox'[i].by = NoOne /\ mailbox'[i].kind \notin {"timeout", "shutdown"}
  BY DEF NobodyLeftWaiting
<1>4. QED
  BY <1>1, <1>2, <1>3 DEF NobodyLeftWaiting

LEMMA WaitingStep ==
    ASSUME TypeOK, LockIsSending, TimersSound, NobodyLeftWaiting, [Next]_vars
    PROVE  NobodyLeftWaiting'
<1> USE DEF roundVars, loopVars, timerVars, offlineVars, clientVars
<1>1. ASSUME NEW kind, Take(kind)
      PROVE  /\ mailbox # <<>> /\ mailbox' = Tail(mailbox)
             /\ Head(mailbox).kind = kind /\ MessageSound(Head(mailbox))
  BY <1>1, Shifted DEF Take, TimersSound
<1>2. CASE HandleAct \/ HandleReady \/ HandleLeave \/ HandleRead
  <2>1. PICK kind \in {"act", "ready", "leave", "read"} :
            /\ Take(kind) /\ LoopOn /\ call' = Answered(Head(mailbox).by)
            /\ UNCHANGED shut
    BY <1>2 DEF HandleAct, HandleReady, HandleLeave, HandleRead
  <2>2. \A c \in Callers : call'[c] = "waiting" =>
            call[c] = "waiting" /\ Head(mailbox).by # c
    BY <2>1 DEF Answered, TypeOK
  <2>3. QED
    BY <1>1, <2>1, <2>2, WaitingBehind DEF LoopOn
<1>3. CASE HandleTimeout \/ HandleMarkOffline \/ HandleCancelOffline \/ HandleOfflineTimeout
  <2>1. PICK kind \in {"timeout", "markOffline", "cancelOffline", "offlineTimeout"} :
            Take(kind) /\ LoopOn /\ UNCHANGED <<call, shut>>
    BY <1>3 DEF HandleTimeout, HandleMarkOffline, HandleCancelOffline, HandleOfflineTimeout
  <2>2. Head(mailbox).by \notin Callers
    BY <1>1, <2>1 DEF MessageSound
  <2>3. QED
    BY <1>1, <2>1, <2>2, WaitingBehind DEF LoopOn
<1>4. CASE HandleShutdown
  <2>1. Head(mailbox).by \notin Callers
    BY <1>1, <1>4 DEF MessageSound, HandleShutdown
  <2>2. QED
    BY <1>1, <1>4, <2>1, WaitingBehind DEF HandleShutdown, LoopOn
<1>5. CASE Close \/ Exit
  BY <1>5 DEF Close, Exit, NobodyLeftWaiting, Queued
<1>6. CASE Drain
  <2>1. \A c \in Callers : call'[c] = "waiting" =>
            call[c] = "waiting" /\ Head(mailbox).by # c
    BY <1>6 DEF Drain, RejectPendingMsg, Answered, TypeOK
  <2>2. QED
    BY <1>6, <2>1, WaitingBehind DEF Drain, RejectPendingMsg
<1>7. ASSUME NEW c \in Callers, Begin(c) \/ GiveUp(c) PROVE NobodyLeftWaiting'
  <2>1. \A d \in Callers : call'[d] = "waiting" => call[d] = "waiting"
    BY <1>7 DEF Begin, GiveUp, TypeOK
  <2>2. UNCHANGED <<mailbox, shut, run>>
    BY <1>7 DEF Begin, GiveUp
  <2>3. QED
    BY <2>1, <2>2 DEF NobodyLeftWaiting, Queued
<1>8. ASSUME NEW c \in Callers, Send(c) PROVE NobodyLeftWaiting'
  <2>1. run # "exited" /\ UNCHANGED <<shut, run>>
    BY <1>8, NameAssumption DEF Send, LockIsSending
  <2>2. CASE UNCHANGED mailbox
    <3>1. \A d \in Callers : call'[d] = "waiting" => call[d] = "waiting"
      <4>1. ASSUME NEW m \in Messages, Enqueue(m) PROVE FALSE
        BY <2>2, <4>1, Appended
      <4>2. ~SendRead(c) /\ ~SendCommand(c)
        BY <4>1, Sent DEF SendRead, SendCommand
      <4>3. QED
        BY <1>8, <4>2 DEF Send, TypeOK
    <3>2. QED
      BY <2>1, <2>2, <3>1 DEF NobodyLeftWaiting, Queued
  <2>3. CASE SendRead(c)
    <3>1. Msg("read", c, NoOne).by = c
      BY DEF Msg
    <3>2. \A d \in Callers : call'[d] = "waiting" => call[d] = "waiting" \/ d = c
      BY <2>3 DEF SendRead, TypeOK
    <3>3. QED
      BY <2>1, <2>3, <3>1, <3>2, Sent, WaitingAhead DEF SendRead
  <2>4. CASE SendCommand(c)
    <3>1. PICK kind \in {"act", "ready", "leave"}, u \in Users : Enqueue(Msg(kind, c, u))
      BY <2>4 DEF SendCommand
    <3>2. Msg(kind, c, u).by = c
      BY DEF Msg
    <3>3. \A d \in Callers : call'[d] = "waiting" => call[d] = "waiting" \/ d = c
      BY <2>4 DEF SendCommand, TypeOK
    <3>4. QED
      BY <2>1, <3>1, <3>2, <3>3, Sent, WaitingAhead
  <2>5. QED
    BY <1>8, <2>2, <2>3, <2>4 DEF Send
<1>9. CASE UNCHANGED <<mailbox, call, shut, run>>
  BY <1>9 DEF NobodyLeftWaiting, Queued
<1>10. CASE Tick \/ TimerFires \/ FireCheck \/ FireDone
  BY <1>9, <1>10 DEF Tick, TimerFires, FireCheck, FireDone
<1>11. CASE FireSubmit
  <2>1. CASE closed \/ Full
    BY <1>9, <1>11, <2>1 DEF FireSubmit
  <2>2. CASE ~(closed \/ Full)
    <3>1. run # "exited"
      BY <2>2 DEF LockIsSending
    <3>2. QED
      BY <1>11, <2>2, <3>1, Sent, WaitingAhead DEF FireSubmit
  <2>3. QED
    BY <2>1, <2>2
<1>12. ASSUME NEW u \in Users, Drop(u) \/ Notice(u) \/ Reconnect(u) \/ OfflineExpire(u)
       PROVE  NobodyLeftWaiting'
  <2>1. UNCHANGED <<call, shut, run>>
    BY <1>12 DEF Drop, Notice, Reconnect, OfflineExpire, SubmitSignal
  <2>2. \/ UNCHANGED mailbox
        \/ \E m \in Messages : /\ Enqueue(m) /\ m.by = NoOne
                               /\ m.kind \notin {"timeout", "shutdown"}
    <3>1. CASE Drop(u)
      BY <3>1 DEF Drop
    <3>2. CASE Notice(u) \/ Reconnect(u)
      BY <3>2, Sent DEF Notice, Reconnect, SubmitSignal, Msg
    <3>3. CASE OfflineExpire(u)
      BY <3>3, Sent DEF OfflineExpire, Msg
    <3>4. QED
      BY <1>12, <3>1, <3>2, <3>3
  <2>3. QED
    BY <1>9, <2>1, <2>2, WaitingAhead
<1>13. CASE ShutdownBegin \/ ShutdownExpire \/ ShutdownReturn
  BY <1>13 DEF ShutdownBegin, ShutdownExpire, ShutdownReturn, NobodyLeftWaiting, Queued
<1>14. CASE ShutdownSend
  <2>1. run # "exited"
    BY <1>14, NameAssumption DEF ShutdownSend, LockIsSending
  <2>2. Msg("shutdown", NoOne, NoOne).kind = "shutdown"
    BY DEF Msg
  <2>3. QED
    BY <1>14, <2>1, <2>2, Sent, WaitingAhead DEF ShutdownSend
<1>15. CASE UNCHANGED vars
  BY <1>9, <1>15 DEF vars
<1>16. QED
  BY <1>2, <1>3, <1>4, <1>5, <1>6, <1>7, <1>8, <1>10, <1>11, <1>12, <1>13, <1>14, <1>15
     DEF Next, RunStep

-----------------------------------------------------------------------------
(* An expired deadline is watched. *)

(* A timeout that was queued stays queued until it is its turn.            *)
LEMMA StillQueued ==
    ASSUME TypeOK, Queued("timeout") # {}
    PROVE  /\ UNCHANGED mailbox => (Queued("timeout"))' # {}
           /\ (\E m \in Messages : Enqueue(m)) => (Queued("timeout"))' # {}
           /\ (\E kind : Take(kind) /\ kind # "timeout") => (Queued("timeout"))' # {}
<1>1. PICK i \in DOMAIN mailbox : mailbox[i].kind = "timeout"
  BY DEF Queued
<1>2. UNCHANGED mailbox => (Queued("timeout"))' # {}
  BY <1>1 DEF Queued
<1>3. ASSUME NEW m \in Messages, Enqueue(m) PROVE (Queued("timeout"))' # {}
  BY <1>1, <1>3, Appended DEF Queued
<1>4. ASSUME NEW kind, Take(kind), kind # "timeout" PROVE (Queued("timeout"))' # {}
  <2>1. i # 1
    BY <1>1, <1>4, Shifted DEF Take
  <2>2. i - 1 \in DOMAIN mailbox' /\ mailbox'[i - 1] = mailbox[i]
    BY <1>4, <2>1, Shifted DEF Take
  <2>3. QED
    BY <1>1, <2>2 DEF Queued
<1>5. QED
  BY <1>2, <1>3, <1>4

LEMMA WatchedStep ==
    ASSUME TypeOK, TimersSound, ExpiredDeadlineWatched, [Next]_vars
    PROVE  ExpiredDeadlineWatched'
<1> USE DEF roundVars, loopVars, timerVars, offlineVars, clientVars
<1>1. SUFFICES ASSUME deadline' = "expired", run' = "loop", ~draining'
               PROVE  \/ timer' \/ fires'.start > 0 \/ fires'.sending > 0
                      \/ (Queued("timeout"))' # {} \/ lost'
  BY DEF ExpiredDeadlineWatched
<1>2. run = "loop" /\ ~draining
  BY <1>1, GenerationsGrow
<1>3. fires.start \in Nat /\ fires.sending \in Nat /\ fires.callback \in Nat
  BY DEF TypeOK, FireCounts
<1>4. ASSUME NEW f \in FireCounts, ResetScheduler(f) PROVE fires'.start > 0
  <2>1. fires' = [f EXCEPT !.start = @ + 1]
    BY <1>1, <1>2, <1>4 DEF ResetScheduler
  <2>2. QED
    BY <2>1 DEF FireCounts
<1>5. ASSUME UNCHANGED <<deadline, timerVars>>,
             \/ UNCHANGED mailbox
             \/ \E m \in Messages : Enqueue(m)
             \/ \E kind : Take(kind) /\ kind # "timeout"
      PROVE  timer' \/ fires'.start > 0 \/ fires'.sending > 0
             \/ (Queued("timeout"))' # {} \/ lost'
  BY <1>1, <1>2, <1>5, StillQueued DEF ExpiredDeadlineWatched
<1>6. CASE HandleAct \/ HandleReady \/ HandleLeave
  BY <1>4, <1>5, <1>6, SameTimerType DEF HandleAct, HandleReady, HandleLeave, Keep
<1>7. CASE HandleRead \/ HandleMarkOffline \/ HandleCancelOffline
  BY <1>5, <1>7 DEF HandleRead, HandleMarkOffline, HandleCancelOffline, Keep
<1>8. CASE HandleTimeout
  <2>1. fires \in FireCounts /\ [fires EXCEPT !.callback = @ + 1] \in FireCounts
    BY SameTimerType, FireMoves
  <2>2. QED
    BY <1>4, <1>8, <2>1 DEF HandleTimeout
<1>9. CASE HandleOfflineTimeout
  BY <1>4, <1>5, <1>9, SameTimerType DEF HandleOfflineTimeout, Keep
<1>10. CASE HandleShutdown \/ Close \/ Drain \/ Exit
  BY <1>1, <1>2, <1>10 DEF HandleShutdown, Close, Drain, Exit
<1>11. ASSUME NEW c \in Callers, Begin(c) \/ GiveUp(c)
       PROVE  UNCHANGED <<deadline, timerVars, mailbox>>
  BY <1>11 DEF Begin, GiveUp
<1>12. ASSUME NEW c \in Callers, Send(c)
       PROVE  /\ UNCHANGED <<deadline, timerVars>>
              /\ UNCHANGED mailbox \/ \E m \in Messages : Enqueue(m)
  BY <1>12, Sent DEF Send, SendRead, SendCommand
<1>13. CASE Tick
  BY <1>2, <1>13 DEF Tick, TimersSound
<1>14. CASE TimerFires
  BY <1>3, <1>14 DEF TimerFires, TypeOK, FireCounts
<1>15. CASE FireCheck
  <2>1. fires' = [fires EXCEPT !.start = @ - 1, !.sending = @ + 1]
    BY <1>2, <1>15 DEF FireCheck
  <2>2. QED
    BY <1>3, <2>1 DEF TypeOK, FireCounts
<1>16. CASE FireSubmit
  <2>1. CASE closed \/ Full
    BY <1>16, <2>1 DEF FireSubmit
  <2>2. CASE ~(closed \/ Full)
    <3>1. Enqueue(Msg("timeout", NoOne, NoOne)) /\ Msg("timeout", NoOne, NoOne).kind = "timeout"
      BY <1>16, <2>2 DEF FireSubmit, Msg
    <3>2. PICK m \in Messages : Enqueue(m) /\ m.kind = "timeout"
      BY <3>1, Sent
    <3>3. Len(mailbox) + 1 \in DOMAIN mailbox' /\ mailbox'[Len(mailbox) + 1].kind = "timeout"
      BY <3>2, Appended
    <3>4. QED
      BY <3>3 DEF Queued
  <2>3. QED
    BY <2>1, <2>2
<1>17. CASE FireDone
  <2>1. fires'.start = fires.start /\ fires'.sending = fires.sending
    BY <1>17 DEF FireDone, TypeOK, FireCounts
  <2>2. QED
    BY <1>1, <1>2, <1>17, <2>1 DEF FireDone, ExpiredDeadlineWatched, Queued
<1>18. ASSUME NEW u \in Users, Drop(u) \/ Notice(u) \/ Reconnect(u) \/ OfflineExpire(u)
       PROVE  /\ UNCHANGED <<deadline, timerVars>>
              /\ UNCHANGED mailbox \/ \E m \in Messages : Enqueue(m)
  BY <1>18, Sent DEF Drop, Notice, Reconnect, OfflineExpire, SubmitSignal
<1>19. CASE ShutdownBegin \/ ShutdownSend \/ ShutdownExpire \/ ShutdownReturn
  BY <1>5, <1>19, Sent DEF ShutdownBegin, ShutdownSend, ShutdownExpire, ShutdownReturn
<1>20. CASE UNCHANGED vars
  BY <1>5, <1>20 DEF vars
<1>21. QED
  BY <1>5, <1>6, <1>7, <1>8, <1>9, <1>10, <1>11, <1>12, <1>13, <1>14, <1>15, <1>16, <1>17,
     <1>18, <1>19, <1>20 DEF Next, RunStep

-----------------------------------------------------------------------------
(* A shutdown leaves nothing running. *)

(* No timeout is queued by a step that queues something else.              *)
LEMMA NoneQueued ==
    ASSUME TypeOK, Queued("timeout") = {},
           \/ UNCHANGED mailbox
           \/ mailbox # <<>> /\ mailbox' = Tail(mailbox)
           \/ \E m \in Messages : Enqueue(m) /\ m.kind # "timeout"
    PROVE  (Queued("timeout"))' = {}
<1>1. \A i \in DOMAIN mailbox : mailbox[i].kind # "timeout"
  BY DEF Queued
<1>2. CASE UNCHANGED mailbox
  BY <1>1, <1>2 DEF Queued
<1>3. CASE mailbox # <<>> /\ mailbox' = Tail(mailbox)
  <2>1. \A i \in DOMAIN mailbox' : i + 1 \in DOMAIN mailbox /\ mailbox'[i] = mailbox[i + 1]
    BY <1>3, Shifted
  <2>2. QED
    BY <1>1, <2>1 DEF Queued
<1>4. ASSUME NEW m \in Messages, Enqueue(m), m.kind # "timeout"
      PROVE  (Queued("timeout"))' = {}
  BY <1>1, <1>4, Appended DEF Queued
<1>5. QED
  BY <1>2, <1>3, <1>4

LEMMA DrainsStep ==
    ASSUME TypeOK, LockIsSending, ShutdownDrains, [Next]_vars
    PROVE  ShutdownDrains'
<1> USE DEF roundVars, loopVars, timerVars, offlineVars, clientVars
<1>1. fires.start \in Nat /\ fires.sending \in Nat /\ fires.callback \in Nat
  BY DEF TypeOK, FireCounts
<1>2. ASSUME UNCHANGED <<shut, closed>>, fires'.sending = fires.sending
      PROVE  ShutdownDrains'
  BY <1>2, GenerationsGrow DEF ShutdownDrains
<1>3. ASSUME NEW f \in FireCounts, ResetScheduler(f) PROVE fires'.sending = f.sending
  BY <1>3 DEF ResetScheduler, FireCounts
<1>4. CASE HandleAct \/ HandleReady \/ HandleLeave
  BY <1>2, <1>3, <1>4, SameTimerType DEF HandleAct, HandleReady, HandleLeave, Take
<1>5. CASE HandleRead \/ HandleMarkOffline \/ HandleCancelOffline
  BY <1>2, <1>5 DEF HandleRead, HandleMarkOffline, HandleCancelOffline, Take
<1>6. CASE HandleOfflineTimeout
  BY <1>2, <1>3, <1>6, SameTimerType DEF HandleOfflineTimeout, Take
<1>7. CASE HandleTimeout
  <2>1. /\ fires \in FireCounts /\ [fires EXCEPT !.callback = @ + 1] \in FireCounts
        /\ [fires EXCEPT !.callback = @ + 1].sending = fires.sending
    BY SameTimerType, FireMoves DEF FireCounts
  <2>2. QED
    BY <1>2, <1>3, <1>7, <2>1 DEF HandleTimeout, Take
<1>8. CASE HandleShutdown
  BY <1>8 DEF HandleShutdown, Take, ShutdownDrains
<1>9. CASE Close \/ Exit
  BY <1>9 DEF Close, Exit, ShutdownDrains
<1>10. CASE Drain
  BY <1>10 DEF Drain, RejectPendingMsg, ShutdownDrains, LockIsSending
<1>11. ASSUME NEW c \in Callers, Begin(c) \/ Send(c) \/ GiveUp(c)
       PROVE  UNCHANGED <<shut, closed, fires>>
  BY <1>11 DEF Begin, Send, GiveUp
<1>12. CASE Tick \/ TimerFires \/ FireDone
  <2>1. fires'.sending = fires.sending
    BY <1>12 DEF Tick, TimerFires, FireDone, TypeOK, FireCounts
  <2>2. QED
    BY <1>2, <1>12, <2>1 DEF Tick, TimerFires, FireDone
<1>13. CASE FireCheck
  <2>1. CASE draining
    <3>1. fires' = [fires EXCEPT !.start = @ - 1, !.sending = @ + 0]
      BY <1>13, <2>1 DEF FireCheck
    <3>2. fires'.sending = fires.sending
      BY <1>1, <3>1 DEF TypeOK, FireCounts
    <3>3. QED
      BY <1>2, <1>13, <3>2 DEF FireCheck
  <2>2. CASE ~draining
    BY <1>13, <2>2 DEF FireCheck, ShutdownDrains
  <2>3. QED
    BY <2>1, <2>2
<1>14. CASE FireSubmit
  <2>1. shut = "returned" => closed
    BY <1>1, <1>14 DEF FireSubmit, ShutdownDrains
  <2>2. QED
    BY <1>14, <2>1 DEF FireSubmit, ShutdownDrains
<1>15. ASSUME NEW u \in Users, Drop(u) \/ Notice(u) \/ Reconnect(u) \/ OfflineExpire(u)
       PROVE  UNCHANGED <<shut, closed, fires>>
  BY <1>15 DEF Drop, Notice, Reconnect, OfflineExpire, SubmitSignal
<1>16. CASE ShutdownBegin \/ ShutdownSend \/ ShutdownExpire \/ ShutdownReturn
  BY <1>16 DEF ShutdownBegin, ShutdownSend, ShutdownExpire, ShutdownReturn, ShutdownDrains
<1>17. CASE UNCHANGED vars
  BY <1>2, <1>17 DEF vars
<1>18. QED
  BY <1>2, <1>4, <1>5, <1>6, <1>7, <1>8, <1>9, <1>10, <1>11, <1>12, <1>13, <1>14, <1>15,
     <1>16, <1>17 DEF Next, RunStep

(* Once the timers are drained no offline message has an effect and no     *)
(* fire is in flight.                                                      *)
LEMMA QuietLoop ==
    ASSUME (TypeOK /\ LockIsSending /\ TimersSound /\ ShutdownDrains)',
           shut' = "returned", run' = "loop"
    PROVE  /\ fires'.sending = 0 /\ ~timer'
           /\ \A i \in DOMAIN mailbox' : ~(Effective(mailbox[i])')
<1>1. ~closed' /\ draining'
  BY DEF LockIsSending, ShutdownDrains
<1>2. ASSUME NEW i \in DOMAIN mailbox', Effective(mailbox[i])' PROVE FALSE
  <2>1. mailbox'[i].gen > 0 /\ mailbox'[i].user \in Users
    BY <1>2 DEF Effective, TimersSound, MessageSound
  <2>2. QED
    BY <1>1, <1>2, <2>1 DEF Effective, TimersSound
<1>3. QED
  BY <1>1, <1>2 DEF ShutdownDrains, TimersSound

LEMMA QuietStep ==
    ASSUME TypeOK, LockIsSending, TimersSound, ShutdownDrains, QuietAfterShutdown,
           [Next]_vars
    PROVE  QuietAfterShutdown'
<1> USE DEF roundVars, loopVars, timerVars, offlineVars, clientVars
<1>1. SUFFICES ASSUME shut' = "returned"
               PROVE  fires'.callback = 0 /\ (Queued("timeout"))' = {}
  <2>1. TypeOK' /\ LockIsSending' /\ TimersSound' /\ ShutdownDrains'
    BY TypeStep, LockStep, TimersStep, DrainsStep
  <2>2. shut' = "returned" /\ run' = "loop" =>
            /\ fires'.sending = 0 /\ ~timer'
            /\ \A i \in DOMAIN mailbox' : ~(Effective(mailbox[i])')
    BY <2>1, QuietLoop
  <2>3. QED
    BY <2>2 DEF QuietAfterShutdown
<1>2. CASE ShutdownReturn
  BY <1>2 DEF ShutdownReturn, Queued
<1>3. CASE shut = "returned"
  <2>1. fires.callback = 0 /\ Queued("timeout") = {}
    BY <1>3 DEF QuietAfterShutdown
  <2>2. ASSUME Take("timeout") PROVE FALSE
    <3>1. 1 \in DOMAIN mailbox /\ mailbox[1].kind = "timeout"
      BY <2>2, Shifted DEF Take
    <3>2. QED
      BY <2>1, <3>1 DEF Queued
  <2>3. ASSUME NEW f \in FireCounts, ResetScheduler(f) PROVE fires'.callback = f.callback
    BY <2>3 DEF ResetScheduler, FireCounts
  <2>4. ASSUME fires'.callback = fires.callback,
               \/ UNCHANGED mailbox
               \/ mailbox # <<>> /\ mailbox' = Tail(mailbox)
               \/ \E m \in Messages : Enqueue(m) /\ m.kind # "timeout"
        PROVE  fires'.callback = 0 /\ (Queued("timeout"))' = {}
    BY <2>1, <2>4, NoneQueued
  <2>5. CASE HandleAct \/ HandleReady \/ HandleLeave
    BY <2>3, <2>4, <2>5, SameTimerType DEF HandleAct, HandleReady, HandleLeave, Take
  <2>6. CASE HandleRead \/ HandleMarkOffline \/ HandleCancelOffline
    BY <2>4, <2>6 DEF HandleRead, HandleMarkOffline, HandleCancelOffline, Take
  <2>7. CASE HandleTimeout
    BY <2>2, <2>7 DEF HandleTimeout
  <2>8. CASE HandleOfflineTimeout
    BY <2>3, <2>4, <2>8, SameTimerType DEF HandleOfflineTimeout, Take
  <2>9. CASE HandleShutdown \/ Close \/ Drain \/ Exit
    BY <2>4, <2>9 DEF HandleShutdown, Take, Close, Drain, Exit
  <2>10. ASSUME NEW c \in Callers, Begin(c) \/ Send(c) \/ GiveUp(c)
         PROVE  fires'.callback = 0 /\ (Queued("timeout"))' = {}
    <3>1. UNCHANGED mailbox \/ \E m \in Messages : Enqueue(m) /\ m.kind # "timeout"
      BY <2>10, Sent, ZenonT(60) DEF Begin, Send, SendRead, SendCommand, GiveUp, Msg
    <3>2. QED
      BY <2>4, <2>10, <3>1 DEF Begin, Send, GiveUp
  <2>11. CASE Tick \/ TimerFires \/ FireCheck
    <3>1. fires'.callback = fires.callback
      BY <2>11 DEF Tick, TimerFires, FireCheck, TypeOK, FireCounts
    <3>2. QED
      BY <2>4, <2>11, <3>1 DEF Tick, TimerFires, FireCheck
  <2>12. CASE FireSubmit
    <3>1. closed
      BY <1>3, <2>12 DEF FireSubmit, ShutdownDrains, TypeOK, FireCounts
    <3>2. fires'.callback = fires.callback
      BY <2>12 DEF FireSubmit, TypeOK, FireCounts
    <3>3. QED
      BY <2>4, <2>12, <3>1, <3>2 DEF FireSubmit
  <2>13. CASE FireDone
    BY <2>1, <2>13 DEF FireDone
  <2>14. ASSUME NEW u \in Users, Drop(u) \/ Notice(u) \/ Reconnect(u) \/ OfflineExpire(u)
         PROVE  fires'.callback = 0 /\ (Queued("timeout"))' = {}
    <3>1. UNCHANGED mailbox \/ \E m \in Messages : Enqueue(m) /\ m.kind # "timeout"
      <4>1. CASE OfflineExpire(u)
        BY <4>1, Sent DEF OfflineExpire, Msg
      <4>2. CASE Drop(u) \/ Notice(u) \/ Reconnect(u)
        BY <4>2, Sent DEF Drop, Notice, Reconnect, SubmitSignal, Msg
      <4>3. QED
        BY <2>14, <4>1, <4>2
    <3>2. QED
      BY <2>4, <2>14, <3>1 DEF Drop, Notice, Reconnect, OfflineExpire, SubmitSignal
  <2>15. CASE ShutdownBegin \/ ShutdownSend \/ ShutdownExpire
    BY <1>3, <2>15 DEF ShutdownBegin, ShutdownSend, ShutdownExpire
  <2>16. CASE UNCHANGED vars
    BY <2>4, <2>16 DEF vars
  <2>17. QED
    BY <1>2, <2>5, <2>6, <2>7, <2>8, <2>9, <2>10, <2>11, <2>12, <2>13, <2>14, <2>15, <2>16
       DEF Next, RunStep
<1>4. CASE shut # "returned" /\ ~ShutdownReturn
  <2>1. shut' = "returned" => UNCHANGED shut
    BY <1>4 DEF Next, RunStep, vars, HandleAct, HandleReady, HandleLeave, HandleRead,
                HandleTimeout, HandleMarkOffline, HandleCancelOffline,
                HandleOfflineTimeout, HandleShutdown, Close, Drain, RejectPendingMsg, Exit,
                Begin, Send, GiveUp, Tick, TimerFires, FireCheck, FireSubmit, FireDone,
                Drop, Notice, Reconnect, SubmitSignal, OfflineExpire, ShutdownBegin,
                ShutdownSend, ShutdownExpire
  <2>2. QED
    BY <1>1, <1>4, <2>1
<1>5. QED
  BY <1>2, <1>3, <1>4

-----------------------------------------------------------------------------
(* An offline timer follows the last signal. *)

(* A sign of life that is taken cancels the timer and moves the generation *)
(* on, if any timer was ever started.                                      *)
LEMMA SignTaken ==
    ASSUME TypeOK, TimersSound, NEW u \in Users, CancelOfflineTimer(u)
    PROVE  /\ ~otimer'[u] /\ (gens[u] > 0 => gens'[u] = gens[u] + 1)
           /\ \A v \in Users \ {u} : otimer'[v] = otimer[v] /\ gens'[v] = gens[v]
  BY DEF TypeOK, CancelOfflineTimer

(* The head is taken: a sign of life by cancelling, anything else leaving  *)
(* every sign of life in the mailbox.                                      *)
LEMMA SignsBehind ==
    ASSUME TypeOK, TypeOK', TimersSound, TimersSound', SignsPending, run = "loop", UNCHANGED signal,
           mailbox # <<>>, mailbox' = Tail(mailbox),
           \A u \in Users : otimer'[u] =>
               otimer[u] \/ (Head(mailbox).kind = "markOffline" /\ Head(mailbox).user = u),
           ~draining' => ~draining /\ \A u \in Users : gens'[u] >= gens[u],
           \A u \in Users : SignOfLife(Head(mailbox), u) =>
               ~otimer'[u] /\ (gens[u] > 0 => gens'[u] # gens[u])
    PROVE  SignsPending'
<1> DEFINE h == mailbox[1]
<1>1. Head(mailbox) = h
  BY Shifted
<1>2. ASSUME NEW j \in DOMAIN mailbox, NEW u \in Users, SignOfLife(mailbox[j], u),
             ~SignOfLife(h, u)
      PROVE  /\ j - 1 \in DOMAIN mailbox' /\ mailbox'[j - 1] = mailbox[j]
             /\ j \in Nat
  <2>1. j # 1
    BY <1>2
  <2>2. QED
    BY <2>1, Shifted
<1>3. ASSUME NEW u \in Users, signal'[u] = "on", otimer'[u]
      PROVE  \E j \in DOMAIN mailbox' : SignOfLife(mailbox'[j], u)
  <2>1. ~SignOfLife(h, u)
    BY <1>1, <1>3
  <2>2. PICK j \in DOMAIN mailbox : SignOfLife(mailbox[j], u)
    BY <1>1, <1>3, Shifted DEF SignsPending
  <2>3. QED
    BY <1>2, <2>1, <2>2
<1>4. ASSUME NEW u \in Users, signal'[u] = "on", NEW i \in DOMAIN mailbox',
             mailbox'[i].kind = "markOffline", mailbox'[i].user = u
      PROVE  \E j \in DOMAIN mailbox' : j > i /\ SignOfLife(mailbox'[j], u)
  <2>1. i + 1 \in DOMAIN mailbox /\ mailbox'[i] = mailbox[i + 1] /\ i \in Nat
    BY Shifted
  <2>2. PICK j \in DOMAIN mailbox : j > i + 1 /\ SignOfLife(mailbox[j], u)
    BY <1>4, <2>1 DEF SignsPending
  <2>3. j \in Nat /\ j # 1
    BY <2>1, <2>2, Shifted
  <2>4. j - 1 \in DOMAIN mailbox' /\ mailbox'[j - 1] = mailbox[j]
    BY <2>3, Shifted
  <2>5. QED
    BY <2>1, <2>2, <2>3, <2>4
<1>5. ASSUME NEW i \in DOMAIN mailbox', (Effective(mailbox[i]))', mailbox'[i].signal # "off",
             run' = "loop"
      PROVE  \E j \in DOMAIN mailbox' : j < i /\ SignOfLife(mailbox'[j], mailbox'[i].user)
  <2> DEFINE u == mailbox'[i].user
  <2>1. i + 1 \in DOMAIN mailbox /\ mailbox'[i] = mailbox[i + 1] /\ i \in Nat
    BY Shifted
  <2>2. /\ mailbox[i + 1].kind = "offlineTimeout" /\ mailbox[i + 1].gen > 0
        /\ gens'[u] = mailbox[i + 1].gen /\ mailbox[i + 1].gen \in Nat /\ u \in Users
        /\ gens[u] \in Nat
        /\ ~draining => mailbox[i + 1].gen <= gens[u]
    BY <1>5, <2>1, Shifted, SMTT(30) DEF Effective, TimersSound, MessageSound, Messages, TypeOK
  <2>3. gens[u] > 0 /\ gens[u] = mailbox[i + 1].gen
    <3>1. ~draining'
      BY <2>2 DEF TimersSound
    <3>2. QED
      BY <2>2, <3>1
  <2>4. Effective(mailbox[i + 1])
    BY <2>1, <2>2, <2>3 DEF Effective
  <2>5. ~SignOfLife(h, u)
    BY <1>1, <2>2, <2>3
  <2>6. PICK j \in DOMAIN mailbox : j < i + 1 /\ SignOfLife(mailbox[j], u)
    BY <1>5, <2>1, <2>4 DEF SignsPending
  <2>7. QED
    BY <1>2, <2>1, <2>2, <2>5, <2>6, SMTT(30)
<1>6. QED
  BY <1>3, <1>4, <1>5 DEF SignsPending

(* A message is queued: an absence only while the last signal is off, an   *)
(* offline timeout with the signal of the moment its timer ran out.        *)
LEMMA SignsAhead ==
    ASSUME TypeOK, SignsPending, NEW m \in Messages, Enqueue(m),
           UNCHANGED gens, run' = "loop" => run = "loop",
           \A u \in Users : otimer'[u] => otimer[u],
           \A u \in Users : signal'[u] = "on" => signal[u] = "on" \/ SignOfLife(m, u),
           m.kind = "markOffline" => signal'[m.user] = "off",
           Effective(m) /\ m.signal # "off" =>
               m.user \in Users /\ otimer[m.user] /\ signal[m.user] = "on"
    PROVE  SignsPending'
<1> USE Appended
<1> DEFINE n == Len(mailbox) + 1
<1>1. /\ \A j \in DOMAIN mailbox : j \in DOMAIN mailbox' /\ mailbox'[j] = mailbox[j] /\ j < n
      /\ n \in DOMAIN mailbox' /\ mailbox'[n] = m
      /\ \A i \in DOMAIN mailbox' : i \in DOMAIN mailbox \/ i = n
  OBVIOUS
<1> HIDE DEF n
<1>2. ASSUME run' = "loop", NEW u \in Users, signal'[u] = "on", otimer'[u]
      PROVE  \E j \in DOMAIN mailbox' : SignOfLife(mailbox'[j], u)
  BY <1>1, <1>2 DEF SignsPending
<1>3. ASSUME run' = "loop", NEW u \in Users, signal'[u] = "on", NEW i \in DOMAIN mailbox',
             mailbox'[i].kind = "markOffline", mailbox'[i].user = u
      PROVE  \E j \in DOMAIN mailbox' : j > i /\ SignOfLife(mailbox'[j], u)
  <2>1. i \in DOMAIN mailbox /\ mailbox'[i] = mailbox[i] /\ n > i
    BY <1>1, <1>3
  <2>2. CASE signal[u] = "on"
    BY <1>1, <1>3, <2>1, <2>2 DEF SignsPending
  <2>3. CASE SignOfLife(m, u)
    BY <1>1, <2>1, <2>3
  <2>4. QED
    BY <1>3, <2>2, <2>3
<1>4. ASSUME run' = "loop", NEW i \in DOMAIN mailbox', (Effective(mailbox[i]))',
             mailbox'[i].signal # "off"
      PROVE  \E j \in DOMAIN mailbox' : j < i /\ SignOfLife(mailbox'[j], mailbox'[i].user)
  <2>1. CASE i \in DOMAIN mailbox
    <3>1. Effective(mailbox[i]) /\ mailbox[i].signal # "off" /\ mailbox'[i] = mailbox[i]
      BY <1>1, <1>4, <2>1 DEF Effective
    <3>2. QED
      BY <1>1, <1>4, <2>1, <3>1 DEF SignsPending
  <2>2. CASE i = n
    <3>1. Effective(m) /\ m.signal # "off" /\ mailbox'[i] = m
      BY <1>1, <1>4, <2>2 DEF Effective
    <3>2. PICK j \in DOMAIN mailbox : SignOfLife(mailbox[j], m.user)
      BY <1>4, <3>1 DEF SignsPending
    <3>3. QED
      BY <1>1, <2>2, <3>1, <3>2
  <2>3. QED
    BY <1>1, <2>1, <2>2
<1>5. QED
  BY <1>2, <1>3, <1>4 DEF SignsPending

LEMMA SignsStep ==
    ASSUME TypeOK, TimersSound, SignsPending, [Next]_vars
    PROVE  SignsPending'
<1> USE DEF roundVars, loopVars, timerVars, offlineVars, clientVars
<1>1. TypeOK' /\ TimersSound'
  BY TypeStep, TimersStep
<1>2. SUFFICES ASSUME run' = "loop" PROVE SignsPending'
  BY DEF SignsPending
<1>3. run = "loop" /\ (~draining' => ~draining /\ \A u \in Users : gens'[u] >= gens[u])
  BY <1>2, GenerationsGrow
<1>4. ASSUME NEW kind, Take(kind)
      PROVE  /\ mailbox # <<>> /\ mailbox' = Tail(mailbox)
             /\ Head(mailbox).kind = kind /\ MessageSound(Head(mailbox))
  BY <1>4, Shifted DEF Take, TimersSound
<1>5. ASSUME NEW kind \in {"act", "ready", "leave", "cancelOffline"}, Take(kind),
             CancelOfflineTimer(Head(mailbox).user), UNCHANGED signal
      PROVE  SignsPending'
  <2>1. Head(mailbox).user \in Users
    BY <1>4, <1>5 DEF MessageSound
  <2>2. \A u \in Users : otimer'[u] => otimer[u]
    BY <1>5, <2>1, SignTaken
  <2>3. ASSUME NEW u \in Users, SignOfLife(Head(mailbox), u)
        PROVE  ~otimer'[u] /\ (gens[u] > 0 => gens'[u] # gens[u])
    <3>1. Head(mailbox).user = u /\ gens[u] \in Nat
      BY <2>3 DEF SignOfLife, TypeOK
    <3>2. QED
      BY <1>5, <3>1, SignTaken
  <2>4. QED
    BY <1>1, <1>3, <1>4, <1>5, <2>2, <2>3, SignsBehind
<1>6. ASSUME NEW kind \in {"read", "timeout", "markOffline", "offlineTimeout", "shutdown"},
             Take(kind), UNCHANGED signal,
             \A u \in Users : otimer'[u] =>
                 otimer[u] \/ (kind = "markOffline" /\ Head(mailbox).user = u)
      PROVE  SignsPending'
  <2>1. \A u : ~SignOfLife(Head(mailbox), u)
    BY <1>4, <1>6 DEF SignOfLife
  <2>2. QED
    BY <1>1, <1>3, <1>4, <1>6, <2>1, SignsBehind
<1>7. ASSUME UNCHANGED <<mailbox, gens, signal>>, \A u \in Users : otimer'[u] => otimer[u]
      PROVE  SignsPending'
  BY <1>3, <1>7 DEF SignsPending, Effective
<1>8. CASE HandleAct \/ HandleReady \/ HandleLeave \/ HandleCancelOffline
  BY <1>5, <1>8 DEF HandleAct, HandleReady, HandleLeave, HandleCancelOffline
<1>9. CASE HandleRead \/ HandleTimeout \/ HandleOfflineTimeout
  BY <1>6, <1>9 DEF HandleRead, HandleTimeout, HandleOfflineTimeout
<1>10. CASE HandleMarkOffline
  <2>1. \A u \in Users : otimer'[u] => otimer[u] \/ Head(mailbox).user = u
    BY <1>10 DEF HandleMarkOffline, TypeOK
  <2>2. QED
    BY <1>6, <1>10, <2>1 DEF HandleMarkOffline
<1>11. CASE HandleShutdown
  BY <1>6, <1>11 DEF HandleShutdown
<1>12. CASE Close \/ Drain \/ Exit
  BY <1>3, <1>12 DEF Close, Drain, Exit
<1>13. ASSUME NEW c \in Callers, Begin(c) \/ GiveUp(c)
       PROVE  UNCHANGED <<mailbox, gens, signal, otimer>>
  BY <1>13 DEF Begin, GiveUp
<1>14. ASSUME NEW c \in Callers, Send(c) PROVE SignsPending'
  <2>1. UNCHANGED <<gens, otimer, run>>
    BY <1>14 DEF Send
  <2>2. CASE SendRead(c)
    <3>1. PICK m \in Messages : Enqueue(m) /\ m = Msg("read", c, NoOne)
      BY <2>2, Sent DEF SendRead
    <3>2. m.kind = "read" /\ UNCHANGED signal
      BY <2>2, <3>1 DEF SendRead, Msg
    <3>3. QED
      BY <2>1, <3>1, <3>2, SignsAhead DEF Effective
  <2>3. CASE SendCommand(c)
    <3>1. PICK kind \in {"act", "ready", "leave"}, u \in Users :
              Enqueue(Msg(kind, c, u)) /\ signal' = [signal EXCEPT ![u] = "on"]
      BY <2>3 DEF SendCommand
    <3>2. PICK m \in Messages : m = Msg(kind, c, u)
      BY Sent
    <3>3. m.kind = kind /\ m.user = u
      BY <3>2 DEF Msg
    <3>4. \A v \in Users : signal'[v] = "on" => signal[v] = "on" \/ SignOfLife(m, v)
      BY <3>1, <3>3 DEF SignOfLife, TypeOK
    <3>5. QED
      BY <2>1, <3>1, <3>2, <3>3, <3>4, SignsAhead DEF Effective
  <2>4. QED
    BY <1>7, <1>14, <2>1, <2>2, <2>3 DEF Send
<1>15. CASE Tick \/ TimerFires \/ FireCheck \/ FireDone
  BY <1>7, <1>15 DEF Tick, TimerFires, FireCheck, FireDone
<1>16. CASE FireSubmit
  <2>1. UNCHANGED <<gens, otimer, run, signal>>
    BY <1>16 DEF FireSubmit
  <2>2. CASE UNCHANGED mailbox
    BY <1>7, <2>1, <2>2
  <2>3. CASE Enqueue(Msg("timeout", NoOne, NoOne))
    <3>1. PICK m \in Messages : Enqueue(m) /\ m = Msg("timeout", NoOne, NoOne)
      BY <2>3, Sent
    <3>2. m.kind = "timeout"
      BY <3>1 DEF Msg
    <3>3. QED
      BY <2>1, <3>1, <3>2, SignsAhead DEF Effective
  <2>4. QED
    BY <1>16, <2>2, <2>3 DEF FireSubmit
<1>17. ASSUME NEW u \in Users, Drop(u) PROVE UNCHANGED <<mailbox, gens, signal, otimer>>
  BY <1>17 DEF Drop
<1>18. ASSUME NEW u \in Users, Notice(u) PROVE SignsPending'
  <2>1. UNCHANGED <<gens, otimer, run>>
    BY <1>18 DEF Notice, SubmitSignal
  <2>2. CASE UNCHANGED <<mailbox, signal>>
    BY <1>7, <2>1, <2>2
  <2>3. CASE Enqueue(Msg("markOffline", NoOne, u)) /\ signal' = [signal EXCEPT ![u] = "off"]
    <3>1. PICK m \in Messages : Enqueue(m) /\ m = Msg("markOffline", NoOne, u)
      BY <2>3, Sent
    <3>2. m.kind = "markOffline" /\ m.user = u
      BY <3>1 DEF Msg
    <3>3. signal'[u] = "off" /\ \A v \in Users : signal'[v] = "on" => signal[v] = "on"
      BY <2>3 DEF TypeOK
    <3>4. QED
      BY <2>1, <3>1, <3>2, <3>3, SignsAhead DEF Effective
  <2>4. QED
    BY <1>18, <2>2, <2>3 DEF Notice, SubmitSignal
<1>19. ASSUME NEW u \in Users, Reconnect(u) PROVE SignsPending'
  <2>1. UNCHANGED <<gens, otimer, run>>
    BY <1>19 DEF Reconnect, SubmitSignal
  <2>2. CASE UNCHANGED <<mailbox, signal>>
    BY <1>7, <2>1, <2>2
  <2>3. CASE Enqueue(Msg("cancelOffline", NoOne, u)) /\ signal' = [signal EXCEPT ![u] = "on"]
    <3>1. PICK m \in Messages : Enqueue(m) /\ m = Msg("cancelOffline", NoOne, u)
      BY <2>3, Sent
    <3>2. m.kind = "cancelOffline" /\ m.user = u
      BY <3>1 DEF Msg
    <3>3. \A v \in Users : signal'[v] = "on" => signal[v] = "on" \/ SignOfLife(m, v)
      BY <2>3, <3>2 DEF TypeOK, SignOfLife
    <3>4. QED
      BY <2>1, <3>1, <3>2, <3>3, SignsAhead DEF Effective
  <2>4. QED
    BY <1>19, <2>2, <2>3 DEF Reconnect, SubmitSignal
<1>20. ASSUME NEW u \in Users, OfflineExpire(u) PROVE SignsPending'
  <2>1. /\ UNCHANGED <<gens, run, signal>> /\ otimer[u]
        /\ \A v \in Users : otimer'[v] => otimer[v]
    BY <1>20 DEF OfflineExpire, TypeOK
  <2>2. CASE UNCHANGED mailbox
    BY <1>7, <2>1, <2>2
  <2>3. CASE ~UNCHANGED mailbox
    <3>1. PICK m \in Messages :
              /\ Enqueue(m)
              /\ m = [Msg("offlineTimeout", NoOne, u) EXCEPT
                        !.gen = gens[u], !.signal = signal[u]]
      BY <1>20, <2>3, Sent DEF OfflineExpire
    <3>2. m.kind = "offlineTimeout" /\ m.user = u /\ m.signal = signal[u]
      BY <3>1 DEF Msg
    <3>3. signal[u] \in {"on", "off"}
      BY DEF TypeOK
    <3>4. QED
      BY <2>1, <3>1, <3>2, <3>3, SignsAhead
  <2>4. QED
    BY <2>2, <2>3
<1>21. CASE ShutdownBegin \/ ShutdownExpire \/ ShutdownReturn
  BY <1>7, <1>21 DEF ShutdownBegin, ShutdownExpire, ShutdownReturn
<1>22. CASE ShutdownSend
  <2>1. UNCHANGED <<gens, otimer, run, signal>>
    BY <1>22 DEF ShutdownSend
  <2>2. PICK m \in Messages : Enqueue(m) /\ m = Msg("shutdown", NoOne, NoOne)
    BY <1>22, Sent DEF ShutdownSend
  <2>3. m.kind = "shutdown"
    BY <2>2 DEF Msg
  <2>4. QED
    BY <2>1, <2>2, <2>3, SignsAhead DEF Effective
<1>23. CASE UNCHANGED vars
  BY <1>7, <1>23 DEF vars
<1>24. QED
  BY <1>7, <1>8, <1>9, <1>10, <1>11, <1>12, <1>13, <1>14, <1>15, <1>16, <1>17, <1>18, <1>19,
     <1>20, <1>21, <1>22, <1>23 DEF Next, RunStep

-----------------------------------------------------------------------------
(* The theorems. *)

LEMMA InitInv == Init => IInv
<1> SUFFICES ASSUME Init PROVE IInv
  OBVIOUS
<1>1. TypeOK
  BY InitType
<1>2. DOMAIN mailbox = {} /\ mailbox = <<>>
  BY DEF Init
<1>3. LockIsSending
  BY NameAssumption DEF Init, LockIsSending
<1>4. TimersSound
  BY <1>2 DEF Init, TimersSound
<1>5. SignsPending
  BY <1>2 DEF Init, SignsPending
<1>6. ShutdownDrains /\ QuietAfterShutdown
  BY DEF Init, ShutdownDrains, QuietAfterShutdown
<1>7. NobodyLeftWaiting
  BY <1>2 DEF Init, NobodyLeftWaiting
<1>8. ExpiredDeadlineWatched
  BY DEF Init, ExpiredDeadlineWatched
<1>9. QED
  BY <1>1, <1>3, <1>4, <1>5, <1>6, <1>7, <1>8 DEF IInv, ActorInv

(* The actor's safety properties hold together in every state of every     *)
(* room, whatever callers, timers, connections and the shutdown do.        *)
THEOREM ActorInductive == Spec => []IInv
<1>1. ASSUME IInv, [Next]_vars PROVE IInv'
  BY <1>1, TypeStep, LockStep, TimersStep, SignsStep, DrainsStep, QuietStep, WaitingStep,
     WatchedStep DEF IInv, ActorInv
<1>2. QED
  BY <1>1, InitInv, PTL DEF Spec

(* The mailbox never exceeds its capacity, the lock, the messages and the  *)
(* timers agree, and a shutdown that returned leaves nothing running.      *)
THEOREM ActorSound == Spec => []ActorInv
<1>1. IInv => ActorInv
  BY DEF IInv
<1>2. QED
  BY <1>1, ActorInductive, PTL

(* Whoever waits for a reply has its command in the mailbox, and a loop    *)
(* that has exited left no command, timeout or shutdown behind             *)
(* (closeSubmissions, rejectPendingMsg).                                   *)
THEOREM NobodyWaitsInVain == Spec => []NobodyLeftWaiting
<1>1. IInv => NobodyLeftWaiting
  BY DEF IInv
<1>2. QED
  BY <1>1, ActorInductive, PTL

(* An expired deadline of a running room is on its way to the loop unless  *)
(* a full mailbox refused it (resetScheduler, armUntil, fire).             *)
THEOREM DeadlineWatched == Spec => []ExpiredDeadlineWatched
<1>1. IInv => ExpiredDeadlineWatched
  BY DEF IInv
<1>2. QED
  BY <1>1, ActorInductive, PTL

(* An offline timer takes a player out only when the last signal accepted  *)
(* before it ran out was the loss of the connection (ensureOfflineTimer,   *)
(* cancelOfflineTimer and their generations).                              *)
THEOREM OfflineSound == Spec => []OfflineFollowsLastSignal
<1>1. ASSUME IInv PROVE OfflineFollowsLastSignal
  <2>1. SUFFICES ASSUME run = "loop", mailbox # <<>>, Effective(Head(mailbox))
                 PROVE  Head(mailbox).signal = "off"
    BY DEF OfflineFollowsLastSignal
  <2>2. mailbox \in Seq(Messages)
    BY <1>1 DEF IInv, ActorInv, TypeOK
  <2>3. Head(mailbox) = mailbox[1] /\ 1 \in DOMAIN mailbox /\ DOMAIN mailbox \subseteq Nat \ {0}
    BY <2>1, <2>2
  <2>4. ~\E j \in DOMAIN mailbox : j < 1
    BY <2>3
  <2>5. QED
    BY <1>1, <2>1, <2>3, <2>4 DEF IInv, ActorInv, SignsPending
<1>2. QED
  BY <1>1, ActorInductive, PTL
=============================================================================
