------------------------------ MODULE RoomActor ------------------------------
(***************************************************************************)
(* One room's event loop and everything that runs beside it: the callers   *)
(* that submit commands and wait for their replies, the phase timer and    *)
(* the goroutines it starts, the offline timers of disconnected players,   *)
(* and the shutdown of the process.  internal/service/room/actor.          *)
(*                                                                         *)
(* A command runs to its end in the loop, so it is one action; a submit    *)
(* is two (lock and look at the closed flag, then send), because the loop  *)
(* sets that flag under the same lock.  The round is reduced to what the   *)
(* timers see of it: whether one is open and where its deadline stands.    *)
(***************************************************************************)
EXTENDS Integers, Sequences, FiniteSets

CONSTANTS
    Callers,        \* goroutines that submit one command each
    Users,          \* players whose connection may break
    Capacity,       \* of the mailbox channel
    MaxDrops,       \* bound: connections that break
    MaxCallbacks,   \* bound: timeouts being published when another is due
    NoOne,          \* in a message: sent for no caller, about no user
    Free            \* nobody holds submitMu

ASSUME CapacityAssumption == Capacity \in Nat \ {0}
ASSUME BoundAssumption == MaxDrops \in Nat /\ MaxCallbacks \in Nat \ {0}
ASSUME NameAssumption == /\ NoOne \notin Callers \cup Users
                         /\ Free \notin Callers \cup {"shutdown"}
                         /\ "shutdown" \notin Callers

VARIABLES
    room,           \* "waiting", "playing" or "closed"
    round,          \* a.round # nil
    deadline,       \* of the round's phase: "none", "running", "expired"
    mailbox, run,   \* a.ch, and where Run stands
    closed, lock,   \* a.closed and the holder of submitMu
    call,           \* where each caller stands
    timer,          \* the scheduler's timer is armed
    fires,          \* fire goroutines per stage; queued ones are in mailbox
    draining,
    shut,           \* where Shutdown stands
    otimer, gens,   \* offlineTimers and offlineTimerGens
    online, notices, drops,     \* client side: connected, ends not yet noticed
    signal,         \* history: last sign of life or absence accepted for a user
    lost            \* history: a full mailbox refused the current timeout

roundVars == <<room, round, deadline>>
loopVars == <<mailbox, run, closed, lock>>
timerVars == <<timer, fires, draining, lost>>
offlineVars == <<otimer, gens>>
clientVars == <<online, notices, drops, signal>>
vars == <<roundVars, loopVars, timerVars, offlineVars, clientVars, call, shut>>

-----------------------------------------------------------------------------
(* The mailbox.                                                            *)

Msg(kind, c, u) == [kind |-> kind, by |-> c, user |-> u, gen |-> 0,
                    signal |-> "none"]

(* A send that may not block finds no room in the channel.                 *)
Full == Len(mailbox) >= Capacity
Enqueue(m) == ~Full /\ mailbox' = Append(mailbox, m)

Queued(kind) == {i \in DOMAIN mailbox : mailbox[i].kind = kind}

(* The loop takes the next message, and ends after a command that closed   *)
(* the room.                                                               *)
Take(kind) ==
    /\ run = "loop"
    /\ mailbox # <<>>
    /\ Head(mailbox).kind = kind
    /\ mailbox' = Tail(mailbox)
    /\ UNCHANGED <<closed, lock>>

LoopOn == run' = IF room' = "closed" THEN "closing" ELSE "loop"

(* The reply channel is buffered: a caller that gave up is not waited for. *)
Answered(c) == [call EXCEPT ![c] = IF @ = "waiting" THEN "answered" ELSE @]

-----------------------------------------------------------------------------
(* What a command may do to the round; the engine decides which.           *)

Keep == UNCHANGED roundVars
Advance == round /\ deadline' = "running" /\ UNCHANGED <<room, round>>
Stall == round /\ deadline' = "none" /\ UNCHANGED <<room, round>>
Start == /\ room = "waiting" /\ ~round
         /\ room' = "playing" /\ round' = TRUE /\ deadline' = "running"
Finish == /\ round /\ round' = FALSE /\ deadline' = "none"
          /\ room' \in {"waiting", "closed"}

ResetDropsExpired(f) ==
    /\ timer' = (deadline' = "running" /\ ~draining)
    /\ fires' = f
    /\ lost' = FALSE
    /\ UNCHANGED draining

(* resetScheduler and armUntil: the old timer is stopped; a deadline that  *)
(* has passed starts a fire at once, even if one is already under way.     *)
ResetScheduler(f) ==
    /\ timer' = (deadline' = "running" /\ ~draining)
    /\ fires' = [f EXCEPT !.start = @ + (IF deadline' = "expired" /\ ~draining
                                         THEN 1 ELSE 0)]
    /\ lost' = FALSE
    /\ UNCHANGED draining

CancelKeepsGeneration(u) ==
    /\ otimer' = [otimer EXCEPT ![u] = FALSE]
    /\ UNCHANGED gens

(* cancelOfflineTimer: the generation moves on only once the map exists,   *)
(* that is, after some offline timer was started.                          *)
CancelOfflineTimer(u) ==
    /\ otimer' = [otimer EXCEPT ![u] = FALSE]
    /\ gens' = IF \E o \in Users : gens[o] > 0
               THEN [gens EXCEPT ![u] = @ + 1] ELSE gens

-----------------------------------------------------------------------------
(* New and Run: a fresh room, or a round recovered with its deadline still *)
(* ahead or already past (resetScheduler fires at once).                   *)
Init ==
    /\ \/ room = "waiting" /\ deadline = "none"
       \/ room = "playing" /\ deadline \in {"running", "expired"}
    /\ round = (room = "playing")
    /\ timer = (deadline = "running")
    /\ fires = [start |-> IF deadline = "expired" THEN 1 ELSE 0,
                sending |-> 0, callback |-> 0]
    /\ draining = FALSE /\ lost = FALSE
    /\ mailbox = <<>> /\ run = "loop"
    /\ closed = FALSE /\ lock = Free
    /\ call = [c \in Callers |-> "idle"]
    /\ shut = "idle"
    /\ otimer = [u \in Users |-> FALSE] /\ gens = [u \in Users |-> 0]
    /\ online = [u \in Users |-> TRUE] /\ notices = [u \in Users |-> 0]
    /\ drops = 0
    /\ signal = [u \in Users |-> "on"]

-----------------------------------------------------------------------------
(* Callers: SubmitJoin, SubmitReady, SubmitLeave, SubmitAction, ...        *)

Begin(c) ==
    /\ call[c] = "idle"
    /\ lock = Free
    /\ IF closed
       THEN call' = [call EXCEPT ![c] = "refused"] /\ UNCHANGED lock
       ELSE call' = [call EXCEPT ![c] = "sending"] /\ lock' = c
    /\ UNCHANGED <<roundVars, mailbox, run, closed, timerVars, offlineVars,
                   clientVars, shut>>

(* SubmitRoundSnapJSON, SubmitRoundView, SubmitRoomSnapshot and SubmitJoin *)
(* queue commands that leave the timers alone.                             *)
SendRead(c) ==
    /\ Enqueue(Msg("read", c, NoOne))
    /\ call' = [call EXCEPT ![c] = "waiting"]
    /\ UNCHANGED signal

(* SubmitReady, SubmitLeave and the game actions; what a player does is    *)
(* also a sign of life.                                                    *)
SendCommand(c) ==
    \E kind \in {"act", "ready", "leave"}, u \in Users :
        /\ Enqueue(Msg(kind, c, u))
        /\ call' = [call EXCEPT ![c] = "waiting"]
        /\ signal' = [signal EXCEPT ![u] = "on"]

(* The send does not block: a full mailbox refuses (ErrRateLimited).       *)
Send(c) ==
    /\ lock = c
    /\ lock' = Free
    /\ \/ /\ Full
          /\ call' = [call EXCEPT ![c] = "refused"]
          /\ UNCHANGED <<mailbox, signal>>
       \/ SendRead(c)
       \/ SendCommand(c)
    /\ UNCHANGED <<roundVars, run, closed, timerVars, offlineVars,
                   online, notices, drops, shut>>

(* The caller's context ends; a command already sent is still executed.    *)
GiveUp(c) ==
    /\ call[c] \in {"sending", "waiting"}
    /\ call' = [call EXCEPT ![c] = "cancelled"]
    /\ lock' = IF lock = c THEN Free ELSE lock
    /\ UNCHANGED <<roundVars, mailbox, run, closed, timerVars, offlineVars,
                   clientVars, shut>>

-----------------------------------------------------------------------------
(* The loop, one action per kind of command.                               *)

(* Discard, pong, chi, gang, hu, pass and opening actions.  A drifted      *)
(* phase token is answered before anything else happens.                   *)
HandleAct ==
    LET m == Head(mailbox) IN
    /\ Take("act")
    /\ CancelOfflineTimer(m.user)
    /\ call' = Answered(m.by)
    /\ \/ round /\ Keep /\ UNCHANGED timerVars
       \/ (Keep \/ Advance \/ Stall \/ Finish) /\ ResetScheduler(fires)
    /\ LoopOn
    /\ UNCHANGED <<clientVars, shut>>

HandleReady ==
    LET m == Head(mailbox) IN
    /\ Take("ready")
    /\ CancelOfflineTimer(m.user)
    /\ call' = Answered(m.by)
    /\ (Keep \/ Start) /\ ResetScheduler(fires)
    /\ LoopOn
    /\ UNCHANGED <<clientVars, shut>>

HandleLeave ==
    LET m == Head(mailbox) IN
    /\ Take("leave")
    /\ CancelOfflineTimer(m.user)
    /\ call' = Answered(m.by)
    /\ Keep /\ ResetScheduler(fires)
    /\ LoopOn
    /\ UNCHANGED <<clientVars, shut>>

HandleRead ==
    LET m == Head(mailbox) IN
    /\ Take("read")
    /\ call' = Answered(m.by)
    /\ Keep
    /\ LoopOn
    /\ UNCHANGED <<timerVars, offlineVars, clientVars, shut>>

(* cmdAutoTimeout acts on whatever phase is current when it is taken.  It  *)
(* fails without a round, in an opening that waits only for surrendered    *)
(* seats, and on the last pass after a robbed gang; otherwise the fire     *)
(* goroutine goes on to publish and persist (onAuto).                      *)
HandleTimeout ==
    /\ Take("timeout")
    /\ \/ (Keep \/ Stall) /\ ResetScheduler(fires)
       \/ /\ (round /\ Keep /\ fires.callback < MaxCallbacks) \/ Advance \/ Finish
          /\ ResetScheduler([fires EXCEPT !.callback = @ + 1])
    /\ LoopOn
    /\ UNCHANGED <<offlineVars, clientVars, call, shut>>

(* ensureOfflineTimer *)
HandleMarkOffline ==
    LET m == Head(mailbox) IN
    /\ Take("markOffline")
    /\ Keep
    /\ IF draining THEN UNCHANGED offlineVars
       ELSE /\ gens' = [gens EXCEPT ![m.user] = @ + 1]
            /\ otimer' = [otimer EXCEPT ![m.user] = TRUE]
    /\ LoopOn
    /\ UNCHANGED <<timerVars, clientVars, call, shut>>

HandleCancelOffline ==
    LET m == Head(mailbox) IN
    /\ Take("cancelOffline")
    /\ Keep
    /\ CancelOfflineTimer(m.user)
    /\ LoopOn
    /\ UNCHANGED <<timerVars, clientVars, call, shut>>

(* The message of an offline timer counts only while its generation is     *)
(* the current one; then the player leaves.                                *)
Effective(m) == m.kind = "offlineTimeout" /\ gens[m.user] = m.gen

HandleOfflineTimeout ==
    /\ Take("offlineTimeout")
    /\ Keep
    /\ IF Effective(Head(mailbox)) THEN ResetScheduler(fires)
       ELSE UNCHANGED timerVars
    /\ LoopOn
    /\ UNCHANGED <<offlineVars, clientVars, call, shut>>

(* cmdShutdownTimers *)
HandleShutdown ==
    /\ Take("shutdown")
    /\ Keep
    /\ draining' = TRUE /\ timer' = FALSE
    /\ otimer' = [u \in Users |-> FALSE] /\ gens' = [u \in Users |-> 0]
    /\ shut' = IF shut = "waiting" THEN "inflight" ELSE shut
    /\ LoopOn
    /\ UNCHANGED <<fires, lost, clientVars, call>>

-----------------------------------------------------------------------------
(* The end of the loop.                                                    *)

CloseWithoutLock ==
    /\ run = "closing"
    /\ closed' = TRUE
    /\ run' = "draining"
    /\ UNCHANGED <<roundVars, mailbox, lock, timerVars, offlineVars, clientVars,
                   call, shut>>

(* The closed flag is set under the lock: no submit is between its look at *)
(* the flag and its send.                                                  *)
Close ==
    /\ run = "closing"
    /\ lock = Free
    /\ closed' = TRUE
    /\ run' = "draining"
    /\ UNCHANGED <<roundVars, mailbox, lock, timerVars, offlineVars, clientVars,
                   call, shut>>

(* rejectPendingMsg: whoever waits for this message gets an error, a       *)
(* shutdown its acknowledgement, a fire goroutine ends.                    *)
RejectPendingMsg(m) ==
    /\ call' = IF m.by \in Callers THEN Answered(m.by) ELSE call
    /\ shut' = IF m.kind = "shutdown" /\ shut = "waiting" THEN "inflight" ELSE shut

Drain ==
    /\ run = "draining"
    /\ mailbox # <<>>
    /\ mailbox' = Tail(mailbox)
    /\ RejectPendingMsg(Head(mailbox))
    /\ UNCHANGED <<roundVars, run, closed, lock, timerVars, offlineVars, clientVars>>

Exit ==
    /\ run = "draining"
    /\ mailbox = <<>>
    /\ run' = "exited"
    /\ otimer' = [u \in Users |-> FALSE] /\ gens' = [u \in Users |-> 0]
    /\ timer' = FALSE
    /\ UNCHANGED <<roundVars, mailbox, closed, lock, fires, draining, lost,
                   clientVars, call, shut>>

-----------------------------------------------------------------------------
(* The phase timer.                                                        *)

Tick ==
    /\ deadline = "running"
    /\ fires.callback < MaxCallbacks
    /\ deadline' = "expired"
    /\ UNCHANGED <<room, round, loopVars, timerVars, offlineVars, clientVars, call, shut>>

TimerFires ==
    /\ timer /\ deadline = "expired"
    /\ timer' = FALSE
    /\ fires' = [fires EXCEPT !.start = @ + 1]
    /\ UNCHANGED <<roundVars, loopVars, draining, lost, offlineVars, clientVars, call, shut>>

FireUnchecked ==
    /\ fires.start > 0
    /\ fires' = [fires EXCEPT !.start = @ - 1, !.sending = @ + 1]
    /\ UNCHANGED <<roundVars, loopVars, timer, draining, lost, offlineVars,
                   clientVars, call, shut>>

(* fire: nothing happens while draining; otherwise the goroutine is        *)
(* counted as in flight from here on.                                      *)
FireCheck ==
    /\ fires.start > 0
    /\ fires' = [fires EXCEPT !.start = @ - 1,
                              !.sending = @ + (IF draining THEN 0 ELSE 1)]
    /\ UNCHANGED <<roundVars, loopVars, timer, draining, lost, offlineVars,
                   clientVars, call, shut>>

(* SubmitAutoTimeout: a closed room or a full mailbox refuses it, and no   *)
(* one tries again.                                                        *)
FireSubmit ==
    /\ fires.sending > 0
    /\ lock = Free
    /\ fires' = [fires EXCEPT !.sending = @ - 1]
    /\ IF closed \/ Full
       THEN lost' = TRUE /\ UNCHANGED mailbox
       ELSE Enqueue(Msg("timeout", NoOne, NoOne)) /\ UNCHANGED lost
    /\ UNCHANGED <<roundVars, run, closed, lock, timer, draining, offlineVars,
                   clientVars, call, shut>>

(* onAuto has published and persisted the notifications of a timeout.      *)
FireDone ==
    /\ fires.callback > 0
    /\ fires' = [fires EXCEPT !.callback = @ - 1]
    /\ UNCHANGED <<roundVars, loopVars, timer, draining, lost, offlineVars,
                   clientVars, call, shut>>

-----------------------------------------------------------------------------
(* Connections and offline timers.                                         *)

(* The connection of u breaks.  The server learns of it when its read      *)
(* fails, which may be after u is back.                                    *)
Drop(u) ==
    /\ online[u] /\ drops < MaxDrops
    /\ online' = [online EXCEPT ![u] = FALSE]
    /\ notices' = [notices EXCEPT ![u] = @ + 1]
    /\ drops' = drops + 1
    /\ UNCHANGED <<roundVars, loopVars, timerVars, offlineVars, signal, call, shut>>

(* SubmitMarkOffline and SubmitCancelOffline: fire and forget.  The closed *)
(* flag is read before the lock is taken, so it may be out of date.        *)
SubmitSignal(kind, u, s) ==
    /\ lock = Free
    /\ \/ /\ Enqueue(Msg(kind, NoOne, u))
          /\ signal' = [signal EXCEPT ![u] = s]
       \/ /\ closed \/ Full
          /\ UNCHANGED <<mailbox, signal>>
    /\ UNCHANGED <<roundVars, run, closed, lock, timerVars, offlineVars, call, shut>>

(* The read loop of the broken connection ends (MarkSeatOffline). *)
Notice(u) ==
    /\ notices[u] > 0
    /\ notices' = [notices EXCEPT ![u] = @ - 1]
    /\ UNCHANGED <<online, drops>>
    /\ SubmitSignal("markOffline", u, "off")

(* The player logs in again (CancelOfflineSurrender). *)
Reconnect(u) ==
    /\ ~online[u]
    /\ online' = [online EXCEPT ![u] = TRUE]
    /\ UNCHANGED <<notices, drops>>
    /\ SubmitSignal("cancelOffline", u, "on")

(* The callback of an offline timer only sends; a full mailbox drops it.   *)
(* The history field records how things stood when the timer ran out.      *)
OfflineExpire(u) ==
    /\ otimer[u]
    /\ otimer' = [otimer EXCEPT ![u] = FALSE]
    /\ \/ Full /\ UNCHANGED mailbox
       \/ Enqueue([Msg("offlineTimeout", NoOne, u) EXCEPT
                      !.gen = gens[u], !.signal = signal[u]])
    /\ UNCHANGED <<roundVars, run, closed, lock, timerVars, gens, clientVars, call, shut>>

-----------------------------------------------------------------------------
(* Shutdown of the process.                                                *)

ShutdownBegin ==
    /\ shut = "idle"
    /\ lock = Free
    /\ IF closed
       THEN shut' = "skipped" /\ UNCHANGED lock
       ELSE shut' = "sending" /\ lock' = "shutdown"
    /\ UNCHANGED <<roundVars, mailbox, run, closed, timerVars, offlineVars,
                   clientVars, call>>

(* The send blocks on a full mailbox, with the lock held. *)
ShutdownSend ==
    /\ shut = "sending"
    /\ Enqueue(Msg("shutdown", NoOne, NoOne))
    /\ shut' = "waiting"
    /\ lock' = Free
    /\ UNCHANGED <<roundVars, run, closed, timerVars, offlineVars, clientVars, call>>

ExpireKeepsLock ==
    /\ shut \in {"sending", "waiting"}
    /\ shut' = "expired"
    /\ UNCHANGED <<roundVars, loopVars, timerVars, offlineVars, clientVars, call>>

(* The context of the shutdown (five seconds) ends. *)
ShutdownExpire ==
    /\ shut \in {"sending", "waiting"}
    /\ shut' = "expired"
    /\ lock' = IF lock = "shutdown" THEN Free ELSE lock
    /\ UNCHANGED <<roundVars, mailbox, run, closed, timerVars, offlineVars,
                   clientVars, call>>

(* waitInflight *)
ShutdownReturn ==
    /\ shut = "inflight"
    /\ fires.sending = 0 /\ fires.callback = 0 /\ Queued("timeout") = {}
    /\ shut' = "returned"
    /\ UNCHANGED <<roundVars, loopVars, timerVars, offlineVars, clientVars, call>>

-----------------------------------------------------------------------------
RunStep ==
    \/ HandleAct \/ HandleReady \/ HandleLeave \/ HandleRead
    \/ HandleTimeout
    \/ HandleMarkOffline \/ HandleCancelOffline \/ HandleOfflineTimeout
    \/ HandleShutdown
    \/ Close \/ Drain \/ Exit

Next ==
    \/ RunStep
    \/ \E c \in Callers : Begin(c) \/ Send(c) \/ GiveUp(c)
    \/ Tick \/ TimerFires \/ FireCheck \/ FireSubmit \/ FireDone
    \/ \E u \in Users : Drop(u) \/ Notice(u) \/ Reconnect(u) \/ OfflineExpire(u)
    \/ ShutdownBegin \/ ShutdownSend \/ ShutdownExpire \/ ShutdownReturn

Spec == Init /\ [][Next]_vars

(* The loop runs whenever it has something to do, a submit that holds the  *)
(* lock goes on, and the five seconds of a shutdown pass.  Nobody owes a   *)
(* command, a cancellation or a tick of the clock.                         *)
FairSpec == /\ Spec
            /\ WF_vars(RunStep)
            /\ \A c \in Callers : WF_vars(Send(c))
            /\ WF_vars(ShutdownExpire)

-----------------------------------------------------------------------------
(* Types. *)
Messages ==
    [kind : {"act", "ready", "leave", "read", "timeout", "markOffline",
             "cancelOffline", "offlineTimeout", "shutdown"},
     by : Callers \cup {NoOne}, user : Users \cup {NoOne},
     gen : Nat, signal : {"none", "on", "off"}]

FireCounts == [start : Nat, sending : Nat, callback : Nat]

TypeOK ==
    /\ room \in {"waiting", "playing", "closed"} /\ round \in BOOLEAN
    /\ deadline \in {"none", "running", "expired"}
    /\ mailbox \in Seq(Messages) /\ Len(mailbox) <= Capacity
    /\ run \in {"loop", "closing", "draining", "exited"}
    /\ closed \in BOOLEAN /\ lock \in Callers \cup {Free, "shutdown"}
    /\ call \in [Callers -> {"idle", "sending", "waiting", "answered",
                             "refused", "cancelled"}]
    /\ timer \in BOOLEAN /\ draining \in BOOLEAN /\ lost \in BOOLEAN
    /\ fires \in FireCounts
    /\ shut \in {"idle", "sending", "waiting", "inflight", "returned",
                 "skipped", "expired"}
    /\ otimer \in [Users -> BOOLEAN] /\ gens \in [Users -> Nat]
    /\ online \in [Users -> BOOLEAN] /\ notices \in [Users -> Nat]
    /\ drops \in 0..MaxDrops
    /\ signal \in [Users -> {"on", "off"}]

-----------------------------------------------------------------------------
(* Safety.                                                                 *)

(* Whoever waits for a reply has its command in the mailbox: the closing   *)
(* loop never leaves a command behind it, whatever was being submitted     *)
(* when the room closed.                                                   *)
NobodyLeftWaiting ==
    /\ \A c \in Callers : call[c] = "waiting" =>
          \E i \in DOMAIN mailbox : mailbox[i].by = c
    /\ shut = "waiting" => Queued("shutdown") # {}
    /\ run = "exited" =>
          \A i \in DOMAIN mailbox : mailbox[i].by = NoOne
                                    /\ mailbox[i].kind \notin {"timeout", "shutdown"}

(* An expired deadline of an open round is on its way to the loop: the     *)
(* timer is about to fire, a fire is under way or queued.  Only a full     *)
(* mailbox can lose it, and a shutdown gives it up.                        *)
ExpiredDeadlineWatched ==
    deadline = "expired" /\ run = "loop" /\ ~draining =>
        \/ timer \/ fires.start > 0 \/ fires.sending > 0
        \/ Queued("timeout") # {}
        \/ lost

(* A player is taken out by an offline timer only if the last the room     *)
(* heard of it before the timer ran out was the loss of its connection:    *)
(* a timer that was cancelled or restarted has no effect, even when its    *)
(* message is already in the mailbox.                                      *)
OfflineFollowsLastSignal ==
    run = "loop" /\ mailbox # <<>> /\ Effective(Head(mailbox))
        => Head(mailbox).signal = "off"

(* After a shutdown that returned normally no timer changes the room any   *)
(* more: no timeout is queued or being published, and no offline message   *)
(* in the mailbox has an effect.                                           *)
QuietAfterShutdown ==
    shut = "returned" =>
        /\ fires.callback = 0
        /\ Queued("timeout") = {}
        /\ run = "loop" => /\ fires.sending = 0 /\ ~timer
                           /\ \A i \in DOMAIN mailbox : ~Effective(mailbox[i])

(* What the properties above rest on; with them it is inductive.           *)

(* submitMu belongs to whoever is between its look at the closed flag and  *)
(* its send, and to nobody once the flag is set.                           *)
LockIsSending ==
    /\ \A c \in Callers : call[c] = "sending" <=> lock = c
    /\ shut = "sending" <=> lock = "shutdown"
    /\ closed <=> run \in {"draining", "exited"}
    /\ closed => lock = Free

(* A message is from a caller or about a player as its kind says, and an   *)
(* offline timeout carries a generation that was handed out.               *)
MessageSound(m) ==
    /\ m.by \in Callers <=> m.kind \in {"act", "ready", "leave", "read"}
    /\ m.kind \in {"act", "ready", "leave", "markOffline", "cancelOffline",
                   "offlineTimeout"} => m.user \in Users
    /\ m.kind = "offlineTimeout" =>
          m.gen > 0 /\ (run = "loop" /\ ~draining => m.gen <= gens[m.user])

(* An offline timer that runs has a generation, and a drained actor has    *)
(* neither timers nor generations.                                         *)
TimersSound ==
    /\ \A i \in DOMAIN mailbox : MessageSound(mailbox[i])
    /\ \A u \in Users : otimer[u] => gens[u] > 0
    /\ draining => ~timer /\ \A u \in Users : gens[u] = 0
    /\ deadline = "running" /\ run = "loop" /\ ~draining => timer

(* A sign of life of u that the loop has still to take will cancel.        *)
SignOfLife(m, u) == m.kind \in {"act", "ready", "leave", "cancelOffline"} /\ m.user = u

(* A player heard of last by a sign of life has that sign queued behind    *)
(* every absence, ahead of every timeout recorded since, and at all while  *)
(* the timer still runs.                                                   *)
SignsPending ==
    run = "loop" =>
        /\ \A u \in Users : signal[u] = "on" =>
              /\ otimer[u] => \E j \in DOMAIN mailbox : SignOfLife(mailbox[j], u)
              /\ \A i \in DOMAIN mailbox :
                    mailbox[i].kind = "markOffline" /\ mailbox[i].user = u =>
                        \E j \in DOMAIN mailbox : j > i /\ SignOfLife(mailbox[j], u)
        /\ \A i \in DOMAIN mailbox :
              Effective(mailbox[i]) /\ mailbox[i].signal # "off" =>
                  \E j \in DOMAIN mailbox :
                      j < i /\ SignOfLife(mailbox[j], mailbox[i].user)

(* The process waits for fires in flight only after the timers are drained *)
(* or the loop has gone, and in an open room none is in flight afterwards. *)
ShutdownDrains ==
    /\ shut \in {"inflight", "returned"} => draining \/ closed
    /\ shut = "returned" /\ ~closed => fires.sending = 0

(* The actor's state stays within its types (a mailbox never holds more    *)
(* than its capacity), a shutdown leaves nothing running behind it, and    *)
(* the lock, the messages and the timers agree.                            *)
ActorInv == /\ TypeOK /\ LockIsSending /\ TimersSound /\ SignsPending
            /\ ShutdownDrains /\ QuietAfterShutdown

-----------------------------------------------------------------------------
(* Liveness.                                                               *)

(* Every command that entered the mailbox is answered, in a room that      *)
(* plays on, closes or shuts down; the shutdown too gets its answer.       *)
EveryCallAnswered ==
    /\ \A c \in Callers : call[c] = "waiting" ~> call[c] # "waiting"
    /\ shut = "waiting" ~> shut # "waiting"
=============================================================================
