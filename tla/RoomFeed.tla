------------------------------- MODULE RoomFeed -------------------------------
(***************************************************************************)
(* The way of a room's events to one player: the room process stores and   *)
(* pushes them to a Redis list (adapter/room, store/redis), the player's   *)
(* gate pops the list in a polling goroutine, forwards what it pops to the *)
(* connections registered at that moment, and replays stored events when a *)
(* player comes back (gateway/remote).                                     *)
(*                                                                         *)
(* Events of a room are numbered by their seq.  At most one poller of a    *)
(* room is the current one; one that was cancelled notices it only after   *)
(* the pop it waits in.                                                    *)
(***************************************************************************)
EXTENDS Integers, Sequences, FiniteSets, SequencesExt

CONSTANTS
    Pollers,        \* polling goroutines alive at once
    None,
    MaxEvents,      \* bound: events of the room
    MaxLogins,      \* bound: logins that resume the room, anyone's
    MaxFaults,      \* bound: faults
    Faults          \* which faults happen

ASSUME NoneAssumption == None \notin Pollers
ASSUME BoundAssumption == {MaxEvents, MaxLogins, MaxFaults} \subseteq Nat
ASSUME FaultsAssumption == Faults \subseteq {"push", "expire", "replay", "gate", "leave"}

VARIABLES
    stored,         \* room_events: events 1..stored
    pushing,        \* events stored and not pushed yet
    list,           \* the room's Redis list
    handle,         \* pollHandles: the current poller, or None
    poller,         \* per goroutine: where it is, and the event or cursor it has
    client,         \* the player's login: its stage and the snapshot's cursor
    registered,     \* the hub has the player's newest connection for the room
    shown,          \* events that connection was shown, by snapshot or frame
    lost,           \* history: events a fault took away
    logins, faults

vars == <<stored, pushing, list, handle, poller, client, registered, shown, lost,
          logins, faults>>

Rest == [pc |-> "none", event |-> 0, since |-> 0, own |-> FALSE]
Off == [pc |-> "off", cursor |-> 0]

Init ==
    /\ stored = 0 /\ pushing = {} /\ list = <<>>
    /\ handle = None /\ poller = [p \in Pollers |-> Rest]
    /\ client = Off /\ registered = FALSE
    /\ shown = {} /\ lost = {} /\ logins = 0 /\ faults = 0

Fault(kind, events) ==
    /\ kind \in Faults /\ faults < MaxFaults
    /\ faults' = faults + 1 /\ lost' = lost \cup events
NoFault == UNCHANGED <<lost, faults>>
MoreLogins == logins < MaxLogins /\ logins' = logins + 1

-----------------------------------------------------------------------------
(* The room process: an event is stored, then pushed; requests push side   *)
(* by side, and a push that fails is only logged.                          *)
Store ==
    /\ stored < MaxEvents /\ stored' = stored + 1
    /\ pushing' = pushing \cup {stored + 1}
    /\ UNCHANGED <<list, handle, poller, client, registered, shown, lost, logins, faults>>

PushesTwice(e) == list \o <<e, e>>

RoomEventQueuePush(e) == Append(list, e)

PublishToRedis(e) ==
    /\ e \in pushing /\ pushing' = pushing \ {e}
    /\ \/ list' = RoomEventQueuePush(e) /\ NoFault
       \/ Fault("push", {e}) /\ UNCHANGED list
    /\ UNCHANGED <<stored, handle, poller, client, registered, shown, logins>>

(* Nothing was pushed for five minutes: the list expires.                  *)
Expire ==
    /\ list # <<>> /\ list' = <<>> /\ Fault("expire", ToSet(list))
    /\ UNCHANGED <<stored, pushing, handle, poller, client, registered, shown, logins>>

(* Another gate with a player of this room pops the same list.             *)
OtherGatePops ==
    /\ list # <<>> /\ list' = Tail(list) /\ Fault("gate", {Head(list)})
    /\ UNCHANGED <<stored, pushing, handle, poller, client, registered, shown, logins>>

-----------------------------------------------------------------------------
(* The gate's pollers.                                                     *)

(* forwardEventToHub: whoever is registered now is shown the events.       *)
Forward(events) == shown' = IF registered THEN shown \cup events ELSE shown

Cancelled(p) == handle # p

IgnoresCancel(p) ==
    /\ poller[p].pc = "poll" /\ poller' = [poller EXCEPT ![p].pc = "pop"]
    /\ UNCHANGED <<stored, pushing, list, handle, client, registered, shown, lost, logins, faults>>

PollLoop(p) ==
    /\ poller[p].pc = "poll"
    /\ poller' = [poller EXCEPT ![p] = IF Cancelled(p) THEN Rest ELSE [Rest EXCEPT !.pc = "pop"]]
    /\ UNCHANGED <<stored, pushing, list, handle, client, registered, shown, lost, logins, faults>>

(* BLPOP does not look at the context: a cancelled poller may still get an *)
(* event, and forwards it.                                                 *)
RoomEventQueuePop(p) ==
    /\ poller[p].pc = "pop"
    /\ \/ /\ list # <<>> /\ list' = Tail(list)
          /\ poller' = [poller EXCEPT ![p] = [Rest EXCEPT !.pc = "forward", !.event = Head(list)]]
       \/ /\ list = <<>> /\ UNCHANGED list          \* the pop timed out
          /\ poller' = [poller EXCEPT ![p].pc = "poll"]
    /\ UNCHANGED <<stored, pushing, handle, client, registered, shown, lost, logins, faults>>

DropsWhenCancelled(p) ==
    /\ poller[p].pc = "forward"
    /\ IF Cancelled(p) THEN UNCHANGED shown ELSE Forward({poller[p].event})
    /\ poller' = [poller EXCEPT ![p] = [Rest EXCEPT !.pc = "poll"]]
    /\ UNCHANGED <<stored, pushing, list, handle, client, registered, lost, logins, faults>>

PollForward(p) ==
    /\ poller[p].pc = "forward"
    /\ Forward({poller[p].event})
    /\ poller' = [poller EXCEPT ![p] = [Rest EXCEPT !.pc = "poll"]]
    /\ UNCHANGED <<stored, pushing, list, handle, client, registered, lost, logins, faults>>

(* EnsureRoomEventSubscription without a cursor, before every action of a  *)
(* player of this room on this gate: a poller is started if none runs.     *)
Subscribe ==
    /\ handle = None
    /\ \E p \in Pollers :
        /\ poller[p] = Rest /\ handle' = p
        /\ poller' = [poller EXCEPT ![p].pc = "poll"]
    /\ UNCHANGED <<stored, pushing, list, client, registered, shown, lost, logins, faults>>

(* With a cursor: the current poller is cancelled and replaced; the new    *)
(* one starts after the replay.                                            *)
Resubscribe(p, since, own) ==
    /\ poller[p] = Rest /\ handle' = p
    /\ poller' = [poller EXCEPT ![p] = [pc |-> "replay", event |-> 0, since |-> since, own |-> own]]

(* Leave of any player of the room on this gate.                           *)
Leave ==
    /\ handle # None /\ handle' = None
    /\ "leave" \in Faults /\ faults < MaxFaults /\ faults' = faults + 1
    /\ UNCHANGED <<stored, pushing, list, poller, client, registered, shown, lost, logins>>

(* Another player of the room comes back on this gate.                     *)
OtherResumes ==
    /\ MoreLogins
    /\ \E p \in Pollers, k \in 0..stored : Resubscribe(p, k, FALSE)
    /\ UNCHANGED <<stored, pushing, list, client, registered, shown, lost, faults>>

(* ListEventsAfter, asked for by the replay of poller p.                   *)
ListEventsAfter(since) == (since + 1)..stored

(* replayHistoricalEvents: one answer, forwarded event by event; one that  *)
(* fails is only logged.                                                   *)
Replay(p) ==
    LET due == ListEventsAfter(poller[p].since)
    IN  /\ poller[p].pc = "replay"
        /\ poller' = [poller EXCEPT ![p] = [Rest EXCEPT !.pc = "poll"]]
        /\ \/ Forward(due) /\ NoFault
           \/ Fault("replay", due) /\ UNCHANGED shown
        /\ client' = IF poller[p].own THEN [client EXCEPT !.pc = "on"] ELSE client
        /\ UNCHANGED <<stored, pushing, list, handle, registered, logins>>

-----------------------------------------------------------------------------
(* The player.  A new login may come before the end of the old connection  *)
(* is noticed; frames then still go to the old one.                        *)
SnapshotRoom ==
    /\ client.pc \in {"off", "on"} /\ MoreLogins
    /\ client' = [pc |-> "snapshot", cursor |-> stored]
    /\ shown' = 1..stored /\ registered' = FALSE
    /\ UNCHANGED <<stored, pushing, list, handle, poller, lost, faults>>

(* Hub.Register comes before the subscription.                             *)
Register ==
    /\ client.pc = "snapshot"
    /\ client' = [client EXCEPT !.pc = "registered"] /\ registered' = TRUE
    /\ UNCHANGED <<stored, pushing, list, handle, poller, shown, lost, logins, faults>>

ResubscribeClient ==
    /\ client.pc = "registered"
    /\ \E p \in Pollers : Resubscribe(p, client.cursor, TRUE)
    /\ client' = [client EXCEPT !.pc = "replay"]
    /\ UNCHANGED <<stored, pushing, list, registered, shown, lost, logins, faults>>

(* The connection ends, or the hub drops a client that is too slow.        *)
Unregister ==
    /\ client.pc = "on" /\ client' = Off /\ registered' = FALSE
    /\ UNCHANGED <<stored, pushing, list, handle, poller, shown, lost, logins, faults>>

-----------------------------------------------------------------------------
Poll(p) == PollLoop(p) \/ RoomEventQueuePop(p) \/ PollForward(p) \/ Replay(p)
Login == Register \/ ResubscribeClient

Next ==
    \/ Store \/ \E e \in pushing : PublishToRedis(e)
    \/ Expire \/ OtherGatePops
    \/ \E p \in Pollers : Poll(p)
    \/ Subscribe \/ Leave \/ OtherResumes
    \/ SnapshotRoom \/ Login \/ Unregister

(* The goroutines of the room process and of the gate are scheduled; Redis *)
(* answers a pop.                                                          *)
Fairness ==
    /\ \A e \in 1..MaxEvents : WF_vars(PublishToRedis(e))
    /\ \A p \in Pollers : WF_vars(Poll(p))
    /\ WF_vars(Login)

Spec == Init /\ [][Next]_vars /\ Fairness

-----------------------------------------------------------------------------
PollerStates ==
    [pc : {"none", "poll", "pop", "forward", "replay"}, event : 0..stored,
     since : 0..stored, own : BOOLEAN]
ClientStates ==
    [pc : {"off", "snapshot", "registered", "replay", "on"}, cursor : 0..stored]

TypeOK ==
    /\ stored \in 0..MaxEvents /\ pushing \subseteq 1..stored
    /\ list \in Seq(1..stored) /\ Len(list) <= MaxEvents
    /\ handle \in Pollers \cup {None}
    /\ poller \in [Pollers -> PollerStates] /\ client \in ClientStates
    /\ registered \in BOOLEAN
    /\ shown \subseteq 1..stored /\ lost \subseteq 1..stored
    /\ logins \in 0..MaxLogins /\ faults \in 0..MaxFaults

(* An event is pushed once, to the list or to nobody: what a client is     *)
(* shown twice comes from the replay, never from two pops.                 *)
PushedOnce ==
    /\ IsInjective(list) /\ ToSet(list) \cap pushing = {}
    /\ \A p, q \in Pollers : poller[p].event # 0 =>
         /\ poller[p].event \notin ToSet(list) \cup pushing
         /\ p # q => poller[p].event # poller[q].event

(* Between its pop and its write a poller holds an event; the current      *)
(* poller runs; a player is registered from Hub.Register to the end of the *)
(* connection, and one login at most waits for a replay.                   *)
PollersFit ==
    /\ \A p \in Pollers : poller[p].pc = "forward" <=> poller[p].event # 0
    /\ handle # None => poller[handle].pc # "none"
    /\ registered <=> client.pc \in {"registered", "replay", "on"}
    /\ client.pc = "replay" => \E p \in Pollers : poller[p].own
    /\ \A p, q \in Pollers : poller[p].own =>
         /\ poller[p].pc = "replay" /\ client.pc = "replay"
         /\ poller[p].since = client.cursor /\ (poller[q].own => q = p)

(* From a login on, a stored event the player was not shown is still on    *)
(* its way or was lost by a fault: in the list, with a poller, or after    *)
(* the cursor of a replay to come.  A frame forwarded before Hub.Register  *)
(* goes to nobody, and only the replay makes up for it.                    *)
NothingSlips ==
    /\ client.pc # "off" => 1..client.cursor \subseteq shown
    /\ \A e \in 1..stored :
        \/ e \in shown \cup lost \cup pushing \cup ToSet(list)
        \/ \E p \in Pollers : poller[p].event = e
        \/ client.pc = "off"
        \/ client.pc \in {"snapshot", "registered", "replay"} /\ e > client.cursor

(* The list and the pollers hold stored events, each at one place, and     *)
(* none slips past a player who is logged in.                              *)
FeedInv == TypeOK /\ PushedOnce /\ PollersFit /\ NothingSlips

(* At most one poller goes on popping: every other one has been cancelled  *)
(* and ends (EnsureRoomEventSubscription, pollRoomEvents).                 *)
CancelledPollersEnd ==
    \A p \in Pollers : (Cancelled(p) /\ poller[p].pc # "none") ~> (poller[p].pc = "none" \/ handle = p)

(* The pumps implement the feed: a player who came back is shown every     *)
(* stored event, in spite of replaced pollers, late pops and frames sent   *)
(* to the old connection, unless a fault of the named kinds took it.       *)
Feed == INSTANCE EventFeed WITH up <- registered /\ handle # None
ImplementsFeed == Feed!Spec
=============================================================================
