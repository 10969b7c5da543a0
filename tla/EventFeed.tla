------------------------------ MODULE EventFeed ------------------------------
(***************************************************************************)
(* What a player who came back to a table is promised: the view starts     *)
(* with a prefix of the room's events, only stored events are shown, and   *)
(* while the feed is up every stored event that was not lost on the way is *)
(* shown in the end.                                                       *)
(***************************************************************************)
EXTENDS Integers

CONSTANT MaxEvents

VARIABLES
    stored,         \* number of events the room has stored
    shown,          \* events the player's client has seen
    lost,           \* events a fault took out of the feed
    up              \* the client is registered and its gate polls the room

feed == <<stored, shown, lost, up>>

Init == stored = 0 /\ shown = {} /\ lost = {} /\ up = FALSE

Store == stored' = stored + 1 /\ UNCHANGED <<shown, lost, up>>

Connect ==
    /\ \E k \in 0..stored : shown' = 1..k
    /\ up' = FALSE /\ UNCHANGED <<stored, lost>>

(* Event e is shown, with others when stored events are replayed.          *)
Show(e) ==
    /\ e \in 1..stored
    /\ \E more \in SUBSET (1..stored) : shown' = shown \cup {e} \cup more
    /\ UNCHANGED <<stored, lost, up>>

Lose ==
    /\ lost \subseteq lost' /\ lost' \subseteq 1..stored
    /\ UNCHANGED <<stored, shown, up>>

Switch == up' = ~up /\ UNCHANGED <<stored, shown, lost>>

Next == Store \/ Connect \/ (\E e \in 1..stored : Show(e)) \/ Lose \/ Switch

Safety == Init /\ [][Next]_feed

Spec ==
    /\ Safety
    /\ \A e \in 1..MaxEvents : WF_feed(up /\ e \notin shown \cup lost /\ Show(e))
=============================================================================
