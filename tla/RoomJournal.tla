----------------------------- MODULE RoomJournal -----------------------------
(***************************************************************************)
(* What the room process promises about the events of a room, whatever     *)
(* requests, timeouts, failing stores and crashes happen: they are stored  *)
(* in a journal that only grows, in whole batches, and nobody is told of   *)
(* an event under a number the journal does not have for it.               *)
(***************************************************************************)
EXTENDS Integers, Sequences

VARIABLES
    journal,        \* the events, by number
    told            \* what was published or acknowledged

Entries == {[seq |-> i, event |-> journal[i]] : i \in DOMAIN journal}

Init == journal = <<>> /\ told = {}

Store ==
    /\ Len(journal') > Len(journal)
    /\ SubSeq(journal', 1, Len(journal)) = journal
    /\ UNCHANGED told

Tell ==
    /\ told \subseteq told' /\ told' \subseteq Entries
    /\ UNCHANGED journal

Spec == Init /\ [][Store \/ Tell]_<<journal, told>>
=============================================================================
