---------------------------- MODULE OpeningTiles ----------------------------
(***************************************************************************)
(* The opening of a Sichuan round, tile by tile (xuezhandaodi/opening.go   *)
(* and state.go): three tiles given away, then a missing suit declared.    *)
(* RoundEngine has the same steps with numbers of tiles; here a selection  *)
(* is checked against the hand when it is sent and taken out of it only    *)
(* when the last seat has sent its own.                                    *)
(***************************************************************************)
EXTENDS WinForms, Sequences

CONSTANTS
    OpeningHands,   \* the hands as dealt: counts by seat
    Sent            \* selections players send: sequences of tiles, held or not

VARIABLES
    racks,          \* counts of each seat's tiles
    opening,        \* the rule state of the opening
    quitters        \* seats a timeout has surrendered

openingVars == << racks, opening, quitters >>

Places == 0..3
Unset == -1

ASSUME OpeningAssumption ==
    /\ OpeningHands \in [Places -> [Playable -> 0..4]]
    /\ \A s \in Places : Total(OpeningHands[s]) = 13

(* initialRuleState *)
initialRuleState ==
    [Submitted    |-> [exchange |-> {}, missing |-> {}],
     Selections   |-> [s \in Places |-> << >>],
     Direction    |-> Unset,
     MissingSuits |-> [s \in Places |-> 0]]

OpeningInit == racks = OpeningHands /\ opening = initialRuleState /\ quitters = {}

allSubmitted(done) == done = Places

(* CurrentStep *)
CurrentStep ==
    IF ~allSubmitted(opening.Submitted.exchange) THEN "exchange"
    ELSE IF ~allSubmitted(opening.Submitted.missing) THEN "missing" ELSE "none"

normalizeOpeningExchangeDirection(dir) == IF dir \in 1..3 THEN dir ELSE 3

-----------------------------------------------------------------------------
(* Every tile looked for in the whole hand.                                *)
SelectionUncounted(hand, raws) ==
    IF Len(raws) = 3 /\ \A k \in 1..3 : Index(raws[k]) \in Playable /\ hand[Index(raws[k])] > 0
    THEN raws ELSE << >>

(* Three tiles can be taken out of the hand one after the other.           *)
Takes(hand, raws) ==
    /\ Len(raws) = 3
    /\ \A k \in 1..3 : LET i == Index(raws[k]) IN i \in Playable /\ HandCounts(raws)[i] <= hand[i]

(* normalizeOpeningExchangeSelection: << >> is an error.                   *)
normalizeOpeningExchangeSelection(hand, raws) == IF Takes(hand, raws) THEN raws ELSE << >>

(* Hand.Remove takes a tile if it is there; the error is not looked at.    *)
RemoveAll(hand, tiles) ==
    LET n == HandCounts(tiles)
    IN  [i \in Playable |-> IF hand[i] > n[i] THEN hand[i] - n[i] ELSE 0]

(* openingExchangeThreeWithSelections *)
openingExchangeThreeWithSelections(selections, dir) ==
    [s \in Places |->
        LET left == RemoveAll(racks[s], selections[s])
            received == HandCounts(selections[(s + dir) % 4])
        IN  [i \in Playable |-> left[i] + received[i]]]

(* applyExchange *)
applyExchange(s, selection, dir) ==
    LET d == IF opening.Direction = Unset THEN normalizeOpeningExchangeDirection(dir) ELSE opening.Direction
        selections == [opening.Selections EXCEPT ![s] = selection]
        done == opening.Submitted.exchange \cup {s}
    IN  /\ CurrentStep = "exchange" /\ s \notin opening.Submitted.exchange
        /\ opening' = [opening EXCEPT
                         !.Submitted.exchange = done, !.Direction = d,
                         !.Selections = IF allSubmitted(done) THEN initialRuleState.Selections ELSE selections]
        /\ racks' = IF allSubmitted(done) THEN openingExchangeThreeWithSelections(selections, d) ELSE racks

RackSuit(hand, suit) == Total([i \in 9 * suit .. 9 * suit + 8 |-> hand[i]])

(* chooseMissingSuit: the suit held least of, the first of equal ones.     *)
chooseMissingSuit(hand) ==
    Min({t \in SuitedSuits : \A o \in SuitedSuits : RackSuit(hand, t) <= RackSuit(hand, o)})

(* applyMissingSuit *)
applyMissingSuit(s, suit) ==
    /\ CurrentStep = "missing" /\ s \notin opening.Submitted.missing
    /\ opening' = [opening EXCEPT !.Submitted.missing = @ \cup {s}, !.MissingSuits[s] = suit]
    /\ UNCHANGED racks

(* openingPolicy.Apply for a player: the selection is checked, a suit that *)
(* is none is chosen for the player.                                       *)
Apply(s) ==
    /\ \/ \E raws \in Sent, dir \in 0..2 :
             LET selection == normalizeOpeningExchangeSelection(racks[s], raws)
             IN  selection # << >> /\ applyExchange(s, selection, dir)
       \/ \E suit \in {2, 3} :
             applyMissingSuit(s, IF suit \in SuitedSuits THEN suit ELSE chooseMissingSuit(racks[s]))
    /\ UNCHANGED quitters

(* surrenderOpeningSeat: the first seat that owes something gives nothing, *)
(* or declares nothing.                                                    *)
surrenderOpeningSeat(s) ==
    LET owing == Places \ ((IF CurrentStep = "exchange" THEN opening.Submitted.exchange
                            ELSE opening.Submitted.missing) \cup quitters)
    IN  /\ s \in owing /\ \A o \in owing : s <= o
        /\ applyExchange(s, << >>, 0) \/ applyMissingSuit(s, Unset)
        /\ quitters' = quitters \cup {s}

OpeningNext == \E s \in Places : Apply(s) \/ surrenderOpeningSeat(s)

OpeningSpec == OpeningInit /\ [][OpeningNext]_openingVars

-----------------------------------------------------------------------------
(* opening.go: the opening loses and invents no tile.  A selection is      *)
(* still in the hand when it is taken out, whatever was sent meanwhile, so *)
(* the four hands together are the hands dealt, and a hand changes its     *)
(* length only beside a seat that was surrendered before it gave.          *)
ExchangeConserves ==
    racks # << >> =>
    /\ \A i \in Playable : Total([s \in Places |-> racks[s][i]]) = Total([s \in Places |-> OpeningHands[s][i]])
    /\ quitters = {} => \A s \in Places : Total(racks[s]) = 13
=============================================================================
