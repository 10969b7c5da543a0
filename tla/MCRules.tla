------------------------------- MODULE MCRules -------------------------------
(***************************************************************************)
(* The rules on small instances: one seat's hand as play changes it        *)
(* (HandTable), the points of one round (MCPoints), or the tiles of one    *)
(* opening (OpeningTiles).  A behaviour is one of the three; the others    *)
(* stand still.                                                            *)
(***************************************************************************)
EXTENDS HandTable, MCPoints, OpeningTiles

(* Honors and one knitted pattern, each tile once; one of them with a      *)
(* stranger among the tiles; the orphans, one of them twice; and honors    *)
(* alone.                                                                  *)
MCRareBoxes ==
    {[i \in p \cup Honors |-> 1] : p \in knittedPatterns}
    \cup {[i \in {0, 3, 6, 10, 13, 16, 20, 23, 26} \cup 27..31 \cup {1} |-> 1],
          [i \in Orphans |-> IF i = 8 THEN 2 ELSE 1],
          [i \in {27, 28, 31, 32} |-> 4]}

(* The first thirteen tiles of a box.                                      *)
MCDealt ==
    [b \in Boxes |->
        LET before(i) == MapThenSumSet(LAMBDA j : b[j], {j \in DOMAIN b : j < i})
        IN  [i \in Playable |-> IF i \notin DOMAIN b \/ before(i) >= 13 THEN 0 ELSE Least(b[i], 13 - before(i))]]

(* Requests that name a run, in order or not; two tiles; a run that        *)
(* crosses into the next suit; the same tile twice; a text that is none.   *)
MCNamed ==
    {[k \in 1..Len(n) |-> IF n[k] = -1 THEN 0 ELSE FromIndex(n[k])]
        : n \in {<<5, 6, 7>>, <<6, 7, 8>>, <<8, 6, 7>>, <<5, 6>>, <<7, 8, 9>>, <<6, 6, 7>>, <<5, 6, -1>>}}

OpeningTilesDealt ==
    << <<0, 0, 0, 3, 4, 5, 12, 13, 14, 6, 7, 8, 16>>, <<9, 9, 9, 8, 10, 15, 18, 20, 22, 24, 26, 17, 13>>,
       <<11, 11, 11, 19, 21, 23, 25, 15, 17, 12, 16, 24, 14>>, <<18, 19, 20, 21, 22, 23, 24, 25, 26, 5, 6, 7, 2>> >>

(* The hands of an opening; selections that are held, held but not in      *)
(* that number, not held by anybody, or no tiles of the game (a flower).   *)
MCOpeningHands == [s \in Places |-> HandOf(OpeningTilesDealt[s + 1])]

MCSent ==
    {[k \in 1..3 |-> FromIndex(t[k])]
        : t \in {<<5, 6, 7>>, <<18, 20, 22>>, <<24, 24, 26>>, <<1, 1, 1>>, <<5, 6, 34>>}}

NoOpening == racks = << >> /\ opening = << >> /\ quitters = {}

NoHand == box = << >> /\ closed = NoCounts /\ facts = << >> /\ drawn = FALSE

NoLedger ==
    /\ hands = << >> /\ meldFacts = << >> /\ ruleState = << >> /\ pond = NoCounts
    /\ events = << >> /\ gangs = << >> /\ wins = << >> /\ due = SeatInvalid /\ late = {}
    /\ gone = {} /\ wallEmpty = FALSE /\ result = NoResult

RulesInit ==
    \/ HandInit /\ NoLedger /\ NoOpening
    \/ LedgerInit /\ NoHand /\ NoOpening
    \/ OpeningInit /\ NoHand /\ NoLedger

RulesNext ==
    \/ HandNext /\ UNCHANGED << ledgerVars, openingVars >>
    \/ hands # << >> /\ LedgerNext /\ UNCHANGED << tableVars, openingVars >>
    \/ racks # << >> /\ OpeningNext /\ UNCHANGED << tableVars, ledgerVars >>

RulesSpec == RulesInit /\ [][RulesNext]_<< tableVars, ledgerVars, openingVars >>
=============================================================================
