CONSTANTS
    Kinds = {5, 6, 7, 8, 9}
    RareBoxes <- MCRareBoxes
    Dealt <- MCDealt
    Named <- MCNamed
    MaxMelds = 1
    Deals <- MCDeals
    Drawn = {0, 2, 9}
    MaxChanges = 1
    MaxGone = 1
    OpeningHands <- MCOpeningHands
    Sent <- MCSent
SPECIFICATION RulesSpec
INVARIANTS
    HandKept
    HandsRead
    AdviceSound
    FansAccounted
    
    ExchangeConserves
\* A settled round is the end of its ledger.
CHECK_DEADLOCK FALSE
