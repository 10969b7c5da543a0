CONSTANTS
    Deals <- MCDeals
    Drawn = {0, 2, 9}
    MaxChanges = 1
    MaxGone = 1
SPECIFICATION LedgerSpec
INVARIANT SettlementZeroSum
CHECK_DEADLOCK FALSE
