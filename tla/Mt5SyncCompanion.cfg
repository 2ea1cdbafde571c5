SPECIFICATION FairSpec
CONSTANTS
    p1 = p1
    p2 = p2
    d1 = d1
    d2 = d2
    d3 = d3
    NoDeal = NoDeal
    NoTrade = NoTrade
    NoPosition = NoPosition
    Positions <- TwoPositions
    Deals <- ThreeDeals
    PosOf <- ClosingBoth
    NewestFirst = FALSE
    Gap = FALSE
    HistoryExpires = FALSE
    Faults = FALSE
    MaxLate = 0
    MaxTokens = 2
    MaxEdits = 0
INVARIANTS
    ClosingDealClosesTrade
    ExitIsLastDeal
PROPERTIES
    CloseIsRecorded
