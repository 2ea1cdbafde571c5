SPECIFICATION Spec
CONSTANTS
    p1 = p1
    p2 = p2
    d1 = d1
    d2 = d2
    d3 = d3
    NoDeal = NoDeal
    NoTrade = NoTrade
    NoPosition = NoPosition
    Positions <- TwoPositions
    Deals <- OneDealEach
    PosOf <- ClosingEach
    NewestFirst = TRUE
    Gap = FALSE
    HistoryExpires = FALSE
    Faults = FALSE
    MaxLate = 0
    MaxTokens = 1
    MaxEdits = 1
INVARIANTS
    PnlOfOwnPosition
