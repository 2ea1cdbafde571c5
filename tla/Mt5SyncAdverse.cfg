SPECIFICATION Spec
CONSTANTS
    p1 = p1
    p2 = p2
    d1 = d1
    d2 = d2
    d3 = d3
    NoDeal = NoDeal
    NoTrade = NoTrade
    NoPosition = NoPosition
    Positions <- OnePosition
    Deals <- TwoDeals
    PosOf <- ClosingP1
    NewestFirst = TRUE
    Gap = FALSE
    HistoryExpires = TRUE
    Faults = TRUE
    MaxLate = 1
    MaxTokens = 2
    MaxEdits = 1
SYMMETRY SwapDeals
INVARIANTS
    LedgerIsBacked
    EvidenceIsProcessed
    ProcessedOnce
    NoDealCountedTwice
    IngestionIsSound
PROPERTIES
    ClosedOnlyByNewDeal
    BalanceLagsOnlyAfterEdit
    EvidenceIsAppendOnly
    ImplementsJournal
