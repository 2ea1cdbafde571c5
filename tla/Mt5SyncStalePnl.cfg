SPECIFICATION Spec
CONSTANTS
    p1 = p1
    d1 = d1
    d2 = d2
    NoDeal = NoDeal
    NoTrade = NoTrade
    NoPosition = NoPosition
    Nobody = 0
    Positions = {p1}
    Deals = {d1, d2}
    PosOf <- ClosingP1
    Sessions = {1, 2}
    MaxFaults = 0
INVARIANTS
    PnlMatchesLedger
