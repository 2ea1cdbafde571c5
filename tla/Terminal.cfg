SPECIFICATION Spec
CONSTANTS
    Users = {u1, u2}
    NoUser = nobody
    Calls = {c1, c2, c3}
    MaxPairs = 2
    Subjects = {s1, s2}
    NoSubject = nothing
    MaxLoads = 4
    MaxCommands = 3
    MaxSyncs = 1
    MaxPolls = 1
    PolicyAccounts = {a1, a2}
    Limits = {l1, l2}
    NoPayout = noPayout
    Payout = payout
    MaxSaves = 4
    LastTrade = 4
    PageSize = 2
    MaxVersions = 3
    MaxChanges = 1
    MaxPresses = 2
    MaxEdits = 1
    LabTrades = {t1, t2}
    NoTrade = noTrade
    MaxMounts = 3
    MaxReplays = 2
    Samples = {4, 10, 150}
    MaxRaw = 3
    Tabs = {b1, b2}
    Threads = {h1, h2}
    NoTab = noTab
    NoThread = noThread
    NoPayload = noPayload
    TTL = 1
    MaxTime = 2
    ReportAccounts = {ra1, ra2}
    Periods = {q1, q2}
    NoReport = noReport
    MaxReports = 4
    AttentionLimit = 2
    SignalLimit = 2
INVARIANTS
    TerminalTypeOK
    CallAppliedOnce
    SettledViewIsAboutSelection
    RevokedStaysRevoked
    ShownCodeWorks
    CandidateFormAgrees
    SavedFormIsStored
    DrawerListsMatches
    ChipsTellTheFilter
    OpenFormHasJournaledNothing
    OneChartWithItsOverlay
    SignalsAreHonest
    CandidateGateIsMonotone
    RefreshLockIsAtWork
    InterpretationIsOfReport
PROPERTIES
    SessionEndsForAReason
    PricesMoveForward
SYMMETRY Symmetry
CHECK_DEADLOCK FALSE
