SPECIFICATION Spec
CONSTANTS
    u1 = u1
    u2 = u2
    e1 = e1
    e2 = e2
    r1 = r1
    r2 = r2
    Users = {u1, u2}
    Endpoints = {e1}
    Runs = {r1, r2}
    MaxDay = 2
    MaxRows = 2
SYMMETRY Symmetry
INVARIANTS
    RecordedReminderWasSent
    OnePushUnlessDisturbed
    RemindersAreSound
