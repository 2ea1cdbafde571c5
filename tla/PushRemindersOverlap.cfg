SPECIFICATION Spec
CONSTANTS
    u1 = u1
    u2 = u2
    e1 = e1
    e2 = e2
    r1 = r1
    r2 = r2
    Users = {u1, u2}
    Endpoints = {e1, e2}
    Runs = {r1, r2}
    MaxDay = 1
    MaxRows = 2
SYMMETRY Symmetry
INVARIANTS
    AtMostOnePushPerDay
