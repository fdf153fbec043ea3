SPECIFICATION Spec
CONSTANTS
    Users = {u1, u2}
    Tokens = {t1}
    Jobs = {j1, j2}
    Edits = {e1}
    WeekLength = 2
    MaxDay = 2
    MaxJobs = 2
    MaxEdits = 1
    MaxRegistrations = 1
    None = None
SYMMETRY Symmetry
CHECK_DEADLOCK FALSE
INVARIANTS
    ToldOnce
    DeliveriesAreDue
