SPECIFICATION Spec
CONSTANTS
    Users = {u1, u2}
    Templates = {t1, t2}
    Operations = {o1, o2}
    Prices = {0, 1}
    Cost = 1
    Delta = 1
    StartBalance = 2
    Requests = {r1, r2}
    MaxRequests = 3
    MaxDeployments = 1
    MaxDeletions = 1
    None = None
SYMMETRY Symmetry
CHECK_DEADLOCK FALSE
INVARIANTS
    TemplatesArePaid
    CountsAreFirstAcquisitions
    SlotsArePaid
