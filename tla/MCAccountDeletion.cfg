SPECIFICATION DeletionSpec
CONSTANTS
    account = account
    guest = guest
    other = other
    apple1 = apple1
    apple2 = apple2
    tokenG = tokenG
    token1 = token1
    Users <- MCUsers
    Subjects <- MCSubjects
    Sessions <- MCSessions
    Registered <- MCRegistered
    Guests <- MCGuests
    Held <- MCHeld
    Names = {n1, n2}
    Txns = {pay1}
    Amount = 1
    SlotCost = 1
    Requests = {r1, r2}
    None = None
    MaxRequests = 3
    MaxDeletions = 1
SYMMETRY Symmetry
CHECK_DEADLOCK FALSE
INVARIANTS
    IdentitiesAndNamesAreOneUsers
    PaymentsReachOneOwner
    TakenOverBeforeRevoked
    DeletedIsForgotten
