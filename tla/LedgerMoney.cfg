\* Turns, adjustments and a registration against changing prices; registrations
\* of one address, and edits, against a changing signup grant.
CONSTANTS
    ann = ann
    bob = bob
    t1 = t1
    t2 = t2
    r1 = r1
    r2 = r2
    a1 = a1
    a2 = a2
    e1 = e1
    e2 = e2
    Users = {ann, bob}
    Turns = {t1, t2}
    Registrations = {r1, r2}
    Adjustments = {a1, a2}
    Edits = {e1, e2}
    UserOf <- MCUserOf
    Existing = {ann}
    Usages = {0, 2}
    Rates = {1, 2}
    Grants = {1, 3}
    Deltas <- MCDeltas
    MaxCharge = 3
    MaxCrashes = 1
    NoRequest = NoRequest
SPECIFICATION LedgerSpec
INVARIANTS
    BalanceExplained
    NoOrphanAccount
    NoLostUpdate
    MintTraceable
PROPERTIES
    ImplementsAccountBook
    TurnSettles
    RowsReleased
CHECK_DEADLOCK FALSE
