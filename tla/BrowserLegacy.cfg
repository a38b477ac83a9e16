SPECIFICATION Spec
CONSTANTS
    Tabs = {t1, t2}
    Users = {ann, ben}
    Nobody = Nobody
    Unknown = Unknown
    Works = {"legacy"}
    Workers = {t1}
    LegacyOwner = ann
    Batches = 2
    MaxTurns = 2
    MaxFlights = 1
    MaxNews = 3
CHECK_DEADLOCK FALSE
INVARIANT LegacyStaysWithOwner
