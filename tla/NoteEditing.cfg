SPECIFICATION NoteSpec
CONSTANTS
    Rows = {n1}
    Values = {blank, words}
    Gone = Gone
    Unloaded = Unloaded
    None = None
    MaxWrites = 2
    MaxReloads = 1
CHECK_DEADLOCK FALSE
INVARIANT TypedTextNotLost
