\* A turn of three rounds, so that a round may fail after others succeeded and
\* a last round exists beside two that may run tools; two searches at most; two
\* chunks a round, so that a text and a tool call, or two calls, come together.
\* Two tabs whose accounts change twice, with nothing else to do.
CONSTANTS
    MaxRounds = 3
    MaxSearches = 2
    MaxChunks = 2
    t1 = t1
    t2 = t2
    Tabs = {t1, t2}
    Users = {ann, ben}
    Nobody = Nobody
    Unknown = Unknown
    Works = {"none"}
    Workers = {}
    LegacyOwner = ann
    Batches = 2
    MaxTurns = 2
    MaxFlights = 1
    MaxNews = 2
SPECIFICATION EndingsSpec
INVARIANTS ReportedUsageCharged SurchargeOnlyForServed SearchBudgetHolds ToldOnce
PROPERTIES SearchIsRead EveryTurnEnds EveryTabReturns
CHECK_DEADLOCK FALSE
