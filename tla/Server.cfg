\* Charge: seven-bit integers and prices per five tokens. Chat: two calls per
\* window of three ticks, and turns of four, which like the deployed ten minutes
\* and fifteen seconds against five minutes span more than one window; the clock
\* goes on long enough for turns that outstay them.
\* Discussion: a call takes one tick, a failure is kept two, an answer four.
CONSTANTS
    MaxInt = 63
    Per = 5
    Usages <- MCUsages
    Prices <- MCPrices
    Max = 2
    Window = 3
    TurnLife = 4
    Costs = {0, 2}
    MaxCost = 2
    MaxBalance = 1
    MaxTime = 6
    Packages = {"p1", "p2"}
    WidgetsOf <- MCWidgets
    Operators = {o1, o2}
    Readers = {r1}
    Admins = {}
    NoCourse = NoCourse
    NoText = NoText
    NoPage = NoPage
    Quiet = Quiet
    MaxVersions = 2
    MaxFlips = 1
    Learners = {"u", "v"}
    Batches <- MCBatches
    Texts = {"x"}
    Requests = {q1, q2}
    NoRow = NoRow
    NoRequest = NoRequest
    MaxServerTime = 3
    MaxRequests = 3
    Rateable = {c1, c2, c3}
    Stars = {1, 2}
    Voters = {v1, v2}
    MaxRatingsPerUser = 1
    NoVote = NoVote
    MaxRates = 4
    Events = {"e", "f"}
    EventBatches <- MCEventBatches
    Deliveries = {d1, d2}
    MaxSends = 3
    NoDelivery = NoDelivery
    Threads = {s, t}
    Visitors = {g1, g2}
    MaxOutboundPerWindow = 1
    OutboundWindow = 2
    SuccessTTL = 4
    FailureTTL = 2
    RequestTimeout = 1
    Never = Never
    NoVisit = NoVisit
    MaxClock = 5
SPECIFICATION ServerSpec
INVARIANTS
    NeverUndercharged
    RefusedOnlyWhenTooLarge
    WindowBound
    OverdraftBounded
    LiveIsArchived
    NotModifiedIsWhole
PROPERTIES
    RefusalsJustified
    LastWriterWins
    CountsHold
    DiscussionHolds
CHECK_DEADLOCK FALSE
