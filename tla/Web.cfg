SPECIFICATION WebSpec
CONSTANTS
    Rows = {r1, r2}
    Values = {"on", "off"}
    Gone = Gone
    Findable = {"on"}
    Kinds = {"formula", "words"}
    Unloaded = Unloaded
    None = None
    MaxWrites = 2
    MaxReloads = 1
    Notes = {n1, n2}
    Anchors = {q1, q2}
    Missing = Missing
    ChunkMax = 1
    MaxRenders = 3
    Page <- MCPage
    Blanks <- MCBlanks
    Marked = {n1, n2}
    MaxStrokes = 3
    ContextLen = 2
    Probes <- MCProbes
    FuzzySlack = 2
    CandCap = 4
    MaxEditDist = 3
    MaxAsks = 2
    MaxTexts = 2
    MaxWire = 6
    Separator = 2
    Folders <- MCFolders
    Archives <- MCArchives
    Slugs = {"s"}
    Versions = {"v1", "v2"}
    Hidden = {".git"}
    Scripts = {"viz.js", "more.js"}
    BadWidgetNames = {"-"}
    Spelling <- MCSpelling
    MaxBytes = 4
    Unset = Unset
    MaxCommands = 3
    Width = 4
    MaxSource = 5
    MaxPositions = 3
    Languages = {"en", "vi"}
    Example <- MCExample
    Texts = {"en", "vi", "bad"}
    Usable = {"en", "vi"}
    Recorders = {"scene-07"}
    Settings = {"s1", "s2"}
    Runnable <- MCRunnable
    ChannelCodes = {"raw", "secded"}
    Noises = {"z1"}
    First <- MCFirst
    Fits <- MCFits
    Absent = Absent
    MaxActs = 5
    Chapters = {"a1", "b1"}
    CourseOf <- MCCourseOf
    Exercises = {0}
    Nothing = Nothing
    MaxVersions = 2
    MaxEvents = 3
    Learners = {l1, l2}
    List = List
    Nobody = Nobody
    MaxJobs = 2
    Prompts = {p1}
    Grants = {g1, g2}
    Unsendable = Unsendable
    LeaveAlone = LeaveAlone
    Unseeded = Unseeded
    MaxSteps = 3
    Wordings = {"a", "b"}
    Answers <- MCAnswers
    NoAnswer = NoAnswer
    Contents = {"t1", "t2", "t3"}
    Canon <- MCCanon
    Invalid = Invalid
    Unread = Unread
    MaxMoves = 3
    Messages <- MCMessages
    Alternating <- MCAlternating
    PageBits = 4
    TriplePage = 3
    DrawRange = 16
    Increment = 11
    Mixing <- MCMixing
    TypedDrafts <- MCDrafts
    Durations = {1, 2}
    Kept <- MCKept
    TicksPerUnit = 4
    Scale = 1000
    WeightMax = 2
    SourceSymbols <- MCSymbols
    FirstBook <- MCFirstBook
    CodeWords <- MCCodes
    MaxLetters = 3
    ReadingLimit = 2
    MorseExamples <- MCMorse
    Never = Never
    MaxTurns = 4
    Trials = 4
    Authored <- MCAuthored
    RuleMax = 30
    MaxUses = 4
    Years = {2025, 2026}
    ThisYear = 2026
    NoStats = NoStats
    MaxRequests = 4
    Courses = {"a", "b"}
    LastRead = {"none", "b"}
    Home = "home"
    Reading = "reading"
    NoList = NoList
    MaxVisits = 3
    Scenes = {"s1", "s2", "s3"}
    Off = Off
    SceneOrder <- MCOrder
    TopOf <- MCTop
    BottomOf <- MCBottom
    Middle = 1
    MaxScrolls = 2
    StorySlugs = {"h", "n", "typo"}
    Editions = {"h", "n"}
    OtherPage = "home"
    Tongues = {"vi", "en"}
    PageTongue = "vi"
    MaxTrips = 4
INVARIANTS
    QuietMirror
    TapNotOverwritten
    NoNoteAbandoned
    PaintedOnce
    ThreadIsTrue
    PackagesHold
    WorkHolds
    ReaderHolds
    FormsHold
    PagesHold
    HighlightsAreNotes
CHECK_DEADLOCK FALSE
