SPECIFICATION SettingsSpec
CONSTANTS
    Prompts = {p1}
    Grants = {g1, g2}
    Unsendable = Unsendable
    LeaveAlone = LeaveAlone
    Unseeded = Unseeded
    MaxSteps = 3
INVARIANT GrantSentOnlyIfTouched
CHECK_DEADLOCK FALSE
