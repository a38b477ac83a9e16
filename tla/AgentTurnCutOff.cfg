\* The bounds of Endings.cfg.
CONSTANTS
    MaxRounds = 3
    MaxSearches = 2
    MaxChunks = 2
SPECIFICATION TurnSpec
INVARIANTS CutOffTurnBilled
CHECK_DEADLOCK FALSE
