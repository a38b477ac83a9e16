\* One round is enough for a learner who stops reading.
CONSTANTS
    MaxRounds = 1
    MaxSearches = 1
    MaxChunks = 2
SPECIFICATION TurnServerSpec
PROPERTIES TurnEndsByDeadline
CHECK_DEADLOCK FALSE
