\* The second reminder is written behind an open line.
SPECIFICATION Spec
CONSTANTS
    x = x
    y = y
    Ids <- TwoIds
    Settings <- OneSetting
    Strays <- Either
    Books <- AlertsOnly
    MaxLines = 18
INVARIANTS
    RemindersListed
