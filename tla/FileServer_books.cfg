\* Alarms and reminders, each with every interleaving of commands and power
\* cuts; the uninitialised counter may hold 3.
SPECIFICATION Spec
CONSTANTS
    x = x
    y = y
    Ids <- ThreeIds
    Settings <- TwoSettings
    Strays <- Either
    Books <- OneFile
    MaxLines = 18
SYMMETRY SettingsAreAlike
INVARIANTS
    TypeOK
    AlarmAligned
PROPERTIES
    AlarmsKept
    AlertsKept
