SPECIFICATION Spec

CONSTANTS
    Bot = bot
    Editors = {e1, e2}
    MaxWaiting = 1
    MaxCards = 2
    MaxStops = 1
    Faults = {"telegram", "enqueue", "db"}

INVARIANTS
    TypeOK
    OneCard
    CardTellsTheRow

PROPERTIES
    DraftAppears
