SPECIFICATION MCSpec
CONSTANTS
    Vectors <- MCVectors
    Levels <- MCLevels
    HandlerLevels = {}
    MaxGuards = 3
    HvVectors <- MCHvVectors
    HvLevels <- MCHvLevels
INVARIANTS
    GuardsRespected
    CountsAndTpr
    NoMissedEvent
PROPERTIES
    Delivery
