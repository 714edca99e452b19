SPECIFICATION MCSpec
CONSTANTS
    MAX_ORDER = 3
    USIZE = 32
    Layouts <- MCLayouts
    MaxRefs = 2
    c1 = c1
    c2 = c2
    Sharers = {c1}
    Dropped = {1}
CHECK_DEADLOCK FALSE
INVARIANTS
    FreeExact
    
    ObjectsKept
    
    
    TablesExact
    NoStaleTranslation
    RangesChosen
