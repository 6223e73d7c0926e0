SPECIFICATION Spec
CONSTANTS
    Starts <- MCStarts
    MaxWalk = 750
INVARIANTS
    TypeOK
    CalendarAgrees
    JumpLands
    SpansCount
    TimesReadBack
