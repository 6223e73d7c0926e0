SPECIFICATION Spec
CONSTANTS
    Starts <- MCStarts
    MaxWalk = 750
INVARIANT SpansAsDocumented
