SPECIFICATION FairSpec
CONSTANTS
    Sources <- MCSources
    LongWidth = 6
    IntWidth = 8
INVARIANTS
    PeekLosesNothing
    PlacesAreTrue
    NothingIsDropped
    LongestMatch
    LiteralsAreRight
PROPERTIES
    Termination
\* The lexer stops at the end of the text.
CHECK_DEADLOCK FALSE
