SPECIFICATION LoopSpec
CONSTANTS
    MinInt <- MCMin
    MaxInt <- MCMax
INVARIANTS
    CounterStaysInBounds
    VisitsTheProgression
PROPERTY OrdinaryLoopsEnd
\* A loop may end.
CHECK_DEADLOCK FALSE
