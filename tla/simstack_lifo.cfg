SPECIFICATION Spec
CONSTANTS
    Size = 3
    Value = {0, 1, 2}
    MaxPending = 3
    Disciplined = TRUE
INVARIANTS
    LoadedWordIsCurrent
    SlotsAreSeparate
    R6Synchronised
PROPERTY IsLifo
