SPECIFICATION Spec
CONSTANTS
    Name <- MCName
    Programs <- MCPrograms
INVARIANTS
    SemaIsLexical
    PassesAgree
    NothingUndefinedLate
    ReturnsFitTheirFunction
    CallsFit
\* The compiler stops.
CHECK_DEADLOCK FALSE
