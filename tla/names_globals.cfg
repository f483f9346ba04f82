SPECIFICATION Spec
CONSTANTS
    Name <- MCName
    Programs <- MCPrograms
INVARIANTS
    GlobalsAreVisible
\* The compiler stops.
CHECK_DEADLOCK FALSE
