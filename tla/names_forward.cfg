SPECIFICATION Spec
CONSTANTS
    Name <- MCName
    Programs <- MCPrograms
INVARIANTS
    ForwardCanBeDefined
\* The compiler stops.
CHECK_DEADLOCK FALSE
