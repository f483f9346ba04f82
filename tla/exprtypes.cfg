SPECIFICATION Spec
CONSTANTS
    Vocabularies <- MCVocabularies
    MaxOperands = 4
INVARIANTS
    OperandsAgree
    
\* A statement ends the behaviour.
CHECK_DEADLOCK FALSE
