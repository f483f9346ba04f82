SPECIFICATION FairSpec
CONSTANTS
    Vocabularies <- MCVocabularies
    MaxTokens <- MCMaxTokens
INVARIANTS
    ClausesAreNearest
    Precedence
    ModifyReadsAsWritten
    AcceptedIsProgram
    RejectedIsNoProgram
PROPERTIES
    Termination
\* The parser stops.
CHECK_DEADLOCK FALSE
