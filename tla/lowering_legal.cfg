SPECIFICATION LoweringSpec
CONSTANTS
    Modulus <- MCModulus
    Name <- MCName
    Expr <- MCExpr
    Node <- LegalNodes
    Programs <- LegalPrograms
INVARIANT LegalProgramsCompile
PROPERTY RefinesSource
\* The program may end.
CHECK_DEADLOCK FALSE
