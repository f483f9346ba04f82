SPECIFICATION Spec
CONSTANTS
    Modulus <- MCModulus
    Name <- MCName
    Expr <- MCExpr
    Node <- SharedLabelNodes
    Programs <- SharedLabelPrograms
INVARIANTS
    BranchesStayInFunction
\* The compiler stops once the program has been generated.
CHECK_DEADLOCK FALSE
