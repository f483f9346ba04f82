SPECIFICATION Spec
CONSTANTS
    Modulus <- MCModulus
    Name <- MCName
    Expr <- MCExpr
    Node <- MCNode
    Programs <- MCPrograms
INVARIANTS
    TypeOK
    NothingAfterTerminator
    OpenBlocksAreOwed
    OwedToOneHandler
    OnlyUnresolvedLabelsStayOpen
    BranchesStayInFunction
    RejectionIsExplained
\* The compiler stops once the program has been generated.
CHECK_DEADLOCK FALSE
