------------------------------- MODULE Parser -------------------------------
(***************************************************************************)
(* The recursive-descent parser, src/src/parser/pl11_parser.cpp.           *)
(*                                                                         *)
(* Each parse function is the sequence of what it does: expect a token,    *)
(* match an optional one, loop while the current token is in a set, call   *)
(* another function, make a node.  The C++ call stack is the sequence todo *)
(* of what is still to be done, innermost first.  The choice between       *)
(* alternatives is made on the current token alone, when a function is     *)
(* entered.                                                                *)
(*                                                                         *)
(* A token is its kind: "x" is an identifier, "n", "r", "s", "b" and "a"   *)
(* are integer, real, string, bit and address literals, "R" is a register. *)
(* The input is chosen as it is read.  A node is the part of the input it  *)
(* spans: which is the child of which is known from the spans.             *)
(***************************************************************************)
EXTENDS SequencesExt, Integers

CONSTANTS Vocabularies,   \* sets of tokens: an input uses the tokens of one
          MaxTokens       \* for each of them, a bound on the length of the input

VARIABLES vocab,    \* the vocabulary of the input
          toks,     \* the tokens read so far; the last one is cur_
          todo,     \* what the active parse functions have still to do
          made,     \* the nodes made so far; the last one was just returned
          status    \* "parsing", "accepted" or "rejected" (ParseError)

vars == <<vocab, toks, todo, made, status>>

Pos == Len(toks)
Cur == toks[Pos]

-----------------------------------------------------------------------------
(***************************************************************************)
(* Classes of tokens.  INTEGER and FLOAT are read as WORD and REAL.        *)
(***************************************************************************)
RelOp == {"=", "/=", "<", ">", "<=", ">="}
AddOp == {"+", "-", "OR", "XOR"}
MulOp == {"*", "/", "MOD", "AND", "SHL", "SHR", "SHRA"}
ArithmeticOp == AddOp \cup MulOp

TypeKeyword == {"BYTE", "WORD", "LONG", "REAL", "CHARACTER", "BIT"}
Literals    == {"n", "r", "s", "b", "a"}
Registers   == {"R", "SP", "PC"}

KeywordStart == {"BEGIN", "IF", "WHILE", "FOR", "DO", "REPEAT", "CASE", "CALL",
                 "RETURN", "GOTO", "ASM", "PRINT", "PUSH", "POP"}
ExprStart    == {"x", "R"} \cup Literals \cup {"-", "NOT", "(", "REF", "IND"}
StatementStart == KeywordStart \cup ExprStart
DeclStart    == TypeKeyword \cup {"PROCEDURE", "CONSTANT"}

Tokens == RelOp \cup ArithmeticOp \cup Registers \cup StatementStart \cup DeclStart
          \cup {"END", "THEN", "ELSE", "UNTIL", "FROM", "STEP", "TO", "DOWNTO", "OF",
                "ARRAY", "FORWARD", "IN", "OUT", "=>", "^", ")", ";", ",", ":"}

-----------------------------------------------------------------------------
(***************************************************************************)
(* What a parse function is made of.  A function that has read a part of   *)
(* what it makes is called with the token it began at.                     *)
(***************************************************************************)
CallFrom(f, i)      == [do |-> "call", fn |-> f, from |-> i]
Call(f)             == CallFrom(f, 0)
ExpectAny(ts)       == [do |-> "expect", of |-> ts]
Expect(t)           == ExpectAny({t})
Match(t, rest)      == [do |-> "match", of |-> {t}, body |-> rest]
Loop(ts, rest)      == [do |-> "loop", of |-> ts, body |-> rest]
Operators(ts, f, i) == [do |-> "operators", of |-> ts, fn |-> f, from |-> i]

(* A node begins at token i; at is where the operator, ELSE or UNTIL is    *)
(* that belongs to it, 0 if it has none; left is its left operand.         *)
NodeFrom(k, i)      == [do |-> "node", kind |-> k, from |-> i, at |-> 0, left |-> ""]
Node(k)             == NodeFrom(k, Pos)

Throw    == <<ExpectAny({})>>
Nothing  == <<>>
Expr     == Call("Rel")
Stmt     == Call("Statement")
SkipSemi == Match(";", Nothing)
CommaSeparated(item) == <<item, Loop({","}, <<Expect(","), item>>)>>
InParens(list)       == <<Expect("(")>> \o list \o <<Expect(")")>>
ArgList              == CommaSeparated(Expr)

-----------------------------------------------------------------------------
(***************************************************************************)
(* Declarations.                                                           *)
(***************************************************************************)
ParseBlock ==
    <<Expect("BEGIN"),
      Loop(DeclStart, <<Call("DeclarationGroup"), SkipSemi>>),
      Loop(StatementStart, <<Stmt, SkipSemi>>),
      Expect("END"), Node("Block")>>

ParseDeclarationGroup ==
    IF Cur \in {"CONSTANT", "PROCEDURE"} THEN <<Call(Cur)>>
    ELSE <<Call("TypeSpec"), Call("Typed")>>

ParseTyped == IF Cur = "PROCEDURE" THEN <<Call(Cur)>> ELSE <<Call("VarDeclGroup")>>

ParseVarDeclGroup ==
    IF Cur = "n"
    THEN CommaSeparated(Expect("n")) \o <<Expect("ARRAY")>> \o CommaSeparated(Call("ArrayName"))
    ELSE CommaSeparated(Call("Declarator"))

ParseArrayName  == <<Expect("x"), Node("Var")>>
ParseDeclarator ==
    <<Expect("x"), Match("(", CommaSeparated(Call("Dimension")) \o <<Expect(")")>>),
      Node("Var")>>

(* The expression is parsed, then it must turn out to be a literal.        *)
ParseDimension == <<Expr, Call("IntLiteral")>>
RequireIntLiteral == IF Last(made).kind = "n" THEN Nothing ELSE Throw

ParseConstDecl ==
    <<Expect("CONSTANT"), Call("TypeSpec"), Expect("x"), Expect("="),
      Call("Primary"), Node("Const")>>

ParseProcDecl == <<Expect("PROCEDURE"), CallFrom("ProcRest", Pos)>>

ParseProcRest(from) ==
    IF Cur = "FORWARD" THEN <<Expect("FORWARD"), Expect("x"), NodeFrom("Proc", from)>>
    ELSE <<Expect("x"),
           Match("(", <<Call("Param"),
                        Loop({";", ","}, <<ExpectAny({";", ","}), Call("Param")>>),
                        Expect(")")>>),
           Expect(";"), Call("BEGIN"), NodeFrom("Proc", from)>>

ParseParamDecl == <<Call("ParamMode"), Call("TypeSpec"), Expect("x")>>
ParseParamMode ==
    CASE Cur = "IN"  -> <<Expect("IN"), Match("OUT", Nothing)>>
      [] Cur = "OUT" -> <<Expect("OUT")>>
      [] OTHER       -> Nothing

ParseTypeSpec ==
    IF Cur \in {"BYTE", "LONG"} THEN <<Expect(Cur)>>
    ELSE <<ExpectAny(TypeKeyword), Match("*", <<Expect("n")>>)>>

-----------------------------------------------------------------------------
(***************************************************************************)
(* Statements.                                                             *)
(***************************************************************************)
(* Variant: what is no statement is taken for an empty one.                *)
ParseStatementOrNothing ==
    IF Cur \in KeywordStart THEN <<Call(Cur)>>
    ELSE IF Cur \in ExprStart THEN <<Call("ExprStmt")>>
    ELSE Nothing

ParseStatement == IF Cur \in KeywordStart THEN <<Call(Cur)>>
                  ELSE IF Cur \in ExprStart THEN <<Call("ExprStmt")>>
                  ELSE Throw

UntilClause == Match("UNTIL", <<Expr>>)

ParseIfStmt    == <<Expect("IF"), Expr, Expect("THEN"), Stmt,
                    Match("ELSE", <<Stmt>>), Node("If")>>

ParseWhileStmt == <<Expect("WHILE"), Expr, Expect("DO"), Stmt, UntilClause,
                    Node("While")>>
(* Variant: STEP only after FROM.                                          *)
ParseForStmtStepAfterFrom ==
    <<Expect("FOR"), Expect("x"), Match("FROM", <<Expr, Match("STEP", <<Expr>>)>>),
      ExpectAny({"DOWNTO", "TO"}), Expr, Expect("DO"), Stmt, UntilClause, Node("For")>>

ParseForStmt   == <<Expect("FOR"), Expect("x"), Match("FROM", <<Expr>>),
                    Match("STEP", <<Expr>>), ExpectAny({"DOWNTO", "TO"}), Expr,
                    Expect("DO"), Stmt, UntilClause, Node("For")>>
(* Variant: only DO ; may have an UNTIL.                                   *)
ParseDoStmtEarlyReturn ==
    <<Expect("DO"), Match(";", <<UntilClause>>), Call("DoBody"), Node("Do")>>

ParseDoStmt    == <<Expect("DO"), Call("DoBody"), UntilClause, Node("Do")>>
ParseDoBody    == IF Cur = ";" THEN <<Expect(";")>>
                  ELSE IF Cur \in StatementStart THEN <<Stmt>>
                  ELSE Nothing
ParseRepeatStmt ==
    <<Expect("REPEAT"), Loop(Tokens \ {"UNTIL"}, <<Stmt, SkipSemi>>),
      Expect("UNTIL"), Expr, Node("Repeat")>>
ParseCaseStmt ==
    <<Expect("CASE"), Expr, Expect("OF"),
      Loop(Tokens \ {"END"}, <<Expect("n"), Expect(":"), Stmt, SkipSemi>>),
      Expect("END"), Node("Case")>>

(* Variant: CALL p() is taken, as f() is.                                  *)
ParseCallStmtEmptyList ==
    <<Expect("CALL"), Expect("x"), Match("(", <<Call("Arguments"), Expect(")")>>),
      Node("CallStmt")>>

ParseCallStmt   == <<Expect("CALL"), Expect("x"), Match("(", ArgList \o <<Expect(")")>>),
                     Node("CallStmt")>>
ParseReturnStmt == <<Expect("RETURN"), Match("(", <<Expr, Expect(")")>>), Node("Return")>>
ParseGotoStmt   == <<Expect("GOTO"), Expect("x"), Node("Goto")>>
ParseAsmStmt    == <<Expect("ASM")>> \o InParens(<<Expect("s")>>) \o <<Node("Asm")>>
ParsePrintStmt  ==
    <<Expect("PRINT")>> \o InParens(<<Expect("s"), Loop({","}, <<Expect(","), Expr>>)>>)
                        \o <<Node("Print")>>
ParsePushStmt   == <<Expect("PUSH"), Expr, Node("Push")>>
ParsePopStmt    == <<Expect("POP"), Call("LValue"), Node("Pop")>>

(***************************************************************************)
(* A statement that begins like an expression.  An identifier is read      *)
(* first, for it may be a label; if it is not, the loops of the expression *)
(* functions are gone through here once more, around that identifier.      *)
(***************************************************************************)
ParseExprStmt ==
    IF Cur = "x" THEN <<Expect("x"), CallFrom("AfterName", Pos)>>
    ELSE <<Expr, CallFrom("Assignment", Pos)>>

PostfixOps(from) ==
    Loop({"^", "("}, <<CallFrom("PostfixOp", from)>>)

(* Variant: one loop for the operators of both levels.                     *)
ParseAfterNameFlat(from) ==
    IF Cur = ":" THEN <<Expect(":"), Stmt, NodeFrom("Label", from)>>
    ELSE <<CallFrom("Applied", from), PostfixOps(from),
           Operators(ArithmeticOp, "Unary", from), Operators(RelOp, "Add", from),
           CallFrom("Assignment", from)>>

ParseAfterName(from) ==
    IF Cur = ":" THEN <<Expect(":"), Stmt, NodeFrom("Label", from)>>
    ELSE <<CallFrom("Applied", from), PostfixOps(from),
           Operators(MulOp, "Unary", from), Operators(AddOp, "Mul", from),
           Operators(RelOp, "Add", from), CallFrom("Assignment", from)>>

(* Variant: the left operand is not looked at.                             *)
ModifiesAnyOperand(from) ==
    Last(made).kind = "Binary" /\ toks[Last(made).at] \in ArithmeticOp

(* The value that was just parsed is V op E, with V to be modified.         *)
Modifies(from) ==
    LET value == Last(made)
    IN /\ value.kind = "Binary"
       /\ toks[value.at] \in ArithmeticOp
       /\ value.left = IF toks[from] = "x" THEN "x" ELSE "R"

ParseAssignment(from) ==
    IF Cur = "=>" THEN <<Expect("=>"), Call("LValue"), NodeFrom("Assign", from)>>
    ELSE IF Modifies(from) THEN <<NodeFrom("Modify", from)>>
    ELSE Throw

ParseLValue ==
    <<CASE Cur = "x"   -> Call("Element")
        [] Cur = "IND" -> Call("Primary")
        [] OTHER       -> ExpectAny(Registers),
      Loop({"^"}, <<Expect("^")>>)>>
ParseElement == <<Expect("x"), Match("(", ArgList \o <<Expect(")")>>)>>

-----------------------------------------------------------------------------
(***************************************************************************)
(* Expressions.                                                            *)
(***************************************************************************)
ParseRelExpr == <<Call("Add"), Operators(RelOp, "Add", Pos)>>
ParseAddExpr == <<Call("Mul"), Operators(AddOp, "Mul", Pos)>>
ParseMulExpr == <<Call("Unary"), Operators(MulOp, "Unary", Pos)>>

ParseUnaryExpr ==
    IF Cur \in {"-", "NOT"} THEN <<Expect(Cur), Call("Unary"), Node("Unary")>>
    ELSE <<Call("Primary"), PostfixOps(Pos)>>

ParsePostfixOp(from) ==
    IF Cur = "^" THEN <<Expect("^"), NodeFrom("Deref", from)>>
    ELSE InParens(ArgList) \o <<NodeFrom("Index", from)>>

ParsePrimaryExpr ==
    CASE Cur = "x"             -> <<Expect("x"), CallFrom("Applied", Pos)>>
      [] Cur = "("             -> InParens(<<Expr>>)
      [] Cur = "REF"           -> <<Expect("REF")>> \o InParens(<<Expr>>) \o <<Node("AddrOf")>>
      [] Cur = "IND"           -> <<Expect("IND")>> \o InParens(<<Expr>>) \o <<Node("Deref")>>
      [] Cur \in Literals      -> <<Expect(Cur), Node(Cur)>>
      [] Cur \in Registers     -> <<Expect(Cur), Node("R")>>
      [] OTHER                 -> Throw

ParseApplied(from) ==
    IF Cur = "(" THEN <<Expect("("), Call("Arguments"), Expect(")"), NodeFrom("Call", from)>>
    ELSE <<NodeFrom("x", from)>>
ParseArguments == IF Cur = ")" THEN Nothing ELSE ArgList

-----------------------------------------------------------------------------
(* What the function f does, entered at Cur.                               *)
Body(f, from) ==
    CASE f = "BEGIN"            -> ParseBlock
      [] f = "DeclarationGroup" -> ParseDeclarationGroup
      [] f = "TypeSpec"         -> ParseTypeSpec
      [] f = "Typed"            -> ParseTyped
      [] f = "VarDeclGroup"     -> ParseVarDeclGroup
      [] f = "ArrayName"        -> ParseArrayName
      [] f = "Declarator"       -> ParseDeclarator
      [] f = "Dimension"        -> ParseDimension
      [] f = "IntLiteral"       -> RequireIntLiteral
      [] f = "CONSTANT"         -> ParseConstDecl
      [] f = "PROCEDURE"        -> ParseProcDecl
      [] f = "ProcRest"         -> ParseProcRest(from)
      [] f = "Param"            -> ParseParamDecl
      [] f = "ParamMode"        -> ParseParamMode
      [] f = "Statement"        -> ParseStatement
      [] f = "IF"               -> ParseIfStmt
      [] f = "WHILE"            -> ParseWhileStmt
      [] f = "FOR"              -> ParseForStmt
      [] f = "DO"               -> ParseDoStmt
      [] f = "DoBody"           -> ParseDoBody
      [] f = "REPEAT"           -> ParseRepeatStmt
      [] f = "CASE"             -> ParseCaseStmt
      [] f = "CALL"             -> ParseCallStmt
      [] f = "RETURN"           -> ParseReturnStmt
      [] f = "GOTO"             -> ParseGotoStmt
      [] f = "ASM"              -> ParseAsmStmt
      [] f = "PRINT"            -> ParsePrintStmt
      [] f = "PUSH"             -> ParsePushStmt
      [] f = "POP"              -> ParsePopStmt
      [] f = "ExprStmt"         -> ParseExprStmt
      [] f = "AfterName"        -> ParseAfterName(from)
      [] f = "Assignment"       -> ParseAssignment(from)
      [] f = "LValue"           -> ParseLValue
      [] f = "Element"          -> ParseElement
      [] f = "Rel"              -> ParseRelExpr
      [] f = "Add"              -> ParseAddExpr
      [] f = "Mul"              -> ParseMulExpr
      [] f = "Unary"            -> ParseUnaryExpr
      [] f = "PostfixOp"        -> ParsePostfixOp(from)
      [] f = "Primary"          -> ParsePrimaryExpr
      [] f = "Applied"          -> ParseApplied(from)
      [] f = "Arguments"        -> ParseArguments

-----------------------------------------------------------------------------
(***************************************************************************)
(* The machine.                                                            *)
(***************************************************************************)
Init ==
    /\ vocab \in Vocabularies
    /\ toks \in {<<t>> : t \in vocab \cup {"EOF"}}
    /\ todo = <<Call("BEGIN"), Expect("EOF")>>
    /\ made = <<>>
    /\ status = "parsing"

(* The input ends when it can no longer be completed within the bound: one *)
(* more token and those that are still expected.  The lexer goes on        *)
(* returning EOF.                                                          *)
Advance ==
    LET owed == Cardinality({i \in DOMAIN todo' : todo'[i].do = "expect"})
    IN IF Cur = "EOF" THEN toks' = toks
       ELSE \E t \in (IF Pos + owed <= MaxTokens[vocab] THEN vocab ELSE {}) \cup {"EOF"} :
                toks' = Append(toks, t)

Doing(what) == status = "parsing" /\ todo # <<>> /\ Head(todo).do = what
Goal        == Head(todo)
CurMatches  == Cur \in Goal.of

EnterFunction ==
    /\ Doing("call")
    /\ todo' = Body(Goal.fn, Goal.from) \o Tail(todo)
    /\ UNCHANGED <<vocab, toks, made, status>>

(* ELSE and UNTIL belong to the statement that is being parsed.            *)
Owning(goals) ==
    IF Cur \notin {"ELSE", "UNTIL"} THEN goals
    ELSE LET owner == Min({i \in DOMAIN goals : goals[i].do = "node"})
         IN [goals EXCEPT ![owner].at = Pos]

ExpectToken ==
    /\ Doing("expect") /\ CurMatches
    /\ todo' = Owning(Tail(todo))
    /\ Advance
    /\ UNCHANGED <<vocab, made, status>>

Error ==
    /\ Doing("expect") /\ ~CurMatches
    /\ status' = "rejected"
    /\ UNCHANGED <<vocab, toks, todo, made>>

MatchToken ==
    /\ Doing("match") /\ CurMatches
    /\ todo' = Owning(Goal.body \o Tail(todo))
    /\ Advance
    /\ UNCHANGED <<vocab, made, status>>

Iterate ==
    /\ Doing("loop") /\ CurMatches
    /\ todo' = Goal.body \o todo
    /\ UNCHANGED <<vocab, toks, made, status>>

ReadOperator ==
    /\ Doing("operators") /\ CurMatches
    /\ LET binary == [NodeFrom("Binary", Goal.from)
                        EXCEPT !.at = Pos, !.left = Last(made).kind]
       IN todo' = <<Call(Goal.fn), binary>> \o todo
    /\ Advance
    /\ UNCHANGED <<vocab, made, status>>

(* What does not apply at the current token is passed by.                  *)
PassBy ==
    LET skipped(i) == todo[i].do \in {"match", "loop", "operators"} /\ Cur \notin todo[i].of
    IN /\ status = "parsing" /\ todo # <<>> /\ skipped(1)
       /\ todo' = SubSeq(todo, Min({i \in DOMAIN todo : ~skipped(i)}), Len(todo))
       /\ UNCHANGED <<vocab, toks, made, status>>

(* A node ends before the current token.                                   *)
LastRead == Pos - 1

MakeNode ==
    /\ Doing("node")
    /\ made' = Append(made, [kind |-> Goal.kind, from |-> Goal.from, at |-> Goal.at,
                             to |-> LastRead, left |-> Goal.left])
    /\ todo' = Tail(todo)
    /\ UNCHANGED <<vocab, toks, status>>

Accept ==
    /\ status = "parsing" /\ todo = <<>>
    /\ status' = "accepted"
    /\ UNCHANGED <<vocab, toks, todo, made>>

Next == EnterFunction \/ ExpectToken \/ Error \/ MatchToken \/ Iterate
        \/ ReadOperator \/ PassBy \/ MakeNode \/ Accept

Spec     == Init /\ [][Next]_vars
FairSpec == Spec /\ WF_vars(Next)
-----------------------------------------------------------------------------
(***************************************************************************)
(* Properties.                                                             *)
(***************************************************************************)
Nodes == ToSet(made)

(* An ELSE and an UNTIL belong to the nearest statement that can have one: *)
(* no IF or loop inside another ends without one just before the other's.  *)
ClausesAreNearest ==
    \A outer \in Nodes : \A inner \in Nodes :
        outer.kind # "Binary" /\ outer.at # 0 /\ outer.from < inner.from
          /\ inner.to = outer.at - 1 /\ inner.at = 0
        => inner.kind \notin (IF toks[outer.at] = "ELSE" THEN {"If"}
                              ELSE {"While", "For", "Do"})

(* The binary operators between tokens i and j that are in no parentheses  *)
(* there; a minus is one if an operand ends before it.                     *)
Depth(i, p) == Cardinality({q \in i..p : toks[q] = "("})
               - Cardinality({q \in i..p : toks[q] = ")"})
OperatorsOf(i, j) ==
    {p \in i + 1..j : /\ toks[p] \in RelOp \cup ArithmeticOp
                      /\ toks[p - 1] \in {"x", ")", "^"} \cup Literals \cup Registers
                      /\ Depth(i, p) = 0}
Level(p) == CASE toks[p] \in RelOp -> 1 [] toks[p] \in AddOp -> 2 [] OTHER -> 3

(* An operation applies the last of its loosest operators, and each other  *)
(* one is applied inside it: also in a statement, where an expression that *)
(* begins with an identifier is read by loops of its own.                  *)
Precedence ==
    \A n \in Nodes : n.kind = "Binary" =>
        LET ops == OperatorsOf(n.from, n.to)
        IN /\ n.at \in ops
           /\ \A p \in ops : Level(p) > Level(n.at) \/ (Level(p) = Level(n.at) /\ p <= n.at)
           /\ \A p \in ops : Cardinality({m \in Nodes : m.kind = "Binary" /\ m.at = p}) = 1

(* What is taken for the short form of an assignment reads "V op E", with  *)
(* all of E the operand of that operator (perhaps in parentheses): the     *)
(* target is not just the first of several operands.                       *)
ModifyReadsAsWritten ==
    \A n \in Nodes : n.kind = "Modify" =>
        \E value \in Nodes :
            /\ value.kind = "Binary" /\ n.from <= value.from /\ value.to <= n.to
            /\ \A i \in n.from..value.at - 1 : toks[i] \in {"(", ")", "x"} \cup Registers
            /\ \A i \in value.to + 1..n.to : toks[i] = ")"

(* The parser stops on every input.                                        *)
Termination == <>(status # "parsing")
=============================================================================
