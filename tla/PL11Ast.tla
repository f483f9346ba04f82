------------------------------ MODULE PL11Ast ------------------------------
(***************************************************************************)
(* The statement and declaration nodes of src/src/ast/pl11_ast.h, as       *)
(* records.  An optional child (a null unique_ptr) is a sequence of length *)
(* at most one.  An expression is abstracted to its name: evaluating it is *)
(* one observable event, which is all that control-flow generation can     *)
(* tell apart (genExpr never creates a basic block).                       *)
(***************************************************************************)
EXTENDS Sequences, Integers

(* Statements that genStmt lowers to straight-line code: their one         *)
(* observable effect is named by expr.                                     *)
AssignStmt(e) == [kind |-> "Assign", expr |-> e]
PrintStmt(e)  == [kind |-> "Print",  expr |-> e]
AsmStmt(e)    == [kind |-> "Asm",    expr |-> e]
PushStmt(e)   == [kind |-> "Push",   expr |-> e]
PopStmt(e)    == [kind |-> "Pop",    expr |-> e]

(* thenStmt, and elseStmt (<<>> or <<s>>).                                 *)
IfStmt(c, then, else) ==
    [kind |-> "If", expr |-> c, stmts |-> <<then>>, alt |-> else]

WhileStmt(c, body, until) ==
    [kind |-> "While", expr |-> c, stmts |-> <<body>>, until |-> until]

(* end is always there; start and step are optional.  var names the loop   *)
(* variable and with it the exit test and the increment.                   *)
ForStmt(var, start, end, step, body, until) ==
    [kind |-> "For", expr |-> var, start |-> start, end |-> end,
     step |-> step, stmts |-> <<body>>, until |-> until]

DoStmt(body, until) == [kind |-> "Do", stmts |-> body, until |-> until]

RepeatStmt(body, c) == [kind |-> "Repeat", expr |-> c, stmts |-> body]

(* vals[i] is the constant of the i-th arm and stmts[i] its statement.     *)
CaseStmt(e, vals, stmts) ==
    [kind |-> "Case", expr |-> e, vals |-> vals, stmts |-> stmts]

CallStmt(name)     == [kind |-> "Call", name |-> name]
ReturnStmt(value)  == [kind |-> "Return", value |-> value]
GotoStmt(label)    == [kind |-> "Goto", name |-> label]
LabelStmt(label, s) == [kind |-> "Label", name |-> label, stmts |-> <<s>>]

(* A BlockNode: procedure declarations, then statements.  (The variable    *)
(* and constant declarations of a block create no control flow and are     *)
(* not represented here.)                                                  *)
Block(decls, stmts) == [kind |-> "Block", decls |-> decls, stmts |-> stmts]

(* ret is "void" for a PROCEDURE and "value" for a typed one; a FORWARD    *)
(* declaration has no body.                                                *)
ProcDecl(name, ret, decls, stmts) ==
    [kind |-> "Proc", name |-> name, ret |-> ret, forward |-> FALSE,
     decls |-> decls, stmts |-> stmts]
ForwardDecl(name, ret) ==
    [kind |-> "Proc", name |-> name, ret |-> ret, forward |-> TRUE,
     decls |-> <<>>, stmts |-> <<>>]

StraightLine == {"Assign", "Print", "Asm", "Push", "Pop"}

NodeKinds == StraightLine \cup
    {"If", "While", "For", "Do", "Repeat", "Case", "Call", "Return",
     "Goto", "Label", "Block", "Proc"}

(***************************************************************************)
(* The fields of a node whose kind is in NodeKinds, when its children come *)
(* from Node, its names from Name and its expressions from Expr.           *)
(***************************************************************************)
Optional(S) == {q \in Seq(S) : Len(q) <= 1}

WellFormedNode(s, Node, Name, Expr) ==
    /\ s.kind \in NodeKinds
    /\ s.kind \in StraightLine \cup {"If", "While", "For", "Repeat", "Case"}
         => s.expr \in Expr
    /\ s.kind \in {"If", "While", "For", "Label"}
         => s.stmts \in Seq(Node) /\ Len(s.stmts) = 1
    /\ s.kind = "If" => s.alt \in Optional(Node)
    /\ s.kind = "Do" => s.stmts \in Optional(Node)
    /\ s.kind \in {"While", "For", "Do"} => s.until \in Optional(Expr)
    /\ s.kind = "For" => /\ s.start \in Optional(Expr)
                         /\ s.end \in Expr
                         /\ s.step \in Optional(Expr)
    /\ s.kind \in {"Repeat", "Case", "Block", "Proc"} => s.stmts \in Seq(Node)
    /\ s.kind = "Case" => /\ s.vals \in Seq(Nat)
                          /\ Len(s.vals) = Len(s.stmts)
    /\ s.kind \in {"Call", "Goto", "Label", "Proc"} => s.name \in Name
    /\ s.kind = "Return" => s.value \in Optional(Expr)
    /\ s.kind \in {"Block", "Proc"} => s.decls \in Seq(Node)
    /\ s.kind = "Proc" => /\ s.ret \in {"void", "value"}
                          /\ s.forward \in BOOLEAN

(* A set of nodes that contains the children of each.                      *)
WellFormed(Node, Name, Expr) == \A s \in Node : WellFormedNode(s, Node, Name, Expr)
=============================================================================
