---------------------------- MODULE MCCodegenCFG ----------------------------
(***************************************************************************)
(* Programs for TLC: every program that can be built from a few leaves     *)
(* with the constructors of PL11Ast, up to a depth or a length.            *)
(***************************************************************************)
EXTENDS CodegenCFG

MCName == {"L", "M", "P", "Q"}
MCExpr == {"a", "b", "c", "u", "i", "e", "s", "t", "n", "v"}

(* The selector has two bits: 1 and 5 are the same case.                   *)
MCModulus == [e \in MCExpr |-> 4]

Until == {<<>>, <<"u">>}

(* The compound statements with sub-statements from B and, where there are *)
(* two, a second one from C.                                               *)
Conditionals(B, C) ==
    {IfStmt("c", x, <<>>) : x \in B} \cup {IfStmt("c", x, <<y>>) : x \in B, y \in C}
Loops(B, C) ==
    {WhileStmt("c", x, u) : x \in B, u \in Until}
    \cup {ForStmt("i", <<"s">>, "e", <<>>, x, u) : x \in B, u \in Until}
    \cup {ForStmt("i", <<>>, "e", <<"t">>, x, u) : x \in B, u \in Until}
    \cup {DoStmt(<<x>>, u) : x \in B, u \in Until}
    \cup {DoStmt(<<>>, u) : u \in Until}
    \cup {RepeatStmt(<<>>, "u")}
    \cup {RepeatStmt(<<x, y>>, "u") : x \in B, y \in C}
Cases(B, C) ==
    {CaseStmt("n", <<>>, <<>>)}
    \cup {CaseStmt("n", <<1, v>>, <<x, y>>) : v \in {1, 2, 5}, x \in B, y \in C}
Blocks(B, C) ==
    {Block(<<>>, <<>>)} \cup {Block(<<>>, <<x, y>>) : x \in B, y \in C}

Compound(B, C) ==
    Conditionals(B, C) \cup Loops(B, C) \cup Cases(B, C) \cup Blocks(B, C)
    \cup {LabelStmt("L", x) : x \in B}

(* Two levels of every statement over an effect and a RETURN.              *)
Leaves == {AssignStmt("a"), ReturnStmt(<<>>)}
Level1 == Leaves \cup Compound(Leaves, Leaves)
Level2 == Level1 \cup Compound(Level1, Leaves) \cup Compound(Leaves, Level1)
NestedPrograms == {Block(<<>>, <<x>>) : x \in Level2}
NestedNodes    == Level2 \cup NestedPrograms

(* A value returned by main, at once or in one branch.                     *)
ValueReturn    == {ReturnStmt(<<"v">>)}
ReturnStmts    == ValueReturn \cup Conditionals(ValueReturn, Leaves)
ReturnPrograms == {Block(<<>>, <<x>>) : x \in ReturnStmts}
ReturnNodes    == ReturnStmts \cup ReturnPrograms

(* Every sequence of three statements that jump, carry labels or hide      *)
(* either inside a compound statement; a label may be missing, defined     *)
(* twice, jumped to from before, from behind, or into a loop.              *)
LabelLeaves == {AssignStmt("a"), GotoStmt("L"), GotoStmt("M"),
                LabelStmt("L", AssignStmt("b")), LabelStmt("M", AssignStmt("b"))}
LabelStmts  == LabelLeaves
    \cup {IfStmt("c", x, <<AssignStmt("a")>>) : x \in LabelLeaves}
    \cup {WhileStmt("c", x, <<>>) : x \in LabelLeaves}
    \cup {RepeatStmt(<<x>>, "u") : x \in LabelLeaves}
    \cup {LabelStmt("L", GotoStmt("L"))}
LabelPrograms ==
    {Block(<<>>, <<x, y, z>>) : x, y, z \in LabelStmts}
LabelNodes    == LabelStmts \cup LabelPrograms \cup {AssignStmt("b")}

(* Procedures one in another, one behind another, FORWARD, and functions,  *)
(* and a main that calls them.  Only siblings share a label.               *)
ProcBodies(l) ==
    {<<>>, <<ReturnStmt(<<>>)>>, <<ReturnStmt(<<"v">>)>>,
     <<CallStmt("P")>>, <<CallStmt("Q")>>,
     <<GotoStmt(l), LabelStmt(l, AssignStmt("a"))>>,
     <<IfStmt("c", ReturnStmt(<<"v">>), <<AssignStmt("a")>>)>>}
InnerProcs == {ProcDecl("Q", r, <<>>, b) :
                   r \in {"void", "value"}, b \in ProcBodies("M")}
OuterDecls == {<<>>} \cup {<<q>> : q \in InnerProcs}
OuterProcs == {ProcDecl("P", r, d, b) :
                   r \in {"void", "value"}, d \in OuterDecls, b \in ProcBodies("L")}
MainDecls  == {<<p>> : p \in OuterProcs}
              \cup {<<ForwardDecl("P", "void"), p>> : p \in OuterProcs}
              \cup {<<ProcDecl("Q", "void", <<>>, b), p>> :
                       b \in ProcBodies("L"), p \in {p \in OuterProcs : p.decls = <<>>}}
MainStmts  == {<<CallStmt("Q")>>,
               <<WhileStmt("c", CallStmt("P"), <<>>), AssignStmt("b")>>}
ProcPrograms == {Block(d, b) : d \in MainDecls, b \in MainStmts}
Elements(seqs) == UNION {{q[i] : i \in DOMAIN q} : q \in seqs}
ProcNodes == Elements(MainDecls) \cup InnerProcs \cup ProcPrograms
             \cup Elements(ProcBodies("L") \cup ProcBodies("M") \cup MainStmts)
             \cup {AssignStmt("a"), CallStmt("P"), ReturnStmt(<<"v">>)}

SeparatePrograms ==
    NestedPrograms \cup ReturnPrograms \cup ProcPrograms \cup LabelPrograms
SeparateNodes ==
    NestedNodes \cup ReturnNodes \cup ProcNodes \cup LabelNodes

(* TLC computes a definition without parameters once, but not the one that *)
(* stands for a constant, hence these.                                     *)
MCPrograms == SeparatePrograms
MCNode     == SeparateNodes

(* A label L in the procedure P and a label L in main.                     *)
SameLabel == {LabelStmt("L", AssignStmt("a")), GotoStmt("L"), AssignStmt("b")}
SameLabelProcs == {ProcDecl("P", "void", <<>>, <<x, y>>) : x, y \in SameLabel}
SharedLabelPrograms ==
    {Block(<<p>>, <<x, y>>) : p \in SameLabelProcs, x, y \in SameLabel}
SharedLabelNodes ==
    SameLabel \cup SameLabelProcs \cup SharedLabelPrograms \cup {AssignStmt("a")}

(* The programs of the first run use every label at one depth of nesting,  *)
(* some of those of the second do not.                                     *)
RECURSIVE Places(_, _)
Places(s, n) == {<<s, n>>} \cup UNION {Places(c, Inside(s, n)) : c \in Children(s)}

Uses(R, l) == {x \in R : x[1].kind \in {"Goto", "Label"} /\ x[1].name = l}
DepthIn(R) == [l \in MCName |-> IF Uses(R, l) = {} THEN 0
                                 ELSE (CHOOSE x \in Uses(R, l) : TRUE)[2]]
AtOneDepth(p) == LET R == Places(p, 0) IN LabelsApart(R, DepthIn(R))

ASSUME SeparateAssumption == \A p \in SeparatePrograms : AtOneDepth(p)
ASSUME SharedAssumption   == \E p \in SharedLabelPrograms : ~AtOneDepth(p)
=============================================================================
