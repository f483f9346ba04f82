----------------------------- MODULE MCLowering -----------------------------
(***************************************************************************)
(* Legal programs for TLC: every one that can be built from a few leaves   *)
(* with the constructors of PL11Ast, up to a depth or a length.            *)
(***************************************************************************)
EXTENDS Lowering

MCName == {"L", "M", "P", "Q"}
MCExpr == {"a", "b", "c", "d", "u", "w", "i", "e", "s", "t", "n", "q", "v", "z"}

MCModulus == [e \in MCExpr |-> 4]

(* A body whose labels are distinct and whose GOTOs have a label.          *)
LegalBody(seq) ==
    LET ls == Source!LabelsIn(seq) IN
    /\ Distinct(ls)
    /\ Source!GotosIn(seq) \subseteq {ls[i] : i \in DOMAIN ls}

Until(u) == {<<>>, <<u>>}

(* The compound statements; c and u name the tests, so that those of an    *)
(* outer and of an inner statement are told apart.                         *)
Compound(B, C, c, u) ==
    {IfStmt(c, x, <<>>) : x \in B}
    \cup {IfStmt(c, x, <<y>>) : x \in B, y \in C}
    \cup {WhileStmt(c, x, v) : x \in B, v \in Until(u)}
    \cup {ForStmt(c, <<"s">>, "e", <<"t">>, x, v) : x \in B, v \in Until(u)}
    \cup {ForStmt(c, <<>>, "e", <<>>, x, v) : x \in B, v \in Until(u)}
    \cup {DoStmt(x, v) : x \in {<<>>} \cup {<<y>> : y \in B}, v \in Until(u)}
    \cup {RepeatStmt(x, u) : x \in {<<>>} \cup {<<y, z>> : y \in B, z \in C}}
    \cup {CaseStmt(c, <<>>, <<>>)}
    \cup {CaseStmt(c, <<1, 2>>, <<x, y>>) : x \in B, y \in C}
    \cup {Block(<<>>, <<>>)}
    \cup {Block(<<>>, <<x, y>>) : x \in B, y \in C}

(* A procedure P whose body is a statement of depth two followed by an     *)
(* effect, called by a main that does something afterwards.  P calls Q,    *)
(* whose RETURN is in one branch only.                                     *)
ProcQ  == ProcDecl("Q", "value", <<>>,
                   <<IfStmt("q", ReturnStmt(<<"v">>), <<>>), PrintStmt("b")>>)
Leaves == {CallStmt("Q"), ReturnStmt(<<>>)}
Inner  == Leaves \cup Compound(Leaves, Leaves, "c", "u")
Outer  == Inner \cup Compound(Inner, Leaves, "d", "w")
                \cup Compound(Leaves, Inner, "d", "w")
NestedProcs == {ProcDecl("P", "void", <<>>, <<x, AssignStmt("b")>>) : x \in Outer}
MainCalls   == <<CallStmt("P"), AssignStmt("z")>>
NestedPrograms == {Block(<<ProcQ, p>>, MainCalls) : p \in NestedProcs}
NestedNodes ==
    Outer \cup NestedProcs \cup NestedPrograms
    \cup {AssignStmt("b"), AssignStmt("z"), CallStmt("P")}
    \cup {ProcQ, ProcQ.stmts[1], ProcQ.stmts[2], ReturnStmt(<<"v">>)}

(* Jumps forwards and backwards, out of and into compound statements.      *)
JumpLeaves == {AssignStmt("a"), GotoStmt("L"), GotoStmt("M"),
               LabelStmt("L", AssignStmt("b")), LabelStmt("M", GotoStmt("L"))}
JumpStmts  == JumpLeaves
    \cup {IfStmt("c", x, <<>>) : x \in JumpLeaves}
    \cup {IfStmt("c", AssignStmt("z"), <<x>>) : x \in JumpLeaves}
    \cup {WhileStmt("d", x, <<"w">>) : x \in JumpLeaves}
    \cup {DoStmt(<<x>>, <<>>) : x \in JumpLeaves}
    \cup {RepeatStmt(<<x, AssignStmt("z")>>, "u") : x \in JumpLeaves}
    \cup {CaseStmt("n", <<1, 2>>, <<x, AssignStmt("z")>>) : x \in JumpLeaves}
Between == JumpLeaves \cup {IfStmt("c", GotoStmt("M"), <<>>)}
JumpBodies ==
    {b \in {<<x, y, z>> : x \in JumpStmts, y \in Between, z \in JumpStmts} :
        LegalBody(b) /\ Source!LabelsIn(b) # <<>>}
JumpPrograms == {Block(<<>>, b) : b \in JumpBodies}
JumpNodes == JumpStmts \cup JumpPrograms \cup {AssignStmt("b"), AssignStmt("z")}

LegalPrograms == NestedPrograms \cup JumpPrograms
LegalNodes    == NestedNodes \cup JumpNodes

(* The reading of all of them: where their nodes stand, and the labels     *)
(* they hold, which are all those of main.                                 *)
RECURSIVE Places(_, _)
Places(s, c) ==
    {<<s, c>>} \cup
    IF s.kind \in {"Block", "Proc"}
    THEN UNION ({Places(s.decls[i], ContextIn(s, c, i)) : i \in DOMAIN s.decls}
                \cup {Places(s.stmts[i], ContextIn(s, c, Len(s.decls) + 1)) :
                          i \in DOMAIN s.stmts})
    ELSE UNION {Places(d, c) : d \in Children(s)}

LegalReading ==
    [at     |-> UNION {Places(p, Outermost) : p \in LegalPrograms},
     labels |-> [s \in LegalNodes |-> LET ls == Source!LabelsIn(<<s>>)
                                      IN {ls[i] : i \in DOMAIN ls}],
     gotos  |-> [s \in LegalNodes |-> Source!GotosIn(<<s>>)],
     depth  |-> [l \in MCName |-> 0]]

(* The programs are legal, as the theorem about them asks.                 *)
ASSUME LegalProgramsAssumption ==
    /\ Reading(LegalReading)
    /\ \A p \in Programs : /\ <<p, Outermost>> \in LegalReading.at
                           /\ Resolved(LegalReading, p)

(* The constants of every CASE are in the range of its selector's type:    *)
(* what a constant out of range means, the source semantics does not say.  *)
ASSUME InRangeAssumption ==
    \A s \in LegalNodes : s.kind = "Case" => CaseValues(s) = s.vals
=============================================================================
