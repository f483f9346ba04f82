------------------------------ MODULE MCNames ------------------------------
(***************************************************************************)
(* Programs for TLC: declarations and uses of the names X and P at three   *)
(* levels, in main, in a procedure or a block of it, and in one inside     *)
(* that, with uses after each of them.                                     *)
(***************************************************************************)
EXTENDS Names

MCName == {"X", "P"}

None  == {<<>>}
Uses1 == {<<Use("read", "X", 0)>>, <<Use("write", "X", 0)>>, <<Use("loop", "X", 0)>>,
          <<Use("call", "P", 0)>>, <<Use("call", "P", 1)>>, <<Use("apply", "X", 1)>>}
Returns == {<<Return("void")>>, <<Return("value")>>}
Vars    == {<<Decl("var", "X")>>, <<Decl("const", "X")>>}

(* One scope around decls and a body: a block, or a procedure with or      *)
(* without a parameter.                                                    *)
InBlock(D, B) == {<<Begin>> \o d \o b \o <<End>> : d \in D, b \in B}
InProc(p, Modes, D, B) ==
    {<<Proc(p, r, m)>> \o [i \in 1..Len(m) |-> Decl("param", "X")]
        \o d \o b \o <<End>> : r \in {"void", "value"}, m \in Modes, d \in D, b \in B}

Pairs(S, T) == {s \o t : s \in S, t \in T}

(* A procedure in a procedure, then a use and a RETURN in the outer one,   *)
(* then a use in main.                                                     *)
InnerProcs == InProc("P", {<<>>, <<"in">>}, None, Uses1 \cup Returns)
              \cup InProc("X", {<<"in">>}, None, Returns)
Procs      == InProc("P", {<<>>, <<"in">>}, None \cup InnerProcs, Pairs(Uses1, Returns))
ProcPrograms == InBlock(Pairs(None \cup Vars, Procs), {<<Use("call", "P", 0)>>,
                                                      <<Use("read", "X", 0)>>})

(* A block in a block or in a procedure, with a use in it and one after.   *)
InnerDecls == None \cup Vars \cup {<<Use("read", "X", 0), Decl("const", "X")>>}
              \cup InProc("P", {<<>>}, None, Returns)
Nested     == Pairs(InBlock(InnerDecls, Uses1), Uses1)
BlockPrograms ==
    InBlock(None \cup Vars, Nested)
    \cup InBlock(InProc("X", {<<>>, <<"in">>}, None \cup Vars, Nested),
                        {<<Use("call", "X", 0)>>, <<Use("read", "X", 0)>>})

ScopePrograms == ProcPrograms \cup BlockPrograms

(* The same names, some of them announced.                                 *)
ForwardDecls == {<<Forward("P", "void")>>, <<Forward("X", "value")>>}
Definitions  == InProc("P", {<<>>}, None, Uses1) \cup InProc("X", {<<>>}, None, Uses1)
ForwardPrograms ==
    InBlock(Pairs(ForwardDecls, Definitions), Uses1)
    \cup InBlock(Pairs(Vars, Definitions), InBlock(ForwardDecls, Uses1))

(* Procedures whose parameter is passed out.                               *)
OutPrograms == InBlock(InProc("P", {<<"in">>, <<"out">>}, None, Uses1), Uses1)

MCPrograms == ScopePrograms \cup ForwardPrograms \cup OutPrograms
=============================================================================
