------------------------------- MODULE Names -------------------------------
(***************************************************************************)
(* What a name denotes: the two passes that resolve names one after the    *)
(* other, each with a scope stack of its own.  Sema::analyse reads the     *)
(* whole tree first (src/src/sema/pl11_sema.cpp) and, if it accepts it,    *)
(* Codegen::generate reads it again (src/src/codegen/pl11_codegen.cpp).    *)
(*                                                                         *)
(* Both visit the declarations and the uses of names in the same order, so *)
(* a program is given here as the sequence of its nodes in that order, an  *)
(* "end" closing each block and procedure.  Every variable is a WORD, and  *)
(* an expression is the sequence of the names it uses.                     *)
(***************************************************************************)
EXTENDS Sequences, Integers, FiniteSets

CONSTANTS Name,
          Programs   \* sequences of nodes

VARIABLES
    prog,           \* the program being compiled
    at,             \* the node to be visited next
    phase,          \* "sema", "codegen", and how the compilation ended
    scopes,         \* Sema::scopes_: the declaration of each name, 0 if none
    curReturnType,  \* curReturnType_
    genScopes,      \* Codegen::scopes_: the same, of the symbols set so far
    curFunc,        \* curFunc_: the declaration of the function, 0 for main
    saved,          \* the active handlers, with what they keep in locals
    owner,          \* the function that holds the alloca of each declaration
    resolved,       \* history: the declaration that sema found for each use
    emitted         \* history: what codegen emitted for each use

semaVars == <<scopes, curReturnType, resolved>>
genVars  == <<genScopes, curFunc, owner, emitted>>
vars     == <<prog, at, phase, saved, semaVars, genVars>>

(***************************************************************************)
(* Nodes.  ret is the return type of a procedure and, for a RETURN, whether*)
(* it has a value; modes the modes of the parameters, which follow as      *)
(* nodes of their own; n the number of arguments.                          *)
(***************************************************************************)
Node(op, name, ret, modes, n) ==
    [op |-> op, name |-> name, ret |-> ret, modes |-> modes, n |-> n]

Begin               == Node("block", "", "void", <<>>, 0)
End                 == Node("end", "", "void", <<>>, 0)
Proc(p, ret, modes) == Node("proc", p, ret, modes, 0)
Forward(p, ret)     == Node("forward", p, ret, <<>>, 0)
Decl(op, x)         == Node(op, x, "value", <<>>, 0)
Use(op, x, n)       == Node(op, x, "void", <<>>, n)
Return(ret)         == Node("return", "", ret, <<>>, 0)

Procedures == {"proc", "forward"}
Declares   == {"var", "const", "param"} \cup Procedures
Uses       == {"read", "write", "loop", "call", "apply"}
Types      == {"void", "value"}

NodeSet == [op : Declares \cup Uses \cup {"block", "end", "return"}, name : Name \cup {""},
            ret : Types, modes : Seq({"in", "out"}), n : Nat]

(* How many blocks and procedures of p are open where node i begins.       *)
Before(p, ops, i) == Cardinality({k \in 1..(i - 1) : p[k].op \in ops})
DepthIn(p, i)     == Before(p, {"block", "proc"}, i) - Before(p, {"end"}, i)

(* What the parser builds: names where there must be one, every block and  *)
(* procedure closed and nothing closed that is not open.                   *)
WellFormed(p) ==
    /\ p \in Seq(NodeSet)
    /\ \A i \in 1..Len(p) : p[i].op \in Declares \cup Uses => p[i].name \in Name
    /\ \A i \in 1..Len(p) : DepthIn(p, i + 1) >= 0
    /\ DepthIn(p, Len(p) + 1) = 0

ASSUME ProgramsAssumption == \A p \in Programs : WellFormed(p)

Here   == prog[at]
At(op) == at <= Len(prog) /\ Here.op = op

-----------------------------------------------------------------------------
(***************************************************************************)
(* Both kinds of scope stack.                                              *)
(***************************************************************************)
NoSymbols == [x \in Name |-> 0]

PushScope(sc)       == Append(sc, NoSymbols)
PopScope(sc)        == SubSeq(sc, 1, Len(sc) - 1)
SetSymbol(sc, x, d) == [sc EXCEPT ![Len(sc)][x] = d]

(* lookup: the innermost scope that has the name; 0 if none has.           *)
Innermost(sc, x, i) == /\ sc[i][x] # 0
                       /\ \A j \in (i + 1)..Len(sc) : sc[j][x] = 0
Lookup(sc, x) ==
    IF \E i \in DOMAIN sc : Innermost(sc, x, i)
    THEN sc[CHOOSE i \in DOMAIN sc : Innermost(sc, x, i)][x]
    ELSE 0

Fail(how) == /\ phase' = how
             /\ UNCHANGED <<prog, at, saved, semaVars, genVars>>

(* A handler keeps savedRet in one pass and prevFunc in the other, if it    *)
(* is the one of a procedure.                                              *)
Enter == saved' = <<[op |-> Here.op, ret |-> curReturnType, fn |-> curFunc]>> \o saved
Leave == saved' = Tail(saved)
Leaving(op) == Head(saved).op = op

Advance == at' = at + 1 /\ UNCHANGED <<prog, phase>>

-----------------------------------------------------------------------------
(***************************************************************************)
(* Sema.                                                                   *)
(***************************************************************************)
Init == /\ prog \in Programs
        /\ at = 1
        /\ phase = "sema"
        /\ scopes = <<NoSymbols>>
        /\ curReturnType = "void"
        /\ genScopes = <<>>
        /\ curFunc = 0
        /\ saved = <<>>
        /\ owner = [i \in DOMAIN prog |-> 0]
        /\ resolved = [i \in DOMAIN prog |-> 0]
        /\ emitted = [i \in DOMAIN prog |-> [fn |-> 0, decl |-> 0]]

SemaAt(op) == phase = "sema" /\ At(op)

(* declare: it is an error if the scope has the name already.              *)
Redeclared == scopes[Len(scopes)][Here.name] # 0

SemaBegin == /\ SemaAt("block")
             /\ scopes' = PushScope(scopes)
             /\ Enter
             /\ Advance
             /\ UNCHANGED <<curReturnType, resolved, genVars>>

SemaDecl == /\ \E op \in {"var", "const", "param", "forward"} : SemaAt(op)
            /\ IF Redeclared THEN Fail("redeclaration")
               ELSE /\ scopes' = SetSymbol(scopes, Here.name, at)
                    /\ Advance
                    /\ UNCHANGED <<saved, curReturnType, resolved, genVars>>

(* Variant: the name is declared in the scope of the body.                 *)
SemaProcInside ==
    /\ SemaAt("proc")
    /\ IF Redeclared THEN Fail("redeclaration")
       ELSE /\ scopes' = SetSymbol(PushScope(scopes), Here.name, at)
            /\ Enter
            /\ curReturnType' = Here.ret
            /\ Advance
            /\ UNCHANGED <<resolved, genVars>>

(* The name goes to the enclosing scope, what follows to a new one.        *)
SemaProc == /\ SemaAt("proc")
            /\ IF Redeclared THEN Fail("redeclaration")
               ELSE /\ scopes' = PushScope(SetSymbol(scopes, Here.name, at))
                    /\ Enter
                    /\ curReturnType' = Here.ret
                    /\ Advance
                    /\ UNCHANGED <<resolved, genVars>>

(* Variants: curReturnType_ is not restored; the scope stays.              *)
SemaEndKeepsReturn ==
    /\ SemaAt("end")
    /\ scopes' = PopScope(scopes)
    /\ Leave
    /\ Advance
    /\ UNCHANGED <<curReturnType, resolved, genVars>>

SemaEndKeepsScope ==
    /\ SemaAt("end")
    /\ scopes' = scopes
    /\ curReturnType' = IF Leaving("proc") THEN Head(saved).ret ELSE curReturnType
    /\ Leave
    /\ Advance
    /\ UNCHANGED <<resolved, genVars>>

SemaEnd == /\ SemaAt("end")
           /\ scopes' = PopScope(scopes)
           /\ curReturnType' = IF Leaving("proc") THEN Head(saved).ret ELSE curReturnType
           /\ Leave
           /\ Advance
           /\ UNCHANGED <<resolved, genVars>>

(* Variant: arguments are not counted.                                     *)
SemaAcceptsAnyCount(d) ==
    LET decl == prog[d] IN
    CASE Here.op = "read" -> TRUE
      [] Here.op \in {"write", "loop"} -> decl.ret = "value"
      [] Here.op = "call"  -> decl.op \in Procedures
      [] Here.op = "apply" -> decl.op \in {"var", "const"} \/ decl.ret = "value"

(* What analyseExpr and analyseStmt ask of the declaration d of the name:  *)
(* nothing of one that is read; a type of one that is written or counts a  *)
(* loop; a procedure of one that is called; of one that is applied, that   *)
(* it be a variable or constant (it is then indexed) or a function.        *)
SemaAccepts(d) ==
    LET decl == prog[d] IN
    CASE Here.op = "read" -> TRUE
      [] Here.op \in {"write", "loop"} -> decl.ret = "value"
      [] Here.op = "call"  -> /\ decl.op \in Procedures
                              /\ Here.n = Len(decl.modes)
      [] Here.op = "apply" -> \/ decl.op \in {"var", "const"}
                              \/ /\ decl.op \in Procedures
                                 /\ decl.ret = "value"
                                 /\ Here.n = Len(decl.modes)

SemaUse == /\ \E op \in Uses : SemaAt(op)
           /\ LET d == Lookup(scopes, Here.name)
              IN IF d = 0 THEN Fail("undefined")
                 ELSE IF ~SemaAccepts(d) THEN Fail("misused")
                 ELSE /\ resolved' = [resolved EXCEPT ![at] = d]
                      /\ Advance
                      /\ UNCHANGED <<saved, scopes, curReturnType, genVars>>

SemaReturn == /\ SemaAt("return")
              /\ IF Here.ret # curReturnType THEN Fail("misused")
                 ELSE /\ Advance
                      /\ UNCHANGED <<saved, semaVars, genVars>>

(* The tree has been read: analyse pops its scope, generate makes main and *)
(* pushes one of its own.                                                  *)
SemaDone == /\ phase = "sema"
            /\ at > Len(prog)
            /\ phase' = "codegen"
            /\ at' = 1
            /\ scopes' = PopScope(scopes)
            /\ genScopes' = <<NoSymbols>>
            /\ UNCHANGED <<prog, saved, curReturnType, resolved,
                           curFunc, owner, emitted>>

-----------------------------------------------------------------------------
(***************************************************************************)
(* Codegen.                                                                *)
(***************************************************************************)
GenAt(op) == phase = "codegen" /\ At(op)

GenBegin == /\ GenAt("block")
            /\ genScopes' = PushScope(genScopes)
            /\ Enter
            /\ Advance
            /\ UNCHANGED <<curFunc, owner, emitted, semaVars>>

(* createEntryAlloca(curFunc_, ...), then setSymbol.                       *)
GenDecl == /\ \E op \in {"var", "const", "param"} : GenAt(op)
           /\ genScopes' = SetSymbol(genScopes, Here.name, at)
           /\ owner' = [owner EXCEPT ![at] = curFunc]
           /\ Advance
           /\ UNCHANGED <<saved, curFunc, emitted, semaVars>>

(* "if (pd->isForward) return": no symbol is set.                          *)
GenForward == /\ GenAt("forward")
              /\ Advance
              /\ UNCHANGED <<saved, genVars, semaVars>>

GenProc == /\ GenAt("proc")
           /\ genScopes' = PushScope(SetSymbol(genScopes, Here.name, at))
           /\ Enter
           /\ curFunc' = at
           /\ Advance
           /\ UNCHANGED <<owner, emitted, semaVars>>

(* Variant: the scope of a body stays.                                     *)
GenEndKeepsScope ==
    /\ GenAt("end")
    /\ genScopes' = genScopes
    /\ curFunc' = IF Leaving("proc") THEN Head(saved).fn ELSE curFunc
    /\ Leave
    /\ Advance
    /\ UNCHANGED <<owner, emitted, semaVars>>

GenEnd == /\ GenAt("end")
          /\ genScopes' = PopScope(genScopes)
          /\ curFunc' = IF Leaving("proc") THEN Head(saved).fn ELSE curFunc
          /\ Leave
          /\ Advance
          /\ UNCHANGED <<owner, emitted, semaVars>>

(* Whether the symbol of d has the alloca or the function that the use     *)
(* takes; an applied name is indexed if it is a variable or a constant.    *)
Provides(d) ==
    LET op == prog[d].op IN
    CASE Here.op \in {"read", "write", "loop"} -> op # "proc"
      [] Here.op = "call"  -> op = "proc"
      [] Here.op = "apply" -> op # "param"

(* A loop variable is dereferenced without a test: it crashes the compiler *)
(* if the name is a function's.                                            *)
GenUse == /\ \E op \in Uses : GenAt(op)
          /\ LET d == Lookup(genScopes, Here.name)
             IN IF d = 0 THEN Fail("undefined late")
                ELSE IF ~Provides(d)
                THEN Fail(IF Here.op = "loop" THEN "crash" ELSE "misused late")
                ELSE /\ emitted' = [emitted EXCEPT ![at] =
                                        [fn |-> curFunc, decl |-> d]]
                     /\ Advance
                     /\ UNCHANGED <<saved, genScopes, curFunc, owner, semaVars>>

GenReturn == /\ GenAt("return")
             /\ emitted' = [emitted EXCEPT ![at] = [fn |-> curFunc, decl |-> 0]]
             /\ Advance
             /\ UNCHANGED <<saved, genScopes, curFunc, owner, semaVars>>

-----------------------------------------------------------------------------
(***************************************************************************)
(* verifyModule (external), on the instructions made for names.            *)
(***************************************************************************)
EmittedUses == {i \in DOMAIN prog : emitted[i].decl # 0}
HasAlloca(d) == prog[d].op \in {"var", "const", "param"}

(* An instruction may only use an alloca of its own function.              *)
OwnAlloca(i) == HasAlloca(emitted[i].decl) => owner[emitted[i].decl] = emitted[i].fn

(* As many arguments as parameters.  An argument is the value of an        *)
(* expression, never the pointer that an OUT parameter is declared as.     *)
FitsCallee(i) ==
    ~HasAlloca(emitted[i].decl) =>
        /\ prog[i].n = Len(prog[emitted[i].decl].modes)
        /\ \A k \in DOMAIN prog[emitted[i].decl].modes :
               prog[emitted[i].decl].modes[k] = "in"

(* main returns a value, and sema lets it return none.                     *)
RetFits(i) ==
    prog[i].op = "return" =>
        LET f == emitted[i].fn
        IN prog[i].ret = IF f = 0 THEN "value" ELSE prog[f].ret

VerifyModule == /\ \A i \in EmittedUses : OwnAlloca(i) /\ FitsCallee(i)
                /\ \A i \in DOMAIN prog : RetFits(i)

GenDone == /\ phase = "codegen"
           /\ at > Len(prog)
           /\ phase' = IF VerifyModule THEN "verified" ELSE "rejected"
           /\ genScopes' = PopScope(genScopes)
           /\ UNCHANGED <<prog, at, saved, semaVars, curFunc, owner, emitted>>

Next == \/ SemaBegin \/ SemaDecl \/ SemaProc \/ SemaEnd \/ SemaUse \/ SemaReturn
        \/ SemaDone
        \/ GenBegin \/ GenDecl \/ GenForward \/ GenProc \/ GenEnd \/ GenUse
        \/ GenReturn \/ GenDone

Spec == Init /\ [][Next]_vars

-----------------------------------------------------------------------------
Positions == 0..Len(prog)
ScopeSet  == [Name -> Positions]
Outcomes  == {"redeclaration", "undefined", "misused",
              "undefined late", "misused late", "crash", "verified", "rejected"}

(* Types, and each pass has as many scopes as handlers are active, and one  *)
(* of its own.                                                             *)
TypeOK ==
          /\ phase = "sema" => Len(scopes) = Len(saved) + 1
          /\ phase = "codegen" => Len(genScopes) = Len(saved) + 1
          /\ at \in 1..(Len(prog) + 1)
          /\ phase \in {"sema", "codegen"} \cup Outcomes
          /\ scopes \in Seq(ScopeSet)
          /\ genScopes \in Seq(ScopeSet)
          /\ curReturnType \in Types
          /\ curFunc \in Positions
          /\ owner \in [DOMAIN prog -> Positions]
          /\ resolved \in [DOMAIN prog -> Positions]
          /\ emitted \in [DOMAIN prog -> [fn : Positions, decl : Positions]]

(***************************************************************************)
(* Lexical scoping, said of the text of the program and not of any stack.  *)
(***************************************************************************)

(* Node i of p lies in the scope that node d belongs to, or deeper inside  *)
(* it.                                                                     *)
InScopeOf(p, d, i) == d < i /\ \A k \in (d + 1)..i : DepthIn(p, k) >= DepthIn(p, d)

(* The declaration that a use of a name at i denotes: the innermost one of *)
(* those whose scope is open and that precede it.  An inner one comes      *)
(* later in the text.                                                      *)
Visible(p, d, i) == /\ d \in DOMAIN p
                    /\ p[d].op \in Declares
                    /\ p[d].name = p[i].name
                    /\ InScopeOf(p, d, i)
Denotes(p, d, i) == Visible(p, d, i) /\ \A e \in DOMAIN p : Visible(p, e, i) => e <= d
Denoted(i) == IF \E d \in DOMAIN prog : Denotes(prog, d, i)
              THEN CHOOSE d \in DOMAIN prog : Denotes(prog, d, i)
              ELSE 0

(* "a name refers to the declaration in the innermost enclosing block that *)
(* contains the declaration" (src/docs/pl11-language-reference.md:861), in *)
(* Sema, with procedures visible in their own body and in nothing before.  *)
SemaIsLexical ==
    phase \in Outcomes =>
    /\ \A i \in DOMAIN prog : resolved[i] # 0 => resolved[i] = Denoted(i)
    /\ phase = "undefined" => Denoted(at) = 0

(* FORWARD is a declaration to one pass only.                              *)
Announced(d) == d # 0 /\ prog[d].op = "forward"

(* The code generator takes a name for the same declaration as Sema does,  *)
(* although it has its own stack and sets its symbols elsewhere, unless    *)
(* that declaration is a FORWARD, which it skips.                          *)
PassesAgree ==
    \A i \in EmittedUses : emitted[i].decl = resolved[i] \/ Announced(resolved[i])

(* What Sema lets pass the code generator finds: no "Undefined" from it,   *)
(* but for what is announced FORWARD.                                      *)
NothingUndefinedLate == phase = "undefined late" => Announced(resolved[at])

(* The function in which codegen emits a RETURN is the procedure against   *)
(* whose type Sema checked it: curFunc_ and curReturnType_ are saved and   *)
(* restored in step.  (In main a RETURN never fits.)                       *)
ReturnsFitTheirFunction ==
    \A i \in DOMAIN prog : emitted[i].fn # 0 => RetFits(i)

(* FORWARD: the procedure it announces can be defined                      *)
(* (src/docs/pl11-language-reference.md:880-893).                          *)
ForwardCanBeDefined ==
    phase = "redeclaration" =>
        ~ /\ Here.op = "proc"
          /\ prog[scopes[Len(scopes)][Here.name]].op = "forward"

(* "Variables declared in the outermost (program-level) block are global   *)
(* and visible throughout the entire program"                              *)
(* (src/docs/pl11-language-reference.md:898): no use of one makes the      *)
(* verifier reject the program.                                            *)
GlobalsAreVisible ==
    \A i \in EmittedUses :
        HasAlloca(emitted[i].decl) /\ DepthIn(prog, emitted[i].decl) = 1 => OwnAlloca(i)

(* A call whose arguments Sema found to fit is a call the verifier         *)
(* accepts, if the procedure has IN parameters only.                       *)
HasOut(d) == "out" \in {prog[d].modes[k] : k \in DOMAIN prog[d].modes}

CallsFit ==
    \A i \in EmittedUses :
        FitsCallee(i) \/ Announced(resolved[i]) \/ HasOut(emitted[i].decl)
=============================================================================
