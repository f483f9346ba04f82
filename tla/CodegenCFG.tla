----------------------------- MODULE CodegenCFG -----------------------------
(***************************************************************************)
(* The basic-block builder of the code generator: Codegen::generate,       *)
(* genBlock, the procedure part of genDecl, and genStmt                    *)
(* (src/src/codegen/pl11_codegen.cpp).                                     *)
(*                                                                         *)
(* genStmt is recursive and keeps the blocks it still has to fill in its   *)
(* C++ locals.  Here that call stack is explicit: work is a stack of items *)
(* that are either a node still to be generated or the rest of a handler   *)
(* that waits for its sub-statement ("endthen" is what an IF does after     *)
(* generating its THEN branch, and so on).  One action is one uninterrupted *)
(* stretch of a handler, between two recursive calls.                      *)
(*                                                                         *)
(* A block of IR is the sequence of its instructions, of which only those  *)
(* that matter for control flow and for the order of effects are kept.     *)
(***************************************************************************)
EXTENDS PL11Ast, FiniteSets

CONSTANTS Name,      \* labels and procedure names
          Expr,      \* names of expressions and effects
          Node,      \* the AST nodes; every child of a node is in Node
          Programs,  \* the top-level blocks to be compiled
          Modulus    \* how many values the integer type of an expression has

ASSUME NodeAssumption == WellFormed(Node, Name, Expr)
ASSUME ModulusAssumption == Modulus \in [Expr -> Nat \ {0}]
ASSUME ProgramsAssumption ==
    /\ Programs \subseteq Node
    /\ \A p \in Programs : p.kind = "Block"

VARIABLES
    prog,        \* the program being compiled
    blocks,      \* every BasicBlock, in order of creation: its parent function
                 \* and its instructions; a block is denoted by its position
    funcs,       \* every Function, in order of creation: the declaration it
                 \* comes from, <<>> for the main that wraps the program
    insert,      \* builder_.GetInsertBlock()
    curFunc,     \* curFunc_
    labels,      \* labels_: the block of each label, 0 when there is none
    scopes,      \* scopes_: the function each name denotes, 0 when none
    work,        \* the C++ call stack and what is left of the statement lists
    status,      \* what generate() has come to
    pending,     \* history: blocks a GOTO created that no label has placed yet
    relabelled   \* history: blocks that a label has placed a second time

vars == <<prog, blocks, funcs, insert, curFunc, labels, scopes, work, status,
          pending, relabelled>>

(***************************************************************************)
(* Instructions.  arg holds the callee of a call or the case values of a   *)
(* switch; to holds the successors of a terminator.                        *)
(***************************************************************************)
Instruction(op, e, arg, to) == [op |-> op, e |-> e, arg |-> arg, to |-> to]

Eval(e)            == Instruction("eval", <<e>>, <<>>, <<>>)
Step(v)            == Instruction("step", <<v>>, <<>>, <<>>)
CallTo(f)          == Instruction("call", <<>>, <<f>>, <<>>)
Br(b)              == Instruction("br", <<>>, <<>>, <<b>>)
CondBr(e, yes, no) == Instruction("condbr", <<e>>, <<>>, <<yes, no>>)
Switch(e, default) == Instruction("switch", <<e>>, <<>>, <<default>>)
Ret(value)         == Instruction("ret", value, <<>>, <<>>)
RetVoid            == Instruction("retvoid", <<>>, <<>>, <<>>)

Terminators == {"br", "condbr", "switch", "ret", "retvoid"}
Ops == {"eval", "step", "call"} \cup Terminators

IsTerminator(i) == i.op \in Terminators

Evals(es) == [i \in 1..Len(es) |-> Eval(es[i])]

(***************************************************************************)
(* The IRBuilder and BasicBlock primitives.                                *)
(***************************************************************************)

(* GetInsertBlock()->getTerminator() # nullptr: LLVM looks at the last     *)
(* instruction only.                                                       *)
Terminated(bs, b) == /\ bs[b].ins # <<>>
                     /\ IsTerminator(bs[b].ins[Len(bs[b].ins)])

(* BasicBlock::Create(ctx_, name, fn), n times.                            *)
Create(bs, n, fn) == bs \o [i \in 1..n |-> [fn |-> fn, ins |-> <<>>]]

Fresh(i) == Len(blocks) + i

(* Append instructions at the end of block b.                              *)
Emit(bs, b, instrs) == [bs EXCEPT ![b].ins = @ \o instrs]

(* "if (!builder_.GetInsertBlock()->getTerminator()) CreateBr(to)"         *)
FallTo(bs, b, to) == IF Terminated(bs, b) THEN bs ELSE Emit(bs, b, <<Br(to)>>)

(* sw->addCase(value, to) on the switch at position p of block b.          *)
AddCase(bs, b, p, value, to) ==
    LET sw == bs[b].ins[p]
    IN [bs EXCEPT ![b].ins[p] = [sw EXCEPT !.arg = Append(sw.arg, value),
                                           !.to  = Append(sw.to, to)]]

(***************************************************************************)
(* The work stack.  A frame remembers its node, the blocks it already      *)
(* filled (to), and the blocks it has created, has branched to and still   *)
(* must make the insertion point (owed).                                   *)
(***************************************************************************)
Frame(k, s, to, owed) == [k |-> k, s |-> s, to |-> to, owed |-> owed]
Gen(s)      == Frame("gen", s, <<>>, <<>>)
GenAll(seq) == [i \in 1..Len(seq) |-> Gen(seq[i])]

Top == Head(work)

AtNode(kinds) == /\ status = "generating"
                 /\ work # <<>>
                 /\ Top.k = "gen"
                 /\ Top.s.kind \in kinds

AtFrame(k) == /\ status = "generating"
              /\ work # <<>>
              /\ Top.k = k

(* Replace the item on top of the stack.                                   *)
Continue(items) == work' = items \o Tail(work)

LabelsUnchanged   == UNCHANGED <<labels, pending, relabelled>>
FunctionUnchanged == UNCHANGED <<funcs, curFunc>>
OnlyBlocks == /\ LabelsUnchanged
              /\ FunctionUnchanged
              /\ UNCHANGED <<prog, scopes, status>>

(***************************************************************************)
(* Scopes.                                                                 *)
(***************************************************************************)
NoLabels == [l \in Name |-> 0]
NoSymbols == [n \in Name |-> 0]

PushScope(sc)       == Append(sc, NoSymbols)
PopScope(sc)        == SubSeq(sc, 1, Len(sc) - 1)
SetSymbol(sc, n, f) == [sc EXCEPT ![Len(sc)][n] = f]

(* lookupSymbol: the innermost scope that has the name; 0 if none has.     *)
Declaring(sc, n) == {i \in DOMAIN sc : sc[i][n] # 0}
LookupSymbol(sc, n) ==
    IF Declaring(sc, n) = {} THEN 0
    ELSE sc[CHOOSE i \in Declaring(sc, n) :
                \A j \in Declaring(sc, n) : j <= i][n]

-----------------------------------------------------------------------------
(* generate, up to its call of genBlock: main, its entry block, a scope.   *)
Init == /\ prog \in Programs
        /\ blocks = <<[fn |-> 1, ins |-> <<>>]>>
        /\ funcs = << <<>> >>
        /\ insert = 1
        /\ curFunc = 1
        /\ labels = NoLabels
        /\ scopes = <<NoSymbols>>
        /\ work = <<Gen(prog)>>
        /\ status = "generating"
        /\ pending = {}
        /\ relabelled = {}

(* genBlock: a scope around the declarations and then the statements.      *)
GenBlock ==
    /\ AtNode({"Block"})
    /\ scopes' = PushScope(scopes)
    /\ Continue(GenAll(Top.s.decls) \o GenAll(Top.s.stmts)
                  \o <<Frame("endblock", Top.s, <<>>, <<>>)>>)
    /\ LabelsUnchanged /\ FunctionUnchanged
    /\ UNCHANGED <<prog, blocks, insert, status>>

EndBlock ==
    /\ AtFrame("endblock")
    /\ scopes' = PopScope(scopes)
    /\ Continue(<<>>)
    /\ LabelsUnchanged /\ FunctionUnchanged
    /\ UNCHANGED <<prog, blocks, insert, status>>

(* Assign, Print, Asm, Push and Pop stay within the insertion block.       *)
GenStraightLine ==
    /\ AtNode(StraightLine)
    /\ blocks' = Emit(blocks, insert, <<Eval(Top.s.expr)>>)
    /\ Continue(<<>>)
    /\ UNCHANGED insert
    /\ OnlyBlocks

(* ProcCallStmt; an unknown name throws CodegenError.                      *)
GenCall ==
    /\ AtNode({"Call"})
    /\ LET f == LookupSymbol(scopes, Top.s.name) IN
         \/ /\ f # 0
            /\ blocks' = Emit(blocks, insert, <<CallTo(f)>>)
            /\ Continue(<<>>)
            /\ UNCHANGED status
         \/ /\ f = 0
            /\ status' = "error"
            /\ UNCHANGED <<blocks, work>>
    /\ LabelsUnchanged /\ FunctionUnchanged
    /\ UNCHANGED <<prog, scopes, insert>>

(* Variant: an IF with ELSE that fills the merge block with the ELSE part.  *)
GenIfSharedBlock ==
    /\ AtNode({"If"})
    /\ blocks' = Emit(Create(blocks, 2, curFunc), insert,
                      <<CondBr(Top.s.expr, Fresh(1), Fresh(2))>>)
    /\ insert' = Fresh(1)
    /\ Continue(<<Gen(Top.s.stmts[1]),
                  Frame("endthen", Top.s, <<>>, <<Fresh(2), Fresh(2)>>)>>)
    /\ OnlyBlocks

GenIf ==
    /\ AtNode({"If"})
    /\ LET s       == Top.s
           thenBB  == Fresh(1)
           mergeBB == Fresh(2)
           n       == IF s.alt = <<>> THEN 2 ELSE 3
           elseBB  == IF s.alt = <<>> THEN mergeBB ELSE Fresh(3)
           owed    == IF s.alt = <<>> THEN <<mergeBB>> ELSE <<mergeBB, elseBB>>
       IN /\ blocks' = Emit(Create(blocks, n, curFunc), insert,
                            <<CondBr(s.expr, thenBB, elseBB)>>)
          /\ insert' = thenBB
          /\ Continue(<<Gen(s.stmts[1]), Frame("endthen", s, <<>>, owed)>>)
    /\ OnlyBlocks

(* Variant: the merge block is entered without a branch from the THEN part. *)
EndThenNoBranch ==
    /\ AtFrame("endthen")
    /\ Top.s.alt = <<>>
    /\ insert' = Top.owed[1]
    /\ Continue(<<>>)
    /\ UNCHANGED blocks
    /\ OnlyBlocks

EndThen ==
    /\ AtFrame("endthen")
    /\ LET s       == Top.s
           mergeBB == Top.owed[1]
       IN /\ blocks' = FallTo(blocks, insert, mergeBB)
          /\ \/ /\ s.alt = <<>>
                /\ insert' = mergeBB
                /\ Continue(<<>>)
             \/ /\ s.alt # <<>>
                /\ insert' = Top.owed[2]
                /\ Continue(<<Gen(s.alt[1]),
                              Frame("endelse", s, <<>>, <<mergeBB>>)>>)
    /\ OnlyBlocks

EndElse ==
    /\ AtFrame("endelse")
    /\ blocks' = FallTo(blocks, insert, Top.owed[1])
    /\ insert' = Top.owed[1]
    /\ Continue(<<>>)
    /\ OnlyBlocks

GenWhile ==
    /\ AtNode({"While"})
    /\ LET s      == Top.s
           condBB == Fresh(1)
           bodyBB == Fresh(2)
           exitBB == Fresh(3)
           bs     == Emit(Create(blocks, 3, curFunc), insert, <<Br(condBB)>>)
       IN /\ blocks' = Emit(bs, condBB, <<CondBr(s.expr, bodyBB, exitBB)>>)
          /\ insert' = bodyBB
          /\ Continue(<<Gen(s.stmts[1]),
                        Frame("endwhile", s, <<condBB>>, <<exitBB>>)>>)
    /\ OnlyBlocks

(* Variant: UNTIL leaves the loop when it is false.                         *)
EndWhileInverted ==
    /\ AtFrame("endwhile")
    /\ Top.s.until # <<>>
    /\ blocks' = Emit(FallTo(Create(blocks, 1, curFunc), insert, Fresh(1)),
                      Fresh(1), <<CondBr(Top.s.until[1], Top.to[1], Top.owed[1])>>)
    /\ insert' = Top.owed[1]
    /\ Continue(<<>>)
    /\ OnlyBlocks

EndWhile ==
    /\ AtFrame("endwhile")
    /\ LET s       == Top.s
           condBB  == Top.to[1]
           exitBB  == Top.owed[1]
           untilBB == Fresh(1)
       IN /\ \/ /\ s.until = <<>>
                /\ blocks' = FallTo(blocks, insert, condBB)
             \/ /\ s.until # <<>>
                /\ blocks' = Emit(FallTo(Create(blocks, 1, curFunc), insert, untilBB),
                                  untilBB, <<CondBr(s.until[1], exitBB, condBB)>>)
          /\ insert' = exitBB
    /\ Continue(<<>>)
    /\ OnlyBlocks

(* end, step and start are evaluated in this order, once, before the loop. *)
GenFor ==
    /\ AtNode({"For"})
    /\ LET s      == Top.s
           condBB == Fresh(1)
           bodyBB == Fresh(2)
           exitBB == Fresh(3)
           bs     == Emit(Create(blocks, 3, curFunc), insert,
                          Evals(<<s.end>> \o s.step \o s.start) \o <<Br(condBB)>>)
       IN /\ blocks' = Emit(bs, condBB, <<CondBr(s.expr, bodyBB, exitBB)>>)
          /\ insert' = bodyBB
          /\ Continue(<<Gen(s.stmts[1]),
                        Frame("endfor", s, <<condBB>>, <<exitBB>>)>>)
    /\ OnlyBlocks

EndFor ==
    /\ AtFrame("endfor")
    /\ LET s       == Top.s
           condBB  == Top.to[1]
           exitBB  == Top.owed[1]
           untilBB == Fresh(1)
           stepBB  == Fresh(2)
       IN /\ \/ /\ s.until = <<>>
                /\ blocks' = FallTo(Emit(blocks, insert, <<Step(s.expr)>>),
                                    insert, condBB)
             \/ /\ s.until # <<>>
                /\ blocks' =
                     Emit(Emit(FallTo(Create(blocks, 2, curFunc), insert, untilBB),
                               untilBB, <<CondBr(s.until[1], exitBB, stepBB)>>),
                          stepBB, <<Step(s.expr), Br(condBB)>>)
          /\ insert' = exitBB
    /\ Continue(<<>>)
    /\ OnlyBlocks

GenDo ==
    /\ AtNode({"Do"})
    /\ LET s      == Top.s
           bodyBB == Fresh(1)
       IN /\ blocks' = Emit(Create(blocks, 1, curFunc), insert, <<Br(bodyBB)>>)
          /\ insert' = bodyBB
          /\ Continue(GenAll(s.stmts) \o <<Frame("enddo", s, <<bodyBB>>, <<>>)>>)
    /\ OnlyBlocks

(* With UNTIL: do.until and do.exit; without: the back edge and do.after.  *)
EndDo ==
    /\ AtFrame("enddo")
    /\ LET s      == Top.s
           bodyBB == Top.to[1]
       IN \/ /\ s.until = <<>>
             /\ blocks' = Create(FallTo(blocks, insert, bodyBB), 1, curFunc)
             /\ insert' = Fresh(1)
          \/ /\ s.until # <<>>
             /\ blocks' = Emit(FallTo(Create(blocks, 2, curFunc), insert, Fresh(1)),
                               Fresh(1), <<CondBr(s.until[1], Fresh(2), bodyBB)>>)
             /\ insert' = Fresh(2)
    /\ Continue(<<>>)
    /\ OnlyBlocks

GenRepeat ==
    /\ AtNode({"Repeat"})
    /\ LET s      == Top.s
           bodyBB == Fresh(1)
           exitBB == Fresh(2)
       IN /\ blocks' = Emit(Create(blocks, 2, curFunc), insert, <<Br(bodyBB)>>)
          /\ insert' = bodyBB
          /\ Continue(GenAll(s.stmts) \o
                        <<Frame("endrepeat", s, <<bodyBB>>, <<exitBB>>)>>)
    /\ OnlyBlocks

(* The condition is emitted at the insertion point, terminated or not.     *)
EndRepeat ==
    /\ AtFrame("endrepeat")
    /\ blocks' = Emit(blocks, insert,
                      <<CondBr(Top.s.expr, Top.owed[1], Top.to[1])>>)
    /\ insert' = Top.owed[1]
    /\ Continue(<<>>)
    /\ OnlyBlocks

(***************************************************************************)
(* CASE.  The switch is created with its default only; each arm then adds  *)
(* its case to it.  An arm's frame says where the switch is and which arm  *)
(* it stands for: to = <<block, position, index, mergeBB>>.  The constant  *)
(* of an arm becomes one of the selector's type: the bits that do not fit  *)
(* are dropped.                                                            *)
(***************************************************************************)
Truncated(e, v) == v % Modulus[e]
CaseValues(s)   == [i \in DOMAIN s.vals |-> Truncated(s.expr, s.vals[i])]

GenCase ==
    /\ AtNode({"Case"})
    /\ LET s         == Top.s
           defaultBB == Fresh(1)
           mergeBB   == Fresh(2)
           at        == Len(blocks[insert].ins) + 1
       IN /\ blocks' = Emit(Create(blocks, 2, curFunc), insert,
                            <<Switch(s.expr, defaultBB)>>)
          /\ Continue([i \in 1..Len(s.stmts) |->
                           Frame("arm", s, <<insert, at, i, mergeBB>>, <<>>)]
                      \o <<Frame("endcase", s, <<>>, <<defaultBB, mergeBB>>)>>)
    /\ UNCHANGED insert
    /\ OnlyBlocks

GenArm ==
    /\ AtFrame("arm")
    /\ LET s     == Top.s
           i     == Top.to[3]
           armBB == Fresh(1)
       IN /\ blocks' = AddCase(Create(blocks, 1, curFunc), Top.to[1], Top.to[2],
                               CaseValues(s)[i], armBB)
          /\ insert' = armBB
          /\ Continue(<<Gen(s.stmts[i]), Frame("endarm", s, <<Top.to[4]>>, <<>>)>>)
    /\ OnlyBlocks

EndArm ==
    /\ AtFrame("endarm")
    /\ blocks' = FallTo(blocks, insert, Top.to[1])
    /\ Continue(<<>>)
    /\ UNCHANGED insert
    /\ OnlyBlocks

(* Variant: case.default is left empty.                                     *)
EndCaseNoDefault ==
    /\ AtFrame("endcase")
    /\ insert' = Top.owed[2]
    /\ Continue(<<>>)
    /\ UNCHANGED blocks
    /\ OnlyBlocks

EndCase ==
    /\ AtFrame("endcase")
    /\ blocks' = Emit(blocks, Top.owed[1], <<Br(Top.owed[2])>>)
    /\ insert' = Top.owed[2]
    /\ Continue(<<>>)
    /\ OnlyBlocks

(* Variants: no block is opened behind a RETURN; one is used, not created.  *)
GenReturnNoDeadBlock ==
    /\ AtNode({"Return"})
    /\ blocks' = Emit(blocks, insert, <<RetVoid>>)
    /\ Continue(<<>>)
    /\ UNCHANGED insert
    /\ OnlyBlocks
GenReturnLostBlock ==
    /\ AtNode({"Return"})
    /\ blocks' = Emit(blocks, insert, <<RetVoid>>)
    /\ insert' = Fresh(1)
    /\ Continue(<<>>)
    /\ OnlyBlocks

(* RETURN ends the block and opens "unreachable".                          *)
GenReturn ==
    /\ AtNode({"Return"})
    /\ LET ret == IF Top.s.value = <<>> THEN RetVoid ELSE Ret(Top.s.value)
       IN blocks' = Create(Emit(blocks, insert, <<ret>>), 1, curFunc)
    /\ insert' = Fresh(1)
    /\ Continue(<<>>)
    /\ OnlyBlocks

(* Variant: no block is opened behind a GOTO.                               *)
GenGotoNoDeadBlock ==
    /\ AtNode({"Goto"})
    /\ labels[Top.s.name] # 0
    /\ blocks' = Emit(blocks, insert, <<Br(labels[Top.s.name])>>)
    /\ Continue(<<>>)
    /\ UNCHANGED insert
    /\ OnlyBlocks

(* GOTO creates the block of a label that labels_ does not have, and opens *)
(* "aftergoto".                                                            *)
GenGoto ==
    /\ AtNode({"Goto"})
    /\ LET l == Top.s.name IN
         \/ /\ labels[l] # 0
            /\ blocks' = Create(Emit(blocks, insert, <<Br(labels[l])>>), 1, curFunc)
            /\ insert' = Fresh(1)
            /\ UNCHANGED <<labels, pending>>
         \/ /\ labels[l] = 0
            /\ blocks' = Emit(Create(blocks, 2, curFunc), insert, <<Br(Fresh(1))>>)
            /\ labels' = [labels EXCEPT ![l] = Fresh(1)]
            /\ pending' = pending \cup {Fresh(1)}
            /\ insert' = Fresh(2)
    /\ Continue(<<>>)
    /\ FunctionUnchanged
    /\ UNCHANGED <<prog, scopes, status, relabelled>>

(* Variant: control does not fall into a label from the statement before.   *)
GenLabelNoFallThrough ==
    /\ AtNode({"Label"})
    /\ labels[Top.s.name] # 0
    /\ insert' = labels[Top.s.name]
    /\ pending' = pending \ {labels[Top.s.name]}
    /\ Continue(<<Gen(Top.s.stmts[1])>>)
    /\ FunctionUnchanged
    /\ UNCHANGED <<prog, blocks, labels, scopes, status, relabelled>>

(* A label makes the block labels_ has for it, or a new one, the insertion *)
(* point, whatever that block already holds.                               *)
GenLabel ==
    /\ AtNode({"Label"})
    /\ LET l == Top.s.name IN
         \/ /\ labels[l] # 0
            /\ blocks' = FallTo(blocks, insert, labels[l])
            /\ insert' = labels[l]
            /\ pending' = pending \ {labels[l]}
            /\ relabelled' = IF labels[l] \in pending THEN relabelled
                             ELSE relabelled \cup {labels[l]}
            /\ UNCHANGED labels
         \/ /\ labels[l] = 0
            /\ blocks' = FallTo(Create(blocks, 1, curFunc), insert, Fresh(1))
            /\ insert' = Fresh(1)
            /\ labels' = [labels EXCEPT ![l] = Fresh(1)]
            /\ UNCHANGED <<pending, relabelled>>
    /\ Continue(<<Gen(Top.s.stmts[1])>>)
    /\ FunctionUnchanged
    /\ UNCHANGED <<prog, scopes, status>>

(* Variant: labels_ is not cleared for the body.                            *)
GenProcKeepsLabels ==
    /\ AtNode({"Proc"})
    /\ ~Top.s.forward
    /\ LET s  == Top.s
           fn == Len(funcs) + 1
       IN /\ funcs' = Append(funcs, <<s>>)
          /\ scopes' = PushScope(SetSymbol(scopes, s.name, fn))
          /\ blocks' = Create(blocks, 1, fn)
          /\ insert' = Fresh(1)
          /\ curFunc' = fn
          /\ Continue(GenAll(s.decls) \o GenAll(s.stmts)
                        \o <<Frame("endproc", s, <<curFunc>>, <<insert>>)>>)
    /\ UNCHANGED <<prog, status, labels, pending, relabelled>>

(***************************************************************************)
(* A procedure declaration.  FORWARD does nothing.  Otherwise the function *)
(* is created and named in the current scope, labels_ is cleared, and the  *)
(* body is generated in its own entry block, in a scope of its own.  The   *)
(* parameters' allocas and stores go to that block and are left out.       *)
(***************************************************************************)
GenProc ==
    /\ AtNode({"Proc"})
    /\ ~Top.s.forward
    /\ LET s  == Top.s
           fn == Len(funcs) + 1
       IN /\ funcs' = Append(funcs, <<s>>)
          /\ scopes' = PushScope(SetSymbol(scopes, s.name, fn))
          /\ blocks' = Create(blocks, 1, fn)
          /\ insert' = Fresh(1)
          /\ curFunc' = fn
          /\ labels' = NoLabels
          /\ Continue(GenAll(s.decls) \o GenAll(s.stmts)
                        \o <<Frame("endproc", s, <<curFunc>>, <<insert>>)>>)
    /\ UNCHANGED <<prog, status, pending, relabelled>>

GenForward ==
    /\ AtNode({"Proc"})
    /\ Top.s.forward
    /\ Continue(<<>>)
    /\ UNCHANGED <<blocks, insert>>
    /\ OnlyBlocks

(* The default return, popScope, and the caller's function and insertion   *)
(* point again.  labels_ stays as the body left it.                        *)
DefaultReturn(s) == IF s.ret = "void" THEN RetVoid ELSE Ret(<<>>)

(* Variant: no default return.                                              *)
EndProcNoReturn ==
    /\ AtFrame("endproc")
    /\ scopes' = PopScope(scopes)
    /\ curFunc' = Top.to[1]
    /\ insert' = Top.owed[1]
    /\ Continue(<<>>)
    /\ LabelsUnchanged
    /\ UNCHANGED <<prog, blocks, funcs, status>>

EndProc ==
    /\ AtFrame("endproc")
    /\ blocks' = IF Terminated(blocks, insert) THEN blocks
                 ELSE Emit(blocks, insert, <<DefaultReturn(Top.s)>>)
    /\ scopes' = PopScope(scopes)
    /\ curFunc' = Top.to[1]
    /\ insert' = Top.owed[1]
    /\ Continue(<<>>)
    /\ LabelsUnchanged
    /\ UNCHANGED <<prog, funcs, status>>

(***************************************************************************)
(* verifyModule, as far as control flow goes: external, LLVM's Verifier.   *)
(***************************************************************************)
ClosedOnce(ins) == /\ ins # <<>>
                   /\ \A i \in DOMAIN ins : IsTerminator(ins[i]) <=> i = Len(ins)

StaysInFunction(bs, b) ==
    \A i \in DOMAIN bs[b].ins : \A j \in DOMAIN bs[b].ins[i].to :
        bs[bs[b].ins[i].to[j]].fn = bs[b].fn

Distinct(seq) == \A i, j \in DOMAIN seq : i # j => seq[i] # seq[j]

(* A procedure returns nothing, a function a value.  main returns i32: its *)
(* one return that fits is the 0 that generate adds, as the value of a     *)
(* RETURN is a word.                                                       *)
ReturnFits(fn, ins) ==
    LET last == ins[Len(ins)] IN
    /\ last.op = "retvoid" => funcs[fn] # <<>> /\ funcs[fn][1].ret = "void"
    /\ last.op = "ret"     => IF funcs[fn] = <<>> THEN last.e = <<>>
                              ELSE funcs[fn][1].ret = "value"

VerifyModule(bs) ==
    \A b \in DOMAIN bs :
        /\ ClosedOnce(bs[b].ins)
        /\ StaysInFunction(bs, b)
        /\ ReturnFits(bs[b].fn, bs[b].ins)
        /\ bs[b].ins[Len(bs[b].ins)].op = "switch"
             => Distinct(bs[b].ins[Len(bs[b].ins)].arg)

(* The rest of generate: "return 0" if main is still open, then verify.    *)
Finish ==
    /\ status = "generating"
    /\ work = <<>>
    /\ blocks' = IF Terminated(blocks, insert) THEN blocks
                 ELSE Emit(blocks, insert, <<Ret(<<>>)>>)
    /\ scopes' = PopScope(scopes)
    /\ status' = IF VerifyModule(blocks') THEN "verified" ELSE "rejected"
    /\ LabelsUnchanged /\ FunctionUnchanged
    /\ UNCHANGED <<prog, insert, work>>

Next == \/ GenBlock \/ EndBlock \/ GenStraightLine \/ GenCall
        \/ GenIf \/ EndThen \/ EndElse
        \/ GenWhile \/ EndWhile \/ GenFor \/ EndFor \/ GenDo \/ EndDo
        \/ GenRepeat \/ EndRepeat
        \/ GenCase \/ GenArm \/ EndArm \/ EndCase
        \/ GenReturn \/ GenGoto \/ GenLabel
        \/ GenProc \/ GenForward \/ EndProc \/ Finish

Spec == Init /\ [][Next]_vars

-----------------------------------------------------------------------------
(***************************************************************************)
(* Types.                                                                  *)
(***************************************************************************)
InstructionSet == [op : Ops, e : Optional(Expr), arg : Seq(Nat), to : Seq(Nat)]
BlockSet == [fn : Nat, ins : Seq(InstructionSet)]

FrameKinds == {"gen", "endblock", "endthen", "endelse", "endwhile", "endfor",
               "enddo", "endrepeat", "arm", "endarm", "endcase", "endproc"}
FrameSet == [k : FrameKinds, s : Node, to : Seq(Nat), owed : Seq(Nat)]

TypeOK ==
    /\ prog \in Programs
    /\ blocks \in Seq(BlockSet)
    /\ funcs \in Seq(Optional(Node))
    /\ insert \in DOMAIN blocks
    /\ curFunc \in DOMAIN funcs
    /\ labels \in [Name -> Nat]
    /\ scopes \in Seq([Name -> Nat])
    /\ work \in Seq(FrameSet)
    /\ status \in {"generating", "verified", "rejected", "error"}
    /\ pending \subseteq Nat
    /\ relabelled \subseteq Nat

(***************************************************************************)
(* What the builder owes the IR.                                           *)
(***************************************************************************)
HasTerminator(b) == \E i \in DOMAIN blocks[b].ins : IsTerminator(blocks[b].ins[i])

OwedBy(item) == {item.owed[i] : i \in DOMAIN item.owed}
Owed == UNION {OwedBy(work[i]) : i \in DOMAIN work}

(* Nothing is ever emitted behind a terminator, although most handlers     *)
(* emit without asking whether the insertion block is already closed       *)
(* (EndRepeat, GenReturn, the step of a FOR without UNTIL...).  The only   *)
(* way to do it is to define a label a second time.                        *)
NothingAfterTerminator ==
    \A b \in DOMAIN blocks \ relabelled : \A i \in DOMAIN blocks[b].ins :
        IsTerminator(blocks[b].ins[i]) => i = Len(blocks[b].ins)

(* A block without a terminator is never forgotten: it is where code is    *)
(* being emitted, or some handler still on the C++ stack will come back to *)
(* it, or it belongs to a label that a GOTO has announced.                 *)
OpenBlocksAreOwed ==
    \A b \in DOMAIN blocks :
        HasTerminator(b) \/ b = insert \/ b \in Owed \/ b \in pending

(* Two handlers never wait for the same block, and none waits for the      *)
(* block that is being filled: otherwise the code of one statement would   *)
(* land in the middle of another.                                          *)
OwedToOneHandler ==
    /\ insert \notin Owed
    /\ \A i, j \in DOMAIN work :
          i # j => OwedBy(work[i]) \cap OwedBy(work[j]) = {}

(* When generate() ends, whatever the program, the only blocks left        *)
(* without a terminator are those of labels that no statement carries.     *)
OnlyUnresolvedLabelsStayOpen ==
    status \in {"verified", "rejected"} =>
        \A b \in DOMAIN blocks : HasTerminator(b) \/ b \in pending

(* A RETURN reached while generating main, which returns i32 (Sema lets    *)
(* one without a value pass), or of the other kind than its procedure; two *)
(* case values that are the same in the selector's type.                   *)
MisplacedReturn ==
    \E b \in DOMAIN blocks : /\ blocks[b].ins # <<>>
                             /\ ~ReturnFits(blocks[b].fn, blocks[b].ins)
RepeatedCase ==
    \E b \in DOMAIN blocks : \E i \in DOMAIN blocks[b].ins :
        /\ blocks[b].ins[i].op = "switch"
        /\ ~Distinct(blocks[b].ins[i].arg)

(* verifyModule rejects the module for a reason the programmer can be told *)
(* of: a label that is missing or defined twice, a RETURN that does not    *)
(* fit, a repeated case value.  Control flow alone never makes it fail.    *)
RejectionIsExplained ==
    status = "rejected" =>
        pending # {} \/ relabelled # {} \/ MisplacedReturn \/ RepeatedCase

(* labels_ is "function-scoped" (src/src/codegen/pl11_codegen.h:87): no    *)
(* branch leaves the function its block belongs to.                        *)
BranchesStayInFunction ==
    \A b \in DOMAIN blocks : StaysInFunction(blocks, b)

(***************************************************************************)
(* Procedures nest, and labels_ is cleared only when one is entered: what  *)
(* a finished procedure leaves in labels_ is still there when generation   *)
(* of the procedure around it goes on.  So branches stay in their function *)
(* only in programs that use no label at two depths of nesting, which is   *)
(* what LabelsApart says: R holds the nodes of a program with the depths   *)
(* at which they occur, and depth the one depth of each label.  Procedures *)
(* at the same depth may share labels.                                     *)
(***************************************************************************)
Children(s) ==
    (IF s.kind \in {"If", "While", "For", "Do", "Repeat", "Case", "Label", "Block", "Proc"}
     THEN {s.stmts[i] : i \in DOMAIN s.stmts} ELSE {})
    \cup (IF s.kind = "If" THEN {s.alt[i] : i \in DOMAIN s.alt} ELSE {})
    \cup (IF s.kind \in {"Block", "Proc"} THEN {s.decls[i] : i \in DOMAIN s.decls} ELSE {})

Inside(s, n) == IF s.kind = "Proc" THEN n + 1 ELSE n

LabelsApart(R, depth) ==
    \A x \in R : LET s == x[1]
                     n == x[2]
                 IN /\ \A c \in Children(s) : <<c, Inside(s, n)>> \in R
                    /\ s.kind \in {"Goto", "Label"} => depth[s.name] = n

(***************************************************************************)
(* Legal programs.  A reading A of a program says where each node stands   *)
(* and what it holds: A.at has the nodes, each with the contexts in which  *)
(* it occurs; A.labels[s] are the labels that s defines and A.gotos[s]     *)
(* those that its GOTOs name, in the procedures declared in s left out;    *)
(* A.depth[l] is the one depth of nesting at which label l is used.        *)
(***************************************************************************)
Context == [depth  : Nat,             \* how many procedures are around the node
            owner  : Optional(Node),  \* the innermost of them, <<>> for main
            names  : SUBSET Name,     \* the procedures that a CALL can name
            scopes : Nat \ {0}]       \* how many scopes are open

Outermost == [depth |-> 0, owner |-> <<>>, names |-> {}, scopes |-> 1]

HasBody(d) == d.kind = "Proc" /\ ~d.forward
Statement(s) == /\ s.kind # "Proc"
                /\ s.kind = "Block" => \A i \in DOMAIN s.decls : ~HasBody(s.decls[i])

(* A procedure can be called from its own body on; FORWARD names nothing.  *)
NamedBefore(s, i) == {s.decls[j].name : j \in {k \in DOMAIN s.decls :
                                                   k < i /\ HasBody(s.decls[k])}}
ContextIn(s, c, i) ==
    LET own == s.kind = "Proc"
    IN [depth  |-> IF own THEN c.depth + 1 ELSE c.depth,
        owner  |-> IF own THEN <<s>> ELSE c.owner,
        names  |-> c.names \cup (IF own THEN {s.name} ELSE {}) \cup NamedBefore(s, i),
        scopes |-> c.scopes + 1]

(* Where the children stand.  Only a procedure and the program itself      *)
(* declare procedures that have a body: genDecl clears labels_, so one in  *)
(* a block amid the statements makes the labels around it be forgotten.    *)
ChildrenPlaced(A, s, c) ==
    CASE s.kind = "Block" \/ HasBody(s) ->
           /\ \A i \in DOMAIN s.decls : /\ s.decls[i].kind = "Proc"
                                        /\ <<s.decls[i], ContextIn(s, c, i)>> \in A.at
           /\ \A i \in DOMAIN s.stmts :
                 /\ Statement(s.stmts[i])
                 /\ <<s.stmts[i], ContextIn(s, c, Len(s.decls) + 1)>> \in A.at
      [] s.kind = "Proc" /\ s.forward -> Children(s) = {}
      [] OTHER -> \A d \in Children(s) : Statement(d) /\ <<d, c>> \in A.at

(* A label is defined once, and each GOTO has one in its own body.         *)
Resolved(A, s) ==
    \A i \in DOMAIN s.stmts : \A l \in A.gotos[s.stmts[i]] :
        \E j \in DOMAIN s.stmts : l \in A.labels[s.stmts[j]]

LabelsPlaced(A, s, c) ==
    /\ A.labels[s] = IF s.kind = "Proc" THEN {}
                     ELSE (IF s.kind = "Label" THEN {s.name} ELSE {})
                          \cup UNION {A.labels[d] : d \in Children(s)}
    /\ A.gotos[s] = IF s.kind = "Proc" THEN {}
                    ELSE (IF s.kind = "Goto" THEN {s.name} ELSE {})
                         \cup UNION {A.gotos[d] : d \in Children(s)}
    /\ \A l \in A.labels[s] \cup A.gotos[s] : A.depth[l] = c.depth
    /\ s.kind \in {"Do", "Repeat", "Case", "Block", "Proc"} =>
          \A i, j \in DOMAIN s.stmts :
              i # j => A.labels[s.stmts[i]] \cap A.labels[s.stmts[j]] = {}
    /\ s.kind = "If" => \A i \in DOMAIN s.alt :
          A.labels[s.stmts[1]] \cap A.labels[s.alt[i]] = {}
    /\ s.kind = "Label" => s.name \notin A.labels[s.stmts[1]]
    /\ HasBody(s) => Resolved(A, s)

(* What else a node must be: a RETURN stands in a procedure, which it      *)
(* fits, a CALL names a procedure, the values of a CASE differ in the      *)
(* selector's type.                                                        *)
Admitted(s, c) ==
    /\ s.kind = "Return" => /\ c.owner # <<>>
                            /\ c.owner[1].ret = IF s.value = <<>> THEN "void"
                                                ELSE "value"
    /\ s.kind = "Call" => s.name \in c.names
    /\ s.kind = "Case" => Distinct(CaseValues(s))

Reading(A) ==
    /\ A.at \subseteq Node \X Context
    /\ A.labels \in [Node -> SUBSET Name]
    /\ A.gotos \in [Node -> SUBSET Name]
    /\ A.depth \in [Name -> Nat]
    /\ \A x \in A.at : /\ ChildrenPlaced(A, x[1], x[2])
                       /\ LabelsPlaced(A, x[1], x[2])
                       /\ Admitted(x[1], x[2])

Legal(A, p) == Reading(A) /\ <<p, Outermost>> \in A.at /\ Resolved(A, p)

(* A program whose labels are unique and defined in their own procedure,   *)
(* whose case values differ in the selector's type, whose RETURNs stand in *)
(* a procedure and fit it, and whose CALLs name a procedure that was       *)
(* declared before is not rejected.                                        *)
LegalProgramsCompile == status \notin {"rejected", "error"}
=============================================================================
