------------------------------ MODULE Lowering ------------------------------
(***************************************************************************)
(* The code generator composed with the execution of what it generated:    *)
(* a program is compiled by CodegenCFG, and when verifyModule accepts the  *)
(* module, main is run.  Every behaviour of the generated code is a        *)
(* behaviour that StatementSemantics gives to the source program.          *)
(*                                                                         *)
(* The execution of IR (a return address per call, br, condbr, switch) is  *)
(* LLVM's.  src is a history variable: what the source program has left to *)
(* do after the events observed so far.                                    *)
(***************************************************************************)
EXTENDS CodegenCFG

VARIABLES stack,   \* program counters <<block, position>>, the innermost first
          started, \* main has been entered
          src,     \* history: the state of the source program
          out      \* the last observable event, and a bit that each event flips

runVars == <<stack, started, src, out>>

Source == INSTANCE StatementSemantics WITH run <- src

-----------------------------------------------------------------------------
(* The first instruction at or after <<b, i>> that is not an unconditional *)
(* branch; <<>> if there are only branches, in a circle.                   *)
RECURSIVE Reach(_, _, _)
Reach(b, i, seen) ==
    LET instr == blocks[b].ins[i]
        to    == instr.to[1]
    IN IF instr.op # "br" THEN <<b, i>>
       ELSE IF to \in seen THEN <<>>
       ELSE Reach(to, 1, seen \cup {to})

Instr == blocks[Head(stack)[1]].ins[Head(stack)[2]]
NextPC == <<Reach(Head(stack)[1], Head(stack)[2] + 1, {})>> \o Tail(stack)
JumpTo(b) == <<Reach(b, 1, {b})>> \o Tail(stack)

EntryOf(f) == CHOOSE b \in DOMAIN blocks :
                  /\ blocks[b].fn = f
                  /\ \A c \in DOMAIN blocks : blocks[c].fn = f => b <= c

(* The event is observed, and the source program makes the step that       *)
(* observes it, if it has one: whether it has is what refinement checks.   *)
Observe(event) ==
    /\ out' = <<event, 1 - out[2]>>
    /\ src' = IF src = <<>> THEN src
              ELSE LET here == Source!Here IN
                CASE event.op = "do"   -> Source!GoOn(<<>>)
                  [] event.op = "test" /\ here.kind = "Test" ->
                        Source!GoOn(IF event.res = 1 THEN here.yes ELSE here.no)
                  [] event.op = "case" /\ here.kind = "Case" ->
                        Source!GoOn([i \in 1..(IF event.res = 0 THEN 0 ELSE 1) |->
                                        here.stmts[CHOOSE j \in DOMAIN here.vals :
                                                       here.vals[j] = event.res]])
                  [] event.op = "call" ->
                        LET body == Source!Callee(event.e[1]).stmts
                        IN <<Source!Activation(body, body)>> \o Source!GoOn(<<>>)
                  [] event.op = "return" -> Tail(src)
                  [] event.op = "hang"   -> <<>>
                  [] OTHER -> src

Running == status = "verified" /\ started /\ stack # <<>>

AtInstr(ops) == Running /\ Head(stack) # <<>> /\ Instr.op \in ops

Launch == /\ status = "verified"
          /\ ~started
          /\ started' = TRUE
          /\ stack' = <<Reach(1, 1, {1})>>
          /\ UNCHANGED <<src, out>>

ExecStraight == /\ AtInstr({"eval", "step"})
                /\ stack' = NextPC
                /\ Observe(Source!Event("do", Instr.e, 0))

ExecCondBr == /\ AtInstr({"condbr"})
              /\ \E yes \in {0, 1} :
                   /\ stack' = JumpTo(IF yes = 1 THEN Instr.to[1] ELSE Instr.to[2])
                   /\ Observe(Source!Event("test", Instr.e, yes))

ExecSwitch == /\ AtInstr({"switch"})
              /\ \/ /\ stack' = JumpTo(Instr.to[1])
                    /\ Observe(Source!Event("case", Instr.e, 0))
                 \/ \E i \in DOMAIN Instr.arg :
                    /\ stack' = JumpTo(Instr.to[i + 1])
                    /\ Observe(Source!Event("case", Instr.e, Instr.arg[i]))

ExecCall == /\ AtInstr({"call"})
            /\ LET f == Instr.arg[1] IN
                 /\ stack' = <<Reach(EntryOf(f), 1, {EntryOf(f)})>> \o NextPC
                 /\ Observe(Source!Event("call", <<funcs[f][1].name>>, 0))

ExecRet == /\ AtInstr({"ret", "retvoid"})
           /\ stack' = Tail(stack)
           /\ Observe(Source!Event("return", Instr.e, 0))

ExecHang == /\ Running
            /\ Head(stack) = <<>>
            /\ stack' = <<>>
            /\ Observe(Source!Event("hang", <<>>, 0))

Execute == /\ \/ ExecStraight \/ ExecCondBr \/ ExecSwitch
              \/ ExecCall \/ ExecRet \/ ExecHang
           /\ UNCHANGED started

LoweringInit == /\ Init
                /\ stack = <<>>
                /\ started = FALSE
                /\ Source!Init

LoweringNext == \/ Next /\ UNCHANGED runVars
                \/ (Launch \/ Execute) /\ UNCHANGED vars

(* The compiler runs to its end and the processor keeps executing.         *)
LoweringSpec ==
    LoweringInit /\ [][LoweringNext]_<<vars, runVars>> /\ WF_<<vars, runVars>>(LoweringNext)

-----------------------------------------------------------------------------
(* The generated code does what the source program says, no more and no    *)
(* less: same evaluations, tests, calls and returns in the same order; it  *)
(* stops or hangs only where the source program does.                      *)
RefinesSource == Source!Spec
=============================================================================
