------------------------- MODULE StatementSemantics -------------------------
(***************************************************************************)
(* What a PL-11 program does, statement by statement: the control flow     *)
(* that section 6 of src/docs/pl11-language-reference.md gives for IF,     *)
(* WHILE, FOR, CASE, REPEAT, DO, GOTO and section 7 for CALL and RETURN.   *)
(* This is the abstract specification of the code generator; it knows      *)
(* nothing of blocks, branches or labels_.                                 *)
(*                                                                         *)
(* The state of a running procedure is what it has left to do, a sequence  *)
(* of statements.  A compound statement stands for the simpler steps it    *)
(* unfolds to; only evaluations, tests, calls and returns are observable.  *)
(***************************************************************************)
EXTENDS PL11Ast, FiniteSets

VARIABLES prog,   \* the program
          run,    \* the procedures that are active, the innermost first
          out     \* the last observable event, and a bit that each event flips

vars == <<prog, run, out>>

(* Two steps that are not statements: a test that goes on with yes or with *)
(* no, and the part of a FOR that is repeated.                             *)
Test(e, yes, no) == [kind |-> "Test", expr |-> e, yes |-> yes, no |-> no]
ForLoop(s)       == [kind |-> "ForLoop", loop |-> s]
Increment(s)     == [kind |-> "Step", expr |-> s.expr]

(***************************************************************************)
(* What follows the body of a loop: the UNTIL clause leaves the loop when  *)
(* it is true; otherwise the loop goes on.                                 *)
(***************************************************************************)
AfterBody(s, again) ==
    IF s.until = <<>> THEN again ELSE <<Test(s.until[1], <<>>, again)>>

After(s) == CASE s.kind \in {"While", "Do"} -> AfterBody(s, <<s>>)
              [] s.kind = "For"    -> AfterBody(s, <<Increment(s), ForLoop(s)>>)
              [] s.kind = "Repeat" -> <<Test(s.expr, <<>>, <<s>>)>>
              [] OTHER -> <<>>

Unfold(s) ==
    CASE s.kind = "If"      -> <<Test(s.expr, s.stmts, s.alt)>>
      [] s.kind = "While"   -> <<Test(s.expr, s.stmts \o After(s), <<>>)>>
      [] s.kind = "For"     -> [i \in 1..(1 + Len(s.step) + Len(s.start)) |->
                                  AssignStmt((<<s.end>> \o s.step \o s.start)[i])]
                               \o <<ForLoop(s)>>
      [] s.kind = "ForLoop" -> <<Test(s.loop.expr, s.loop.stmts \o After(s.loop), <<>>)>>
      [] s.kind \in {"Do", "Repeat"}     -> s.stmts \o After(s)
      [] s.kind \in {"Block", "Label"}   -> s.stmts

Unfolds(s) == s.kind \in {"If", "While", "For", "ForLoop", "Do", "Repeat",
                          "Block", "Label"}

(***************************************************************************)
(* GOTO: what is left to do from a label on, in the procedure's body.      *)
(***************************************************************************)
Children(s) == IF s.kind \in {"If"} THEN s.stmts \o s.alt
               ELSE IF s.kind \in {"While", "For", "Do", "Repeat", "Case",
                                   "Label", "Block"} THEN s.stmts
               ELSE <<>>

RECURSIVE LabelsIn(_), GotosIn(_)
LabelsIn(seq) ==
    IF seq = <<>> THEN <<>>
    ELSE LET s == Head(seq) IN
         (IF s.kind = "Label" THEN <<s.name>> ELSE <<>>)
            \o LabelsIn(Children(s)) \o LabelsIn(Tail(seq))
GotosIn(seq) ==
    UNION {LET s == seq[i] IN
           (IF s.kind = "Goto" THEN {s.name} ELSE {}) \cup GotosIn(Children(s)) :
           i \in DOMAIN seq}

(* The only element of a singleton.  (Ranging over a singleton also makes  *)
(* TLC evaluate a recursive argument once instead of at every use.)        *)
TheOnly(S) == CHOOSE x \in S : TRUE

Carries(s, l) == \E i \in DOMAIN LabelsIn(<<s>>) : LabelsIn(<<s>>)[i] = l

RECURSIVE From(_, _)
From(seq, l) ==
    LET FromWithin(s) ==
          IF s.kind = "Label" /\ s.name = l THEN s.stmts
          ELSE IF s.kind \in {"If", "Case"}
            THEN TheOnly({From(<<c>>, l) :
                     c \in {Children(s)[j] : j \in {j \in DOMAIN Children(s) :
                                                    Carries(Children(s)[j], l)}}})
          ELSE From(Children(s), l) \o After(s)
    IN TheOnly({FromWithin(seq[i]) \o SubSeq(seq, i + 1, Len(seq)) :
                     i \in {i \in DOMAIN seq : Carries(seq[i], l)}})

(***************************************************************************)
(* The next observable step, reached by unfolding and jumping.  A loop     *)
(* that never observes anything ("DO ;", "L: GOTO L") diverges.            *)
(***************************************************************************)
Diverge == [kind |-> "Diverge"]

RECURSIVE Settle(_, _, _)
Settle(body, rest, seen) ==
    IF rest \in seen THEN <<Diverge>>
    ELSE IF rest = <<>> THEN <<ReturnStmt(<<>>)>>
    ELSE LET s == Head(rest) IN
         IF Unfolds(s) \/ s.kind = "Goto"
         THEN TheOnly({Settle(body, next, seen \cup {rest}) :
                  next \in {IF Unfolds(s) THEN Unfold(s) \o Tail(rest)
                            ELSE From(body, s.name)}})
         ELSE rest

Activation(body, rest) == [body |-> body, rest |-> Settle(body, rest, {})]

(***************************************************************************)
(* Calls: procedures are found by their name, which the programs this      *)
(* module is used for declare once.                                        *)
(***************************************************************************)
RECURSIVE ProcsIn(_)
ProcsIn(decls) ==
    UNION {IF decls[i].forward THEN {} ELSE {decls[i]} \cup ProcsIn(decls[i].decls) :
           i \in DOMAIN decls}

Callee(name) == CHOOSE p \in ProcsIn(prog.decls) : p.name = name

Event(op, e, res) == [op |-> op, e |-> e, res |-> res]

(* A RETURN in the top-level activation, and divergence, end the program.  *)
Here == Head(run).rest[1]
GoOn(steps) == <<Activation(Head(run).body, steps \o Tail(Head(run).rest))>> \o Tail(run)

Observe(event) == out' = <<event, 1 - out[2]>>

Init == /\ run = <<Activation(prog.stmts, prog.stmts)>>
        /\ out = <<Event("start", <<>>, 0), 0>>

Effect == /\ Here.kind \in StraightLine \cup {"Step"}
          /\ run' = GoOn(<<>>)
          /\ Observe(Event("do", <<Here.expr>>, 0))

Decide == /\ Here.kind = "Test"
          /\ \E yes \in {0, 1} :
               /\ run' = GoOn(IF yes = 1 THEN Here.yes ELSE Here.no)
               /\ Observe(Event("test", <<Here.expr>>, yes))

(* CASE runs the arm whose constant the selector has, or nothing.          *)
Select == /\ Here.kind = "Case"
          /\ \/ \E i \in DOMAIN Here.vals :
                  /\ run' = GoOn(<<Here.stmts[i]>>)
                  /\ Observe(Event("case", <<Here.expr>>, Here.vals[i]))
             \/ /\ run' = GoOn(<<>>)
                /\ Observe(Event("case", <<Here.expr>>, 0))

Call == /\ Here.kind = "Call"
        /\ LET body == Callee(Here.name).stmts
           IN run' = <<Activation(body, body)>> \o GoOn(<<>>)
        /\ Observe(Event("call", <<Here.name>>, 0))

Return == /\ Here.kind = "Return"
          /\ run' = Tail(run)
          /\ Observe(Event("return", Here.value, 0))

Hang == /\ Here.kind = "Diverge"
        /\ run' = <<>>
        /\ Observe(Event("hang", <<>>, 0))

Next == /\ run # <<>>
        /\ UNCHANGED prog
        /\ Effect \/ Decide \/ Select \/ Call \/ Return \/ Hang

Safe == Init /\ [][Next]_vars
(* A program with something left to do goes on.  Next is possible exactly   *)
(* when run is not empty, so this is WF_vars(Next).                        *)
Progress == []<>(run = <<>>) \/ []<><<Next>>_vars

Spec == Safe /\ Progress
=============================================================================
