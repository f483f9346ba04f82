----------------------------- MODULE ExprTypes -----------------------------
(***************************************************************************)
(* The type of an expression, twice: Sema::analyseExpr infers one from the *)
(* declarations (src/src/sema/pl11_sema.cpp:62-86, 296-382) and            *)
(* Codegen::genExpr another from the values it emits                       *)
(* (src/src/codegen/pl11_codegen.cpp:690-893); the statements then rely on *)
(* their agreeing.  Both passes visit the operands before the operator, so *)
(* an expression is built here bottom-up, on a stack of operands that each *)
(* carry the two types: every expression whose evaluation needs at most    *)
(* MaxOperands of them is covered, of whatever size.                       *)
(*                                                                         *)
(* LLVM is external: an instruction given operands of the wrong types      *)
(* trips an assertion or fails verifyModule, and is Bad here.              *)
(***************************************************************************)
EXTENDS Sequences, Naturals

CONSTANTS Vocabularies,  \* what a program may be written with
          MaxOperands

ASSUME BoundAssumption == MaxOperands \in Nat \ {0}

VARIABLES voc,       \* the vocabulary of the program
          operands,  \* the operands evaluated so far, the last one first
          stmt,      \* the statement that consumed them and the type it is on
          outcome    \* what came of it

vars == <<voc, operands, stmt, outcome>>

(***************************************************************************)
(* TypeSpec, width in bytes; llvm::Type, size in bits or elements.         *)
(***************************************************************************)
TypeSpec(base, width) == [base |-> base, width |-> width]

Byte  == TypeSpec("INTEGER", 1)
Word  == TypeSpec("INTEGER", 2)
Long  == TypeSpec("INTEGER", 4)
Real  == TypeSpec("REAL", 4)
Real8 == TypeSpec("REAL", 8)
Bit   == TypeSpec("BIT", 2)
Character(n) == TypeSpec("CHARACTER", n)

LLVM(k, n) == [k |-> k, n |-> n]

Int(bits)   == LLVM("int", bits)
Float(bits) == LLVM("float", bits)
Ptr         == LLVM("ptr", 0)
Bad         == LLVM("bad", 0)

(* llvmType: BIT*n takes n for bytes, and a width without an integer type  *)
(* of its own becomes 16 bits.                                             *)
LLVMIntType(bytes) == IF bytes \in {1, 2, 4, 8} THEN Int(8 * bytes) ELSE Int(16)
LLVMType(t) == CASE t.base \in {"INTEGER", "BIT"} -> LLVMIntType(t.width)
                 [] t.base = "REAL" -> IF t.width >= 8 THEN Float(64) ELSE Float(32)
                 [] t.base = "CHARACTER" -> LLVM("array", t.width)

Operand(sema, gen) == [sema |-> sema, gen |-> gen]

(* A literal is a WORD to sema; codegen takes the narrowest type that      *)
(* holds it.                                                               *)
IntLiteral(bits) == Operand(Word, Int(bits))
RealLiteral      == Operand(Real, Float(32))
StringLiteral(n) == Operand(Character(n), Ptr)
BitLiteral       == Operand(Bit, Int(16))

(* A vocabulary: the types that variables are declared with, the literals, *)
(* the operators, and how many indices an array may be given.              *)
Types == [base : {"INTEGER", "REAL", "BIT", "CHARACTER"}, width : Nat]
IsLiteral(l) == \/ l \in {IntLiteral(bits) : bits \in {16, 32, 64}}
                \/ l \in {RealLiteral, BitLiteral}
                \/ l.sema.width \in Nat /\ l = StringLiteral(l.sema.width)

ASSUME VocabularyAssumption ==
    \A v \in Vocabularies :
        /\ DOMAIN v = {"declared", "literals", "operators", "indices"}
        /\ v.declared \subseteq Types
        /\ \A l \in v.literals : IsLiteral(l)
        /\ v.indices \subseteq Nat \ {0}

(***************************************************************************)
(* Sema's rules.                                                           *)
(***************************************************************************)
IsArithmetic(t) == t.base \in {"INTEGER", "REAL"}

Compatible(a, b) == \/ a.base = b.base
                    \/ {a.base, b.base} = {"INTEGER", "BIT"}
                    \/ IsArithmetic(a) /\ IsArithmetic(b)

Wider(m, n) == IF m > n THEN m ELSE n

PromoteArith(a, b) ==
    TypeSpec(IF "REAL" \in {a.base, b.base} THEN "REAL" ELSE "INTEGER",
             Wider(a.width, b.width))

(***************************************************************************)
(* Codegen's rules.  CreateIntCast takes integers only; a sign extension   *)
(* goes to the wider type.                                                 *)
(***************************************************************************)
IsInt(g)   == g.k = "int"
IsFloat(g) == g.k = "float"

Relational  == {"rel"}
(* + - * /, then what exists for integers only.                            *)
Arithmetic  == {"arith"}
IntegerOnly == {"mod", "bits", "shift"}

(* "Promote integers to same width": getIntegerBitWidth of anything else   *)
(* is an error.                                                            *)
PromoteInts(l, r) ==
    IF IsInt(l) /\ IsInt(r) THEN (IF l.n > r.n THEN l ELSE r) ELSE Bad

(* The type at which a binary operator is applied: with a float on one     *)
(* side nothing is converted.                                              *)
Common(l, r) == IF Bad \in {l, r} THEN Bad
                ELSE IF l = r THEN l
                ELSE IF IsFloat(l) \/ IsFloat(r) THEN Bad
                ELSE PromoteInts(l, r)

(* Comparing pointers is the one thing that can be done with strings.      *)
Applies(op, g) == \/ IsInt(g)
                  \/ IsFloat(g) /\ op \in Arithmetic \cup Relational
                  \/ g = Ptr /\ op \in Relational

(* Variants: a relational operator yields its i1, or what it compares.     *)
BinaryTypeOfOperands(op, l, r) ==
    LET g == Common(l, r) IN IF Applies(op, g) THEN g ELSE Bad

BinaryTypeI1(op, l, r) ==
    LET g == Common(l, r) IN
    IF ~Applies(op, g) THEN Bad ELSE IF op \in Relational THEN Int(1) ELSE g

BinaryType(op, l, r) ==
    LET g == Common(l, r) IN
    IF ~Applies(op, g) THEN Bad ELSE IF op \in Relational THEN Int(16) ELSE g

-----------------------------------------------------------------------------
Idle == [op |-> "none", on |-> "none"]

Init == /\ voc \in Vocabularies
        /\ operands = <<>>
        /\ stmt = Idle
        /\ outcome = "none"

Top   == operands[1]
Below == operands[2]

(* The n operands on top are replaced by o.                                *)
Push(n, o) == /\ operands' = <<o>> \o SubSeq(operands, n + 1, Len(operands))
              /\ UNCHANGED <<voc, stmt, outcome>>

Evaluating == outcome = "none"
Has(n)     == Evaluating /\ Len(operands) >= n
HasRoom    == Evaluating /\ Len(operands) < MaxOperands
UsesOp(op) == op \in voc.operators

Reject == /\ operands' = <<>>
          /\ outcome' = "rejected"
          /\ UNCHANGED <<voc, stmt>>

Literal == HasRoom /\ \E l \in voc.literals : Push(0, l)

(* IdentifierNode of a variable without dimensions: a load of what its     *)
(* alloca holds.  A register is a variable declared WORD.                  *)
Variable == HasRoom /\ \E t \in voc.declared : Push(0, Operand(t, LLVMType(t)))

Minus == /\ Has(1) /\ UsesOp("minus")
         /\ IF ~IsArithmetic(Top.sema) THEN Reject
            ELSE Push(1, IF IsInt(Top.gen) \/ IsFloat(Top.gen) THEN Top
                         ELSE Operand(Top.sema, Bad))

Not == /\ Has(1) /\ UsesOp("not")
       /\ Push(1, IF IsInt(Top.gen) THEN Top ELSE Operand(Top.sema, Bad))

Binary ==
    /\ Has(2)
    /\ \E op \in voc.operators \cap (Relational \cup Arithmetic \cup IntegerOnly) :
         IF ~Compatible(Below.sema, Top.sema) THEN Reject
         ELSE Push(2, Operand(IF op \in Relational THEN Word
                              ELSE PromoteArith(Below.sema, Top.sema),
                              BinaryType(op, Below.gen, Top.gen)))

(* IND(e): the type of the pointer to sema, a word to codegen.             *)
Deref == /\ Has(1) /\ UsesOp("ind")
         /\ Push(1, Operand(Top.sema, IF IsInt(Top.gen) THEN Int(16) ELSE Bad))

(* REF(v).                                                                 *)
AddrOf == HasRoom /\ UsesOp("ref") /\ Push(0, Operand(Word, Int(64)))

(* v(i) or v(i, j), with n indices on the stack below `above` operands:    *)
(* the storage of an array is flat, so a second index has nothing to       *)
(* select from.                                                            *)
ElementPtrFits(n, above) == n = 1 /\ IsInt(operands[above + 1].gen)

Element == /\ UsesOp("elem")
           /\ \E n \in voc.indices, t \in voc.declared :
                /\ Has(n)
                /\ Push(n, Operand(t, IF ElementPtrFits(n, 0) THEN LLVMType(t) ELSE Bad))

(* f(a): sema counts the arguments and does not compare their types, and   *)
(* codegen passes them as they are.                                        *)
FuncCall == /\ UsesOp("call")
            /\ Has(1)
            /\ \E ret, param \in voc.declared :
                 Push(1, Operand(ret, IF Top.gen = LLVMType(param)
                                      THEN LLVMType(ret) ELSE Bad))

Evaluate == \/ Literal \/ Variable \/ Minus \/ Not \/ Binary \/ Deref \/ AddrOf
            \/ Element \/ FuncCall

-----------------------------------------------------------------------------
(***************************************************************************)
(* The statements, each with the n operands it takes.  "raw": the module   *)
(* is valid, but memory is written with a type it was not declared with.   *)
(***************************************************************************)
Store(value, slot) == IF value = slot THEN "ok" ELSE "raw"

Fits(condition) == IF condition THEN "ok" ELSE "bad"

Statement(op, t, n, accepted, verdict) ==
    /\ Evaluating
    /\ Len(operands) = n
    /\ operands' = <<>>
    /\ stmt' = [op |-> op, on |-> t.base]
    /\ UNCHANGED voc
    /\ outcome' = IF ~accepted THEN "rejected"
                  ELSE IF \E i \in 1..n : operands[i].gen = Bad THEN "bad"
                  ELSE verdict

(* The conversions of an assignment to a variable or a register.           *)
AsStored(value, slot) ==
    IF \/ IsInt(value) /\ IsInt(slot)
       \/ IsFloat(value) /\ IsFloat(slot)
       \/ IsInt(value) /\ slot = Float(32)
    THEN slot ELSE value

Assign == \E t \in voc.declared :
    Statement("assign", t, 1, Compatible(t, Top.sema),
              Store(AsStored(Top.gen, LLVMType(t)), LLVMType(t)))

(* v(i) := e, the indices evaluated first: the store takes the type of e.  *)
AssignElement ==
    /\ UsesOp("elem")
    /\ \E n \in voc.indices, t \in voc.declared :
         Statement("element", t, n + 1, Compatible(t, Top.sema),
                   IF ElementPtrFits(n, 1) THEN Store(Top.gen, LLVMType(t)) ELSE "bad")

(* CONSTANT t NAME = e.                                                    *)
Constant == \E t \in voc.declared :
    Statement("constant", t, 1, Compatible(t, Top.sema), Store(Top.gen, LLVMType(t)))

(* IF, WHILE, REPEAT and UNTIL compare the value with an integer zero.     *)
Condition == Statement("condition", Word, 1, TRUE, Fits(IsInt(Top.gen)))

Select == Statement("case", Word, 1, Top.sema.base = "INTEGER", Fits(IsInt(Top.gen)))

(* FOR: the end, then the step and the start if they are given.  Only the  *)
(* step is converted.                                                      *)
Loop == \E t \in voc.declared, stepped, started \in BOOLEAN :
    LET n     == 1 + (IF stepped THEN 1 ELSE 0) + (IF started THEN 1 ELSE 0)
        start == operands[1].gen
        end   == operands[n].gen
        step  == operands[n - 1].gen
    IN Statement("for", t, n,
                 t.base = "INTEGER" /\ \A i \in 1..n : IsArithmetic(operands[i].sema),
                 IF end # LLVMType(t) \/ (stepped /\ ~IsInt(step)) THEN "bad"
                 ELSE IF started THEN Store(start, LLVMType(t)) ELSE "ok")

(* RETURN e in a procedure of type t, and CALL p(e).                       *)
Return == \E t \in voc.declared :
    Statement("return", t, 1, Compatible(Top.sema, t), Fits(Top.gen = LLVMType(t)))

ProcCall == \E t \in voc.declared :
    Statement("call", t, 1, Compatible(Top.sema, t), Fits(Top.gen = LLVMType(t)))

(* PRINT with one specifier: what printf reads against what it is given.   *)
(* "d" stands for %d, %l and %c; a string is a literal or a variable.      *)
PrintAccepts(spec, t) == \/ spec = "d" /\ t.base \in {"INTEGER", "BIT"}
                         \/ spec = "f" /\ t.base \in {"REAL", "INTEGER"}
                         \/ spec = "s" /\ t.base = "CHARACTER"

Promoted(spec, g) == CASE spec = "d" /\ IsInt(g) /\ g.n < 32 -> Int(32)
                       [] spec = "f" /\ (IsInt(g) \/ IsFloat(g)) -> Float(64)
                       [] spec = "s" /\ g.k = "array" -> Ptr
                       [] OTHER -> g

Reads(spec) == CASE spec = "d" -> Int(32) [] spec = "f" -> Float(64) [] spec = "s" -> Ptr

PrintStmt == \E spec \in {"d", "f", "s"} :
    Statement("print", Word, 1, PrintAccepts(spec, Top.sema),
              Store(Promoted(spec, Top.gen), Reads(spec)))

(* PUSH converts to a word; POP stores a word.                             *)
PushStmt == Statement("push", Word, 1, TRUE, Fits(IsInt(Top.gen)))

PopStmt == \E t \in voc.declared :
    Statement("pop", t, 0, TRUE, Store(Int(16), LLVMType(t)))

Next == \/ Evaluate
        \/ Assign \/ AssignElement \/ Constant \/ Condition \/ Select \/ Loop
        \/ Return \/ ProcCall \/ PrintStmt \/ PushStmt \/ PopStmt

Spec == Init /\ [][Next]_vars

-----------------------------------------------------------------------------
Fine == outcome \in {"none", "rejected", "ok"}

(* What can be generated at all is of the kind that sema takes it for: no  *)
(* string passes for a number, no real for an integer.                     *)
KindsAgree ==
    \A i \in DOMAIN operands :
        LET g == operands[i].gen IN
        g # Bad => CASE operands[i].sema.base \in {"INTEGER", "BIT"} -> IsInt(g)
                     [] operands[i].sema.base = "REAL" -> IsFloat(g)
                     [] operands[i].sema.base = "CHARACTER" -> g.k \in {"array", "ptr"}

(* Integers of any width, calls and IND left out: arguments are not        *)
(* converted, and IND reads a word whatever sema takes it for.             *)
OnlyIntegers == /\ \A t \in voc.declared : t.base = "INTEGER" /\ t.width \in {1, 2, 4, 8}
                /\ \A l \in voc.literals : l.sema.base = "INTEGER"
                /\ voc.operators \cap {"ind", "call"} = {}
                /\ voc.indices \subseteq {1}

(* What sema takes for an integer is an integer to codegen, and is         *)
(* computed in no fewer bits than sema's type has.                         *)
IntegersAreWideEnough ==
    OnlyIntegers => \A i \in DOMAIN operands :
        LET o == operands[i] IN IsInt(o.gen) /\ o.gen.n >= 8 * o.sema.width

(* The two analyses of an expression agree on it, whatever its operators.  *)
OperandsAgree == KindsAgree /\ IntegersAreWideEnough

(* An assignment of an integer expression to an integer variable or to a   *)
(* register stores exactly the bytes of the target, whatever their widths. *)
IntegerAssignmentsFit == OnlyIntegers /\ stmt.op = "assign" => Fine

(* Words, with every operator but REF.                                     *)
OnlyWords == /\ \A t \in voc.declared : LLVMType(t) = Int(16)
             /\ \A l \in voc.literals : l.gen = Int(16)
             /\ "ref" \notin voc.operators
             /\ voc.indices \subseteq {1}

(* A program that keeps to words compiles, whatever its statements and     *)
(* expressions, and one that keeps to integers and only assigns them:      *)
(* sema's acceptance is enough.                                            *)
AcceptedProgramsFit == (OnlyWords => Fine) /\ IntegerAssignmentsFit
=============================================================================
