-------------------------- MODULE ExprTypes_proof --------------------------
(***************************************************************************)
(* The two analyses of types agree for expressions of every size, written  *)
(* with any types, literals and operators, and what sema accepts of a      *)
(* program that keeps to words can be generated.  Each operand on the      *)
(* stack is Sound, and each operator makes a sound operand out of sound    *)
(* ones.                                                                   *)
(***************************************************************************)
EXTENDS ExprTypes, TLAPS

LLVMTypes == [k : {"int", "float", "ptr", "array", "bad"}, n : Nat]
Values    == [sema : Types, gen : LLVMTypes]

Kind(o) ==
    o.gen # Bad => CASE o.sema.base \in {"INTEGER", "BIT"} -> IsInt(o.gen)
                     [] o.sema.base = "REAL" -> IsFloat(o.gen)
                     [] o.sema.base = "CHARACTER" -> o.gen.k \in {"array", "ptr"}

Wide(o) == o.sema.base = "INTEGER" /\ IsInt(o.gen) /\ o.gen.n >= 8 * o.sema.width

WordSized(o) == o.gen = Int(16) /\ o.sema.base \in {"INTEGER", "BIT"}

Sound(o) == /\ o \in Values
            /\ Kind(o)
            /\ OnlyIntegers => Wide(o)
            /\ OnlyWords => WordSized(o)

IInv == /\ voc \in Vocabularies
        /\ operands \in Seq(Values)
        /\ \A i \in DOMAIN operands : Sound(operands[i])
        /\ AcceptedProgramsFit

-----------------------------------------------------------------------------
LEMMA TypesOfValues ==
    /\ \A bits \in Nat : Int(bits) \in LLVMTypes /\ Float(bits) \in LLVMTypes
    /\ Ptr \in LLVMTypes /\ Bad \in LLVMTypes
    /\ {Byte, Word, Long, Real, Real8, Bit} \subseteq Types
    /\ \A bits \in Nat : IsInt(Int(bits)) /\ Int(bits) # Bad /\ ~IsFloat(Int(bits))
    /\ \A bits \in Nat : IsFloat(Float(bits)) /\ Float(bits) # Bad /\ ~IsInt(Float(bits))
    /\ ~IsInt(Bad) /\ ~IsFloat(Bad) /\ ~IsInt(Ptr) /\ ~IsFloat(Ptr) /\ Ptr # Bad
  BY DEF Int, Float, Ptr, Bad, LLVM, LLVMTypes, Byte, Word, Long, Real, Real8, Bit, TypeSpec, Types,
         IsInt, IsFloat

(* The type of a variable.                                                 *)
LEMMA LLVMTypeOf ==
    ASSUME NEW t \in Types
    PROVE  /\ LLVMType(t) \in LLVMTypes /\ LLVMType(t) # Bad
           /\ t.base \in {"INTEGER", "BIT"} => IsInt(LLVMType(t))
           /\ t.base = "REAL" => IsFloat(LLVMType(t))
           /\ t.base = "CHARACTER" => LLVMType(t).k = "array"
           /\ t.width \in {1, 2, 4, 8} /\ t.base = "INTEGER" => LLVMType(t).n = 8 * t.width
           /\ LLVMType(t) = Int(16) => t.base \in {"INTEGER", "BIT"}
  <1>1. t.base \in {"INTEGER", "REAL", "BIT", "CHARACTER"} /\ t.width \in Nat
    BY DEF Types
  <1>2. CASE t.base \in {"INTEGER", "BIT"}
    BY <1>1, <1>2 DEF LLVMType, LLVMIntType, Int, LLVM, LLVMTypes, IsInt, Bad
  <1>3. CASE t.base = "REAL"
    BY <1>1, <1>3 DEF LLVMType, Float, Int, LLVM, LLVMTypes, IsFloat, Bad
  <1>4. CASE t.base = "CHARACTER"
    BY <1>1, <1>4 DEF LLVMType, Int, LLVM, LLVMTypes, Bad
  <1> QED BY <1>1, <1>2, <1>3, <1>4

LEMMA Fields ==
    ASSUME NEW t \in Types, NEW g \in LLVMTypes
    PROVE  Operand(t, g) \in Values /\ Operand(t, g).sema = t /\ Operand(t, g).gen = g
  BY DEF Operand, Values

LEMMA SoundKinds ==
    ASSUME NEW o, Sound(o)
    PROVE  /\ IsInt(o.gen) => o.sema.base \in {"INTEGER", "BIT"}
           /\ IsFloat(o.gen) => o.sema.base = "REAL"
  <1>1. o.sema.base \in {"INTEGER", "REAL", "BIT", "CHARACTER"}
    BY DEF Sound, Values, Types
  <1>2. IsInt(o.gen) \/ IsFloat(o.gen) => o.gen # Bad
    BY TypesOfValues
  <1>3. CASE o.sema.base \in {"INTEGER", "BIT"}
    BY <1>2, <1>3 DEF Sound, Kind, IsInt, IsFloat
  <1>4. CASE o.sema.base = "REAL"
    BY <1>2, <1>4 DEF Sound, Kind, IsInt, IsFloat
  <1>5. CASE o.sema.base = "CHARACTER"
    BY <1>2, <1>5 DEF Sound, Kind, IsInt, IsFloat
  <1> QED BY <1>1, <1>3, <1>4, <1>5

(* Leaves.                                                                 *)
LEMMA VariableSound ==
    ASSUME voc \in Vocabularies, NEW t \in voc.declared
    PROVE  t \in Types /\ Sound(Operand(t, LLVMType(t)))
  <1>1. t \in Types
    BY VocabularyAssumption
  <1> DEFINE o == Operand(t, LLVMType(t))
  <1>2. o \in Values /\ o.sema = t /\ o.gen = LLVMType(t)
    BY <1>1, LLVMTypeOf, Fields
  <1> HIDE DEF o
  <1>3. Kind(o)
    BY <1>1, <1>2, LLVMTypeOf DEF Kind, Types
  <1>4. OnlyIntegers => Wide(o)
    <2>1. SUFFICES ASSUME OnlyIntegers PROVE Wide(o)
      OBVIOUS
    <2>2. t.base = "INTEGER" /\ t.width \in {1, 2, 4, 8}
      BY <2>1 DEF OnlyIntegers
    <2> QED BY <1>1, <1>2, <2>2, LLVMTypeOf DEF Wide
  <1>5. OnlyWords => WordSized(o)
    <2>1. SUFFICES ASSUME OnlyWords PROVE WordSized(o)
      OBVIOUS
    <2>2. LLVMType(t) = Int(16)
      BY <2>1 DEF OnlyWords
    <2> QED BY <1>1, <1>2, <2>2, LLVMTypeOf DEF WordSized
  <1> QED BY <1>1, <1>2, <1>3, <1>4, <1>5 DEF Sound, o

LEMMA LiteralSound ==
    ASSUME voc \in Vocabularies, NEW l \in voc.literals
    PROVE  Sound(l)
  <1>1. IsLiteral(l)
    BY VocabularyAssumption
  <1>2. OnlyIntegers => l.sema.base = "INTEGER"
    BY DEF OnlyIntegers
  <1>3. OnlyWords => l.gen = Int(16)
    BY DEF OnlyWords
  <1>4. CASE \E bits \in {16, 32, 64} : l = IntLiteral(bits)
    <2>1. PICK bits \in {16, 32, 64} : l = IntLiteral(bits)
      BY <1>4
    <2>2. l \in Values /\ l.sema = Word /\ l.gen = Int(bits)
      BY <2>1, TypesOfValues, Fields DEF IntLiteral
    <2>3. Word.base = "INTEGER" /\ Word.width = 2 /\ IsInt(Int(bits)) /\ Int(bits).n = bits
      BY DEF Word, TypeSpec, IsInt, Int, LLVM
    <2> QED BY <1>3, <2>2, <2>3 DEF Sound, Kind, Wide, WordSized
  <1>5. CASE l = RealLiteral
    <2>1. l \in Values /\ l.sema = Real /\ l.gen = Float(32)
      BY <1>5, TypesOfValues, Fields DEF RealLiteral
    <2>2. Real.base = "REAL" /\ IsFloat(Float(32)) /\ Float(32) # Int(16)
      BY DEF Real, TypeSpec, IsFloat, Float, Int, LLVM
    <2> QED BY <1>2, <1>3, <2>1, <2>2 DEF Sound, Kind
  <1>6. CASE l = BitLiteral
    <2>1. l \in Values /\ l.sema = Bit /\ l.gen = Int(16)
      BY <1>6, TypesOfValues, Fields DEF BitLiteral
    <2>2. Bit.base = "BIT" /\ IsInt(Int(16))
      BY DEF Bit, TypeSpec, IsInt, Int, LLVM
    <2> QED BY <1>2, <2>1, <2>2 DEF Sound, Kind, WordSized
  <1>7. CASE l.sema.width \in Nat /\ l = StringLiteral(l.sema.width)
    <2>1. PICK n \in Nat : l = StringLiteral(n)
      BY <1>7
    <2>2. Character(n) \in Types /\ Character(n).base = "CHARACTER"
      BY DEF Character, TypeSpec, Types
    <2>3. l \in Values /\ l.sema = Character(n) /\ l.gen = Ptr
      BY <2>1, <2>2, TypesOfValues, Fields DEF StringLiteral
    <2>4. Ptr.k = "ptr" /\ Ptr # Int(16)
      BY DEF Ptr, Int, LLVM
    <2> QED BY <1>2, <1>3, <2>2, <2>3, <2>4 DEF Sound, Kind
  <1> QED BY <1>1, <1>4, <1>5, <1>6, <1>7 DEF IsLiteral

(* Operators.                                                              *)
LEMMA BinarySound ==
    ASSUME NEW l, Sound(l), NEW r, Sound(r), NEW op, Compatible(l.sema, r.sema)
    PROVE  Sound(Operand(IF op \in Relational THEN Word ELSE PromoteArith(l.sema, r.sema),
                         BinaryType(op, l.gen, r.gen)))
  <1> DEFINE t == IF op \in Relational THEN Word ELSE PromoteArith(l.sema, r.sema)
             g == BinaryType(op, l.gen, r.gen)
             o == Operand(t, g)
  <1>1. /\ l \in Values /\ r \in Values /\ l.sema \in Types /\ r.sema \in Types
        /\ l.gen \in LLVMTypes /\ r.gen \in LLVMTypes
        /\ l.sema.width \in Nat /\ r.sema.width \in Nat
        /\ l.sema.base \in {"INTEGER", "REAL", "BIT", "CHARACTER"}
        /\ r.sema.base \in {"INTEGER", "REAL", "BIT", "CHARACTER"}
    BY DEF Sound, Values, Types
  <1>2. /\ t \in Types
        /\ op \in Relational => t = Word
        /\ op \notin Relational =>
              /\ t.base = IF "REAL" \in {l.sema.base, r.sema.base} THEN "REAL" ELSE "INTEGER"
              /\ t.width = Wider(l.sema.width, r.sema.width)
    BY <1>1, TypesOfValues DEF PromoteArith, TypeSpec, Types, Wider
  <1>3. CASE IsInt(l.gen) /\ IsInt(r.gen)
    <2>1. Common(l.gen, r.gen) \in {l.gen, r.gen} /\ Common(l.gen, r.gen).n = Wider(l.gen.n, r.gen.n)
      BY <1>1, <1>3 DEF Common, PromoteInts, IsInt, IsFloat, Bad, LLVM, LLVMTypes, Wider
    <2>2. g = IF op \in Relational THEN Int(16) ELSE Common(l.gen, r.gen)
      BY <1>3, <2>1 DEF BinaryType, Applies
    <2>3. g \in LLVMTypes /\ IsInt(g)
      BY <1>1, <1>3, <2>1, <2>2, TypesOfValues
    <2>4. o \in Values /\ o.sema = t /\ o.gen = g
      BY <1>2, <2>3, Fields
    <2> HIDE DEF o, g
    <2>5. l.sema.base \in {"INTEGER", "BIT"} /\ r.sema.base \in {"INTEGER", "BIT"}
      BY <1>3, SoundKinds
    <2>6. t.base = "INTEGER"
      BY <1>2, <2>5 DEF Word, TypeSpec
    <2>7. Kind(o)
      BY <2>3, <2>4, <2>6 DEF Kind
    <2>8. OnlyIntegers => Wide(o)
      <3>1. SUFFICES ASSUME OnlyIntegers PROVE g.n >= 8 * t.width
        BY <2>3, <2>4, <2>6 DEF Wide
      <3>2. CASE op \in Relational
        <4>1. g.n = 16 /\ t.width = 2
          BY <1>2, <2>2, <3>2 DEF Int, LLVM, Word, TypeSpec
        <4> QED BY <4>1
      <3>3. CASE op \notin Relational
        <4>1. g.n = Wider(l.gen.n, r.gen.n) /\ t.width = Wider(l.sema.width, r.sema.width)
          BY <1>2, <2>1, <2>2, <3>3
        <4>2. l.gen.n >= 8 * l.sema.width /\ r.gen.n >= 8 * r.sema.width
          BY <3>1 DEF Sound, Wide
        <4>3. l.gen.n \in Nat /\ r.gen.n \in Nat
          BY <1>1 DEF LLVMTypes
        <4> QED BY <1>1, <4>1, <4>2, <4>3 DEF Wider
      <3> QED BY <3>2, <3>3
    <2>9. OnlyWords => WordSized(o)
      <3>1. SUFFICES ASSUME OnlyWords PROVE g = Int(16)
        BY <2>4, <2>6 DEF WordSized
      <3>2. l.gen = Int(16) /\ r.gen = Int(16)
        BY <3>1 DEF Sound, WordSized
      <3> QED BY <2>1, <2>2, <3>2
    <2> QED BY <2>4, <2>7, <2>8, <2>9 DEF Sound, o, g
  <1>4. CASE ~(IsInt(l.gen) /\ IsInt(r.gen))
    <2>1. ~OnlyIntegers /\ ~OnlyWords
      BY <1>4, TypesOfValues DEF Sound, Wide, WordSized
    <2>2. CASE g = Bad
      <3>1. o \in Values /\ o.gen = Bad
        BY <1>2, <2>2, Fields, TypesOfValues
      <3> QED BY <2>1, <3>1 DEF Sound, Kind
    <2>3. CASE g # Bad
      <3>1. l.gen = r.gen /\ l.gen # Bad /\ ~IsInt(l.gen)
        BY <1>1, <1>4, <2>3, TypesOfValues DEF BinaryType, Common, PromoteInts, Applies
      <3>2. \/ op \in Relational /\ g = Int(16)
            \/ op \notin Relational /\ g = l.gen /\ IsFloat(l.gen)
        BY <2>3, <3>1 DEF BinaryType, Common, Applies
      <3>3. CASE op \in Relational /\ g = Int(16)
        <4>1. o \in Values /\ o.sema = Word /\ o.gen = Int(16)
          BY <1>2, <3>3, Fields, TypesOfValues
        <4>2. Word.base = "INTEGER" /\ IsInt(Int(16))
          BY TypesOfValues DEF Word, TypeSpec
        <4> HIDE DEF o
        <4>3. Kind(o)
          BY <4>1, <4>2 DEF Kind
        <4> QED BY <2>1, <4>1, <4>3 DEF Sound, o
      <3>4. CASE op \notin Relational /\ g = l.gen /\ IsFloat(l.gen)
        <4>1. l.sema.base = "REAL"
          BY <3>4, SoundKinds
        <4>2. o \in Values /\ o.sema.base = "REAL" /\ IsFloat(o.gen)
          BY <1>1, <1>2, <3>4, <4>1, Fields
        <4> QED BY <2>1, <4>2 DEF Sound, Kind
      <3> QED BY <3>2, <3>3, <3>4
    <2> QED BY <2>2, <2>3
  <1> QED BY <1>3, <1>4

-----------------------------------------------------------------------------
(* An action that replaces n operands by a sound one.                      *)
LEMMA PushKeeps ==
    ASSUME IInv, NEW n \in Nat, n <= Len(operands), NEW o, Sound(o), Push(n, o), Evaluating
    PROVE  IInv'
  <1>1. /\ operands' = <<o>> \o SubSeq(operands, n + 1, Len(operands))
        /\ voc' = voc /\ stmt' = stmt /\ outcome' = "none"
    BY DEF Push, Evaluating
  <1>2. o \in Values /\ operands \in Seq(Values)
    BY DEF IInv, Sound
  <1> DEFINE rest == SubSeq(operands, n + 1, Len(operands))
  <1>3. /\ rest \in Seq(Values)
        /\ \A i \in DOMAIN rest : i + n \in DOMAIN operands /\ rest[i] = operands[i + n]
    BY <1>2
  <1>4. \A i \in DOMAIN rest : Sound(rest[i])
    BY <1>3 DEF IInv
  <1> HIDE DEF rest
  <1>5. /\ operands' \in Seq(Values)
        /\ \A i \in DOMAIN operands' :
              operands'[i] = o \/ (i - 1 \in DOMAIN rest /\ operands'[i] = rest[i - 1])
    BY <1>1, <1>2, <1>3 DEF rest
  <1>6. \A i \in DOMAIN operands' : Sound(operands'[i])
    BY <1>4, <1>5
  <1>7. \A v : Sound(v)' <=> Sound(v)
    BY <1>1 DEF Sound, OnlyIntegers, OnlyWords
  <1>8. AcceptedProgramsFit'
    BY <1>1 DEF AcceptedProgramsFit, IntegerAssignmentsFit, Fine
  <1> QED BY <1>1, <1>5, <1>6, <1>7, <1>8 DEF IInv

(* One that empties the stack.                                             *)
LEMMA EmptyKeeps ==
    ASSUME IInv, operands' = <<>>, voc' = voc, AcceptedProgramsFit'
    PROVE  IInv'
  BY DEF IInv

LEMMA RejectKeeps ==
    ASSUME IInv, Reject PROVE IInv'
  BY EmptyKeeps DEF Reject, AcceptedProgramsFit, IntegerAssignmentsFit, Fine

LEMMA TopIs ==
    ASSUME IInv, NEW n \in Nat, Has(n), n > 0
    PROVE  /\ n <= Len(operands) /\ Len(operands) \in Nat /\ Evaluating
           /\ \A i \in 1..n : Sound(operands[i])
           /\ Sound(Top)
  BY DEF IInv, Has, Top

LEMMA BadIsNoWord ==
    ASSUME NEW t \in Types, ~OnlyIntegers, ~OnlyWords
    PROVE  Sound(Operand(t, Bad))
  BY Fields, TypesOfValues DEF Sound, Kind

LEMMA EvaluateKeeps ==
    ASSUME IInv, Evaluate PROVE IInv'
  <1>1. CASE Literal
    <2>1. PICK l \in voc.literals : Push(0, l)
      BY <1>1 DEF Literal
    <2>2. Sound(l)
      BY LiteralSound DEF IInv
    <2> QED BY <1>1, <2>1, <2>2, PushKeeps DEF Literal, HasRoom, IInv
  <1>2. CASE Variable
    <2>1. PICK t \in voc.declared : Push(0, Operand(t, LLVMType(t)))
      BY <1>2 DEF Variable
    <2>2. Sound(Operand(t, LLVMType(t)))
      BY VariableSound DEF IInv
    <2> QED BY <1>2, <2>1, <2>2, PushKeeps DEF Variable, HasRoom, IInv
  <1>3. CASE Minus
    <2>1. Sound(Top) /\ 1 <= Len(operands) /\ Evaluating
      BY <1>3, TopIs DEF Minus
    <2>2. CASE Push(1, Top)
      BY <2>1, <2>2, PushKeeps
    <2>3. CASE Push(1, Operand(Top.sema, Bad)) /\ ~(IsInt(Top.gen) \/ IsFloat(Top.gen))
      <3>1. ~OnlyIntegers /\ ~OnlyWords /\ Top.sema \in Types
        BY <2>1, <2>3, TypesOfValues DEF Sound, Wide, WordSized, Values
      <3> QED BY <2>1, <2>3, <3>1, BadIsNoWord, PushKeeps
    <2> QED BY <1>3, <2>2, <2>3, RejectKeeps DEF Minus
  <1>4. CASE Not
    <2>1. Sound(Top) /\ 1 <= Len(operands) /\ Evaluating
      BY <1>4, TopIs DEF Not
    <2>2. CASE Push(1, Top)
      BY <2>1, <2>2, PushKeeps
    <2>3. CASE Push(1, Operand(Top.sema, Bad)) /\ ~IsInt(Top.gen)
      <3>1. ~OnlyIntegers /\ ~OnlyWords /\ Top.sema \in Types
        BY <2>1, <2>3, TypesOfValues DEF Sound, Wide, WordSized, Values
      <3> QED BY <2>1, <2>3, <3>1, BadIsNoWord, PushKeeps
    <2> QED BY <1>4, <2>2, <2>3 DEF Not
  <1>5. CASE Binary
    <2>1. Sound(Top) /\ Sound(Below) /\ 2 <= Len(operands) /\ Evaluating
      BY <1>5, TopIs DEF Binary, Below
    <2>2. PICK op :
             IF ~Compatible(Below.sema, Top.sema) THEN Reject
             ELSE Push(2, Operand(IF op \in Relational THEN Word
                                  ELSE PromoteArith(Below.sema, Top.sema),
                                  BinaryType(op, Below.gen, Top.gen)))
      BY <1>5 DEF Binary
    <2>3. CASE Compatible(Below.sema, Top.sema)
      BY <2>1, <2>2, <2>3, BinarySound, PushKeeps
    <2> QED BY <2>2, <2>3, RejectKeeps
  <1>6. CASE Deref
    <2>1. Sound(Top) /\ 1 <= Len(operands) /\ Evaluating /\ UsesOp("ind")
      BY <1>6, TopIs DEF Deref
    <2>2. ~OnlyIntegers /\ Top.sema \in Types
      BY <2>1 DEF OnlyIntegers, UsesOp, Sound, Values
    <2>3. CASE IsInt(Top.gen) /\ Push(1, Operand(Top.sema, Int(16)))
      <3> DEFINE o == Operand(Top.sema, Int(16))
      <3>1. o \in Values /\ o.sema = Top.sema /\ o.gen = Int(16)
        BY <2>2, Fields, TypesOfValues
      <3>2. Top.sema.base \in {"INTEGER", "BIT"}
        BY <2>1, <2>3, SoundKinds
      <3> HIDE DEF o
      <3>3. Sound(o)
        BY <2>2, <3>1, <3>2, TypesOfValues DEF Sound, Kind, WordSized
      <3> QED BY <2>1, <2>3, <3>3, PushKeeps DEF o
    <2>4. CASE ~IsInt(Top.gen) /\ Push(1, Operand(Top.sema, Bad))
      <3>1. ~OnlyWords
        BY <2>1, <2>4, TypesOfValues DEF Sound, WordSized
      <3> QED BY <2>1, <2>2, <2>4, <3>1, BadIsNoWord, PushKeeps
    <2> QED BY <1>6, <2>3, <2>4 DEF Deref
  <1>7. CASE AddrOf
    <2> DEFINE o == Operand(Word, Int(64))
    <2>1. o \in Values /\ o.sema = Word /\ o.gen = Int(64)
      BY Fields, TypesOfValues
    <2>2. ~OnlyWords
      BY <1>7 DEF AddrOf, UsesOp, OnlyWords
    <2>3. Word.base = "INTEGER" /\ Word.width = 2 /\ Int(64).n = 64 /\ IsInt(Int(64))
      BY DEF Word, TypeSpec, Int, LLVM, IsInt
    <2> HIDE DEF o
    <2>4. Sound(o)
      BY <2>1, <2>2, <2>3 DEF Sound, Kind, Wide
    <2> QED BY <1>7, <2>4, PushKeeps DEF o, AddrOf, HasRoom, IInv
  <1>8. CASE Element
    <2>1. PICK n \in voc.indices, t \in voc.declared :
             /\ Has(n)
             /\ Push(n, Operand(t, IF ElementPtrFits(n, 0) THEN LLVMType(t) ELSE Bad))
      BY <1>8 DEF Element
    <2>2. n \in Nat /\ n > 0 /\ t \in Types
      BY VocabularyAssumption DEF IInv
    <2>3. n <= Len(operands) /\ Evaluating /\ Sound(operands[1])
      BY <2>1, <2>2, TopIs DEF Top
    <2>4. CASE ElementPtrFits(n, 0)
      BY <2>1, <2>2, <2>3, <2>4, VariableSound, PushKeeps DEF IInv
    <2>5. CASE ~ElementPtrFits(n, 0)
      <3>1. n # 1 \/ ~IsInt(operands[1].gen)
        BY <2>5 DEF ElementPtrFits
      <3>2. ~OnlyIntegers /\ ~OnlyWords
        BY <2>3, <3>1, TypesOfValues DEF Sound, Wide, WordSized, OnlyIntegers, OnlyWords
      <3> QED BY <2>1, <2>2, <2>3, <2>5, <3>2, BadIsNoWord, PushKeeps
    <2> QED BY <2>4, <2>5
  <1>9. CASE FuncCall
    <2>1. PICK ret \in voc.declared, param \in voc.declared :
             Push(1, Operand(ret, IF Top.gen = LLVMType(param) THEN LLVMType(ret) ELSE Bad))
      BY <1>9 DEF FuncCall
    <2>2. Sound(Top) /\ 1 <= Len(operands) /\ Evaluating /\ UsesOp("call")
      BY <1>9, TopIs DEF FuncCall
    <2>3. CASE Top.gen = LLVMType(param)
      BY <2>1, <2>2, <2>3, VariableSound, PushKeeps DEF IInv
    <2>4. CASE Top.gen # LLVMType(param)
      <3>1. ~OnlyIntegers
        BY <2>2 DEF OnlyIntegers, UsesOp
      <3>2. ~OnlyWords
        BY <2>2, <2>4 DEF Sound, WordSized, OnlyWords
      <3>3. ret \in Types
        BY VocabularyAssumption DEF IInv
      <3> QED BY <2>1, <2>2, <2>4, <3>1, <3>2, <3>3, BadIsNoWord, PushKeeps
    <2> QED BY <2>3, <2>4
  <1> QED BY <1>1, <1>2, <1>3, <1>4, <1>5, <1>6, <1>7, <1>8, <1>9 DEF Evaluate

-----------------------------------------------------------------------------
(* A statement: all that sema accepts of it must be what codegen needs.    *)
LEMMA StatementKeeps ==
    ASSUME IInv, NEW op, NEW t, NEW n \in Nat, NEW accepted, NEW verdict,
           Statement(op, t, n, accepted, verdict),
           accepted /\ OnlyWords => verdict = "ok",
           accepted /\ OnlyIntegers /\ op = "assign" => verdict = "ok"
    PROVE  IInv'
  <1>1. /\ operands' = <<>> /\ voc' = voc /\ stmt'.op = op
        /\ Len(operands) = n
        /\ outcome' = IF ~accepted THEN "rejected"
                      ELSE IF \E i \in 1..n : operands[i].gen = Bad THEN "bad"
                      ELSE verdict
    BY DEF Statement
  <1>2. \A i \in 1..n : Sound(operands[i])
    BY <1>1 DEF IInv
  <1>3. OnlyIntegers \/ OnlyWords => \A i \in 1..n : operands[i].gen # Bad
    BY <1>2, TypesOfValues DEF Sound, Wide, WordSized
  <1>4. OnlyWords => Fine'
    BY <1>1, <1>3 DEF Fine
  <1>5. OnlyIntegers /\ op = "assign" => Fine'
    BY <1>1, <1>3 DEF Fine
  <1>6. (OnlyWords' <=> OnlyWords) /\ (OnlyIntegers' <=> OnlyIntegers)
    BY <1>1 DEF OnlyWords, OnlyIntegers
  <1>7. AcceptedProgramsFit'
    BY <1>1, <1>4, <1>5, <1>6 DEF AcceptedProgramsFit, IntegerAssignmentsFit
  <1> QED BY <1>1, <1>7, EmptyKeeps

(* The operands of a statement that takes n.                               *)
LEMMA OperandsAre ==
    ASSUME IInv, NEW op, NEW t, NEW n \in Nat, NEW accepted, NEW verdict,
           Statement(op, t, n, accepted, verdict)
    PROVE  \A i \in 1..n : /\ operands[i].gen \in LLVMTypes
                           /\ OnlyIntegers => IsInt(operands[i].gen)
                           /\ OnlyWords => operands[i].gen = Int(16)
  <1>1. \A i \in 1..n : Sound(operands[i])
    BY DEF Statement, IInv
  <1> QED BY <1>1 DEF Sound, Values, Wide, WordSized

LEMMA AssignKeeps ==
    ASSUME IInv, Assign PROVE IInv'
  <1>1. PICK t \in voc.declared :
           Statement("assign", t, 1, Compatible(t, Top.sema),
                     Store(AsStored(Top.gen, LLVMType(t)), LLVMType(t)))
    BY DEF Assign
  <1> DEFINE accepted == Compatible(t, Top.sema)
             verdict  == Store(AsStored(Top.gen, LLVMType(t)), LLVMType(t))
  <1>2. OnlyIntegers \/ OnlyWords => IsInt(Top.gen) /\ IsInt(LLVMType(t))
    <2>1. OnlyIntegers => IsInt(Top.gen)
      BY <1>1, OperandsAre DEF Top
    <2>2. OnlyWords => Top.gen = Int(16) /\ LLVMType(t) = Int(16)
      BY <1>1, OperandsAre DEF Top, OnlyWords
    <2>3. OnlyIntegers => IsInt(LLVMType(t))
      BY VocabularyAssumption, LLVMTypeOf DEF IInv, OnlyIntegers
    <2> QED BY <2>1, <2>2, <2>3, TypesOfValues
  <1>3. OnlyIntegers \/ OnlyWords => verdict = "ok"
    BY <1>2 DEF Store, AsStored
  <1>4. Statement("assign", t, 1, accepted, verdict)
    BY <1>1
  <1> HIDE DEF accepted, verdict
  <1> QED BY <1>3, <1>4, StatementKeeps

LEMMA ElementKeeps ==
    ASSUME IInv, AssignElement PROVE IInv'
  <1>1. PICK n \in voc.indices, t \in voc.declared :
           Statement("element", t, n + 1, Compatible(t, Top.sema),
                     IF ElementPtrFits(n, 1) THEN Store(Top.gen, LLVMType(t)) ELSE "bad")
    BY DEF AssignElement
  <1> DEFINE accepted == Compatible(t, Top.sema)
             verdict  == IF ElementPtrFits(n, 1) THEN Store(Top.gen, LLVMType(t)) ELSE "bad"
  <1>2. n \in Nat
    BY VocabularyAssumption DEF IInv
  <1>3. OnlyWords => verdict = "ok"
    <2>1. SUFFICES ASSUME OnlyWords PROVE verdict = "ok"
      OBVIOUS
    <2>2. n = 1 /\ LLVMType(t) = Int(16)
      BY <2>1 DEF OnlyWords
    <2>3. operands[1].gen = Int(16) /\ operands[2].gen = Int(16)
      BY <1>1, <1>2, <2>1, <2>2, OperandsAre
    <2> QED BY <2>2, <2>3, TypesOfValues DEF ElementPtrFits, Store, Top
  <1>4. Statement("element", t, n + 1, accepted, verdict)
    BY <1>1
  <1> HIDE DEF accepted, verdict
  <1> QED BY <1>2, <1>3, <1>4, StatementKeeps

LEMMA LoopKeeps ==
    ASSUME IInv, Loop PROVE IInv'
  <1>1. PICK t \in voc.declared, stepped \in BOOLEAN, started \in BOOLEAN :
           LET n     == 1 + (IF stepped THEN 1 ELSE 0) + (IF started THEN 1 ELSE 0)
               start == operands[1].gen
               end   == operands[n].gen
               step  == operands[n - 1].gen
           IN Statement("for", t, n,
                        t.base = "INTEGER" /\ \A i \in 1..n : IsArithmetic(operands[i].sema),
                        IF end # LLVMType(t) \/ (stepped /\ ~IsInt(step)) THEN "bad"
                        ELSE IF started THEN Store(start, LLVMType(t)) ELSE "ok")
    BY DEF Loop
  <1> DEFINE n        == 1 + (IF stepped THEN 1 ELSE 0) + (IF started THEN 1 ELSE 0)
             accepted == t.base = "INTEGER" /\ \A i \in 1..n : IsArithmetic(operands[i].sema)
             verdict  == IF operands[n].gen # LLVMType(t) \/ (stepped /\ ~IsInt(operands[n - 1].gen))
                         THEN "bad"
                         ELSE IF started THEN Store(operands[1].gen, LLVMType(t)) ELSE "ok"
  <1>2. n \in Nat /\ n >= 1 /\ (stepped => n - 1 \in 1..n)
    OBVIOUS
  <1>3. Statement("for", t, n, accepted, verdict)
    BY <1>1
  <1> HIDE DEF n
  <1>4. OnlyWords => verdict = "ok"
    <2>1. SUFFICES ASSUME OnlyWords PROVE verdict = "ok"
      OBVIOUS
    <2>2. \A i \in 1..n : operands[i].gen = Int(16)
      BY <1>2, <1>3, <2>1, OperandsAre
    <2>3. LLVMType(t) = Int(16)
      BY <2>1 DEF OnlyWords
    <2> QED BY <1>2, <2>2, <2>3, TypesOfValues DEF Store
  <1> HIDE DEF accepted, verdict
  <1> QED BY <1>2, <1>3, <1>4, StatementKeeps

(* A value that must have the type of a variable, or be an integer.        *)
LEMMA WordsFit ==
    ASSUME IInv, OnlyWords, NEW op, NEW t, NEW accepted, NEW verdict,
           Statement(op, t, 1, accepted, verdict)
    PROVE  /\ Top.gen = Int(16) /\ IsInt(Top.gen)
           /\ \A s \in voc.declared : LLVMType(s) = Top.gen
  BY OperandsAre, TypesOfValues DEF Top, OnlyWords

LEMMA ValueKeeps ==
    ASSUME IInv, Constant \/ Return \/ ProcCall \/ Condition \/ Select \/ PushStmt
    PROVE  IInv'
  <1>1. CASE Constant
    <2>1. PICK t \in voc.declared :
             Statement("constant", t, 1, Compatible(t, Top.sema), Store(Top.gen, LLVMType(t)))
      BY <1>1 DEF Constant
    <2> DEFINE accepted == Compatible(t, Top.sema)
               verdict  == Store(Top.gen, LLVMType(t))
    <2>2. OnlyWords => verdict = "ok"
      BY <2>1, WordsFit DEF Store
    <2>3. Statement("constant", t, 1, accepted, verdict)
      BY <2>1
    <2> HIDE DEF accepted, verdict
    <2> QED BY <2>2, <2>3, StatementKeeps
  <1>2. CASE Return \/ ProcCall
    <2>1. PICK t \in voc.declared, op \in {"return", "call"} :
             \E accepted \in {Compatible(Top.sema, t)} :
                 Statement(op, t, 1, accepted, Fits(Top.gen = LLVMType(t)))
      BY <1>2 DEF Return, ProcCall
    <2>2. PICK accepted : Statement(op, t, 1, accepted, Fits(Top.gen = LLVMType(t)))
      BY <2>1
    <2> DEFINE verdict == Fits(Top.gen = LLVMType(t))
    <2>3. OnlyWords => verdict = "ok"
      BY <2>2, WordsFit DEF Fits
    <2>4. Statement(op, t, 1, accepted, verdict)
      BY <2>2
    <2> HIDE DEF verdict
    <2> QED BY <2>3, <2>4, StatementKeeps
  <1>3. CASE Condition \/ Select \/ PushStmt
    <2>1. PICK op \in {"condition", "case", "push"}, accepted \in BOOLEAN :
             Statement(op, Word, 1, accepted, Fits(IsInt(Top.gen)))
      BY <1>3 DEF Condition, Select, PushStmt
    <2> DEFINE verdict == Fits(IsInt(Top.gen))
    <2>2. OnlyWords => verdict = "ok"
      BY <2>1, WordsFit DEF Fits
    <2>3. Statement(op, Word, 1, accepted, verdict)
      BY <2>1
    <2> HIDE DEF verdict
    <2> QED BY <2>2, <2>3, StatementKeeps
  <1> QED BY <1>1, <1>2, <1>3

LEMMA PrintKeeps ==
    ASSUME IInv, PrintStmt PROVE IInv'
  <1>1. PICK spec \in {"d", "f", "s"} :
           Statement("print", Word, 1, PrintAccepts(spec, Top.sema),
                     Store(Promoted(spec, Top.gen), Reads(spec)))
    BY DEF PrintStmt
  <1> DEFINE accepted == PrintAccepts(spec, Top.sema)
             verdict  == Store(Promoted(spec, Top.gen), Reads(spec))
  <1>2. accepted /\ OnlyWords => verdict = "ok"
    <2>1. SUFFICES ASSUME accepted, OnlyWords PROVE verdict = "ok"
      OBVIOUS
    <2>2. Top.gen = Int(16)
      BY <1>1, <2>1, WordsFit
    <2>3. Top.sema.base \in {"INTEGER", "BIT"}
      <3>1. Sound(operands[1])
        BY <1>1 DEF Statement, IInv
      <3> QED BY <2>1, <3>1 DEF Sound, WordSized, Top
    <2>4. spec \in {"d", "f"}
      BY <2>1, <2>3 DEF PrintAccepts
    <2>5. Int(16).n = 16 /\ IsInt(Int(16))
      BY DEF Int, LLVM, IsInt
    <2>6. CASE spec = "d"
      BY <2>2, <2>5, <2>6 DEF Store, Promoted, Reads
    <2>7. CASE spec = "f"
      BY <2>2, <2>5, <2>7 DEF Store, Promoted, Reads
    <2> QED BY <2>4, <2>6, <2>7
  <1>3. Statement("print", Word, 1, accepted, verdict)
    BY <1>1
  <1> HIDE DEF accepted, verdict
  <1> QED BY <1>2, <1>3, StatementKeeps

LEMMA PopKeeps ==
    ASSUME IInv, PopStmt PROVE IInv'
  <1>1. PICK t \in voc.declared :
           Statement("pop", t, 0, TRUE, Store(Int(16), LLVMType(t)))
    BY DEF PopStmt
  <1> DEFINE verdict == Store(Int(16), LLVMType(t))
  <1>2. OnlyWords => verdict = "ok"
    BY DEF OnlyWords, Store
  <1>3. Statement("pop", t, 0, TRUE, verdict)
    BY <1>1
  <1> HIDE DEF verdict
  <1> QED BY <1>2, <1>3, StatementKeeps

-----------------------------------------------------------------------------
LEMMA InitIInv == Init => IInv
  BY DEF Init, IInv, AcceptedProgramsFit, IntegerAssignmentsFit, Fine, Idle

LEMMA NextIInv == IInv /\ [Next]_vars => IInv'
  <1>1. SUFFICES ASSUME IInv, [Next]_vars PROVE IInv'
    OBVIOUS
  <1>2. CASE Evaluate
    BY <1>1, <1>2, EvaluateKeeps
  <1>3. CASE Assign \/ AssignElement \/ Loop
    BY <1>1, <1>3, AssignKeeps, ElementKeeps, LoopKeeps
  <1>4. CASE Constant \/ Return \/ ProcCall \/ Condition \/ Select \/ PushStmt
    BY <1>1, <1>4, ValueKeeps
  <1>5. CASE PrintStmt \/ PopStmt
    BY <1>1, <1>5, PrintKeeps, PopKeeps
  <1>6. CASE UNCHANGED vars
    <2>1. voc' = voc /\ operands' = operands /\ stmt' = stmt /\ outcome' = outcome
      BY <1>6 DEF vars
    <2>2. \A v : Sound(v)' <=> Sound(v)
      BY <2>1 DEF Sound, OnlyIntegers, OnlyWords
    <2>3. AcceptedProgramsFit' <=> AcceptedProgramsFit
      BY <2>1 DEF AcceptedProgramsFit, IntegerAssignmentsFit, Fine, OnlyIntegers, OnlyWords
    <2> QED BY <1>1, <2>1, <2>2, <2>3 DEF IInv
  <1> QED BY <1>1, <1>2, <1>3, <1>4, <1>5, <1>6 DEF Next

LEMMA Invariance == Spec => []IInv
  BY InitIInv, NextIInv, PTL DEF Spec

(* The two passes agree on every operand of every expression: what can be  *)
(* generated is of the kind that sema inferred, and an integer expression  *)
(* is computed in no fewer bits than its type has.                         *)
THEOREM ExprTypesOperandsAgree == Spec => []OperandsAgree
  <1>1. IInv => OperandsAgree
    <2>1. SUFFICES ASSUME IInv PROVE OperandsAgree
      OBVIOUS
    <2>2. \A i \in DOMAIN operands : Sound(operands[i])
      BY <2>1 DEF IInv
    <2>3. KindsAgree
      BY <2>2 DEF KindsAgree, Sound, Kind
    <2>4. IntegersAreWideEnough
      BY <2>2 DEF IntegersAreWideEnough, Sound, Wide
    <2> QED BY <2>3, <2>4 DEF OperandsAgree
  <1> QED BY <1>1, Invariance, PTL

(* A program of words that sema accepts can be generated, whatever its     *)
(* statements and the size of its expressions, and so can the assignments  *)
(* of one that keeps to integers of any widths.                            *)
THEOREM ExprTypesAcceptedFit == Spec => []AcceptedProgramsFit
  <1>1. IInv => AcceptedProgramsFit
    BY DEF IInv
  <1> QED BY <1>1, Invariance, PTL
=============================================================================
