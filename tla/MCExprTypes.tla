---------------------------- MODULE MCExprTypes ----------------------------
(***************************************************************************)
(* Vocabularies for TLC.                                                   *)
(***************************************************************************)
EXTENDS ExprTypes

Vocabulary(declared, literals, operators) ==
    [declared |-> declared, literals |-> literals, operators |-> operators,
     indices |-> {1}]

IntegerOps == {"minus", "not", "rel", "arith", "mod", "bits", "shift", "elem"}

(* The three integer types, literals of every size, addresses.             *)
IntegerVocabulary ==
    Vocabulary({Byte, Word, Long}, {IntLiteral(16), IntLiteral(32), IntLiteral(64)},
               IntegerOps \cup {"ref"})

(* Words, bit strings of 16 and of no stated length.                       *)
WordVocabulary ==
    Vocabulary({Word, Bit, TypeSpec("BIT", 16)}, {IntLiteral(16), BitLiteral},
               IntegerOps \cup {"ind", "call"})

(* A bit of everything.                                                    *)
WideVocabulary ==
    Vocabulary({Word, Real, Real8, Character(2)},
               {IntLiteral(16), RealLiteral, StringLiteral(2), BitLiteral},
               {"minus", "not", "rel", "arith", "mod"})

MCVocabularies == {IntegerVocabulary, WordVocabulary, WideVocabulary}
=============================================================================
