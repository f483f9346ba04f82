------------------------------ MODULE MCParser ------------------------------
(***************************************************************************)
(* Inputs for TLC: what can be written with a few tokens, each vocabulary  *)
(* bringing together the constructs that might be taken for one another.   *)
(***************************************************************************)
EXTENDS Grammar, TLC

Frame == {"BEGIN", "END"}

Branches   == Frame \cup {"IF", "x", "THEN", "ELSE", "RETURN", ";"}
Loops      == Frame \cup {"REPEAT", "DO", "UNTIL", "x", ";"}
Counts     == Frame \cup {"FOR", "WHILE", "x", "FROM", "STEP", "TO", "DOWNTO", "DO", ";"}
Operations == Frame \cup {"x", "+", "*", "=", "=>"}
Operands   == Frame \cup {"x", "R", "SP", "-", "+", "(", ")", "^", "=>"}
Calls      == Frame \cup {"CALL", "PUSH", "POP", "IND", "REF", "x", "n", "(", ")", ","}
Cases      == Frame \cup {"CASE", "x", "OF", "n", ":", "RETURN", ";"}
Texts      == Frame \cup {"ASM", "PRINT", "GOTO", "s", "(", ")", ",", "x"}
Data       == Frame \cup {"WORD", "REAL", "x", "n", ",", "(", ")", "ARRAY", "CONSTANT", "=",
                          "*", ";"}
Procs      == Frame \cup {"PROCEDURE", "WORD", "x", ";", "(", ")", "IN", "OUT", "FORWARD"}

Bounds     == Branches :> 11 @@ Loops :> 9 @@ Counts :> 9 @@ Operations :> 10 @@
               Operands :> 8 @@ Calls :> 8 @@ Cases :> 9 @@ Texts :> 9 @@
               Data :> 8 @@ Procs :> 10
Vocabs     == DOMAIN Bounds

(* TLC computes a definition without parameters once, but not the one that *)
(* stands for a constant, hence these.                                     *)
MCMaxTokens    == Bounds
MCVocabularies == Vocabs
=============================================================================
