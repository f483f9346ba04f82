------------------------------ MODULE MCLexer ------------------------------
(***************************************************************************)
(* Texts for TLC: all short ones over a few characters, one set for each   *)
(* kind of token; and the values of the literals, as sums.                 *)
(***************************************************************************)
EXTENDS Lexer

LOCAL INSTANCE SequencesExt

UpTo(n, chars) == UNION {[1..k -> chars] : k \in 0..n}

NumberTexts   == UpTo(4, {"0", "1", "8", ".", "E", "B"})
HexTexts      == UpTo(4, {"#", "1", "B", "O", " ", "+"})
ExponentTexts == {<<"1", ".">> \o t : t \in UpTo(4, {"E", "+", "-", "1", "."})}
WordTexts     == UpTo(4, {"O", "R", "1", "8", "_", "$"})
StringTexts   == UpTo(5, {"'", "\\", "1", "B"})
CommentTexts  == UpTo(5, {"COMMENT", ";", "%", "\n", "O", " "})
OperatorTexts == UpTo(4, {"<", "=", ">", "/", "$", "\n", ";"})

MCSources == NumberTexts \cup HexTexts \cup ExponentTexts \cup WordTexts
             \cup StringTexts \cup CommentTexts \cup OperatorTexts

-----------------------------------------------------------------------------
Sum(base, i, j) ==
    MapThenSumSet(LAMBDA k : DigitValue[src[k]] * base^(j - 1 - k), i..j - 1)

Octal == Digit \ {"8"}
OctalForm(i, j) == j > i + 1 /\ src[i] = "0" /\ All(i, j, Octal)

(* The value of the documented number from i to j; -1 if it is none.       *)
Documented(i, j) ==
    CASE src[i] = "#" /\ j > i + 1               -> Sum(16, i + 1, j)
      [] OctalForm(i, j)                         -> Sum(8, i, j)
      [] All(i, j, Digit) /\ (src[i] # "0" \/ j = i + 1) -> Sum(10, i, j)
      [] OTHER                                   -> -1

(* A literal has the value of its digits in the base that it is written    *)
(* in: octal with a leading zero, hexadecimal behind #, decimal otherwise. *)
(* (0 followed by an 8 is no documented literal.)  An address is octal     *)
(* only if it begins with 0: the others, 177560B for one, are read in base *)
(* 10, against the reference, and nothing is claimed of them.              *)
ValuesAreRight ==
    \A t \in ToSet(read) :
        CASE t.kind = "integer" -> Documented(t.from, t.to) \in {-1, t.value}
          [] t.kind = "address" ->
               OctalForm(t.from, t.to - 1) => t.value = Sum(8, t.from, t.to - 1)
          [] t.kind = "bits"    ->
               t.value = Sum(2, t.from + 1, t.to - 2) % 2^LongWidth
          [] OTHER              -> TRUE

(* The compiler dies only of a # without digits and of a number that does  *)
(* not fit into its type (of which reals any may be one): never of a       *)
(* literal that has a value.                                               *)
AbortsAreExplained ==
    status = "aborted" =>
        LET to == Past(pos, WordChar \cup {"#"})
        IN \/ At(pos) = "#" /\ At(pos + 1) \notin HexDigit
           \/ At(pos) = "R" /\ Sum(10, pos + 1, to) >= 2^(IntWidth - 1)
           \/ \E j \in pos + 1..to : Documented(pos, j) >= 2^(LongWidth - 1)
           \/ \E j \in pos + 1..Len(src) + 1 : RealForm(pos, j)

(* What becomes of a literal: its value, or the end of the compiler if it  *)
(* has none.  Addresses without a leading zero are left out (see above).   *)
LiteralsAreRight == ValuesAreRight /\ AbortsAreExplained
=============================================================================
