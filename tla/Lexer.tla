------------------------------- MODULE Lexer -------------------------------
(***************************************************************************)
(* The lexer, src/src/lexer/pl11_lexer.cpp: Lexer::next() and the token    *)
(* that peek() keeps, called by a parser in any order.                     *)
(*                                                                         *)
(* A character is a string of length one and stands for both cases of a    *)
(* letter; "COMMENT" stands for the seven letters of that word.  The loops *)
(* that consume characters of a class are the positions behind them.  The  *)
(* value of a real and the contents of a string are left out; a real that  *)
(* is out of range is one of the outcomes.                                 *)
(***************************************************************************)
EXTENDS Sequences, FiniteSetsExt

CONSTANTS Sources,     \* the texts to be read: sequences of characters
          LongWidth,   \* bits of a long long, in which literals are kept
          IntWidth     \* bits of an int, the type of a register number

(***************************************************************************)
(* Characters.  Every letter and digit that some test of the code singles  *)
(* out is here, with others that stand for the rest.                       *)
(***************************************************************************)
Space    == {" ", "\n"}
Digit    == {"0", "1", "2", "8"}
HexDigit == Digit \cup {"B", "E"}
Letter   == {"B", "E", "O", "R", "COMMENT"}
WordChar == Letter \cup Digit \cup {"_"}

Simple   == {":", "<", ">", "=", "+", "-", "*", "/", "^", "(", ")", ";", ",", "."}
Double   == {<<"<", "=">>, <<">", "=">>, <<"=", ">">>, <<"/", "=">>}

Chars == Space \cup WordChar \cup Simple \cup {"#", "'", "\\", "%", "$"}

ASSUME SourcesAssumption == Sources \subseteq Seq(Chars)
ASSUME WidthAssumption == LongWidth \in Nat \ {0} /\ IntWidth \in Nat \ {0}

VARIABLES src,         \* src_
          pos,         \* pos_: the next character, from 1
          line, col,   \* line_ and col_
          hasPeek, peekTok,   \* hasPeek_, and peekTok_ in a sequence
          calling,     \* the call under way: "next", "peek" or "none"
          read,        \* history: the tokens read from the text
          given,       \* history: the tokens that next() has returned
          status       \* "lexing", "done" (EOF returned) or "aborted"

textVars == <<src, pos, line, col>>
peekVars == <<hasPeek, peekTok>>
vars     == <<textVars, peekVars, calling, read, given, status>>

-----------------------------------------------------------------------------
(* The keywords that can be written with these letters.                    *)
Keywords == {<<"O", "R">>}

Text(i, j) == SubSeq(src, i, j - 1)
At(i)      == IF i <= Len(src) THEN src[i] ELSE "eof"

(* The position behind the characters of C from i on.                      *)
Past(i, C) == Min({j \in i..Len(src) + 1 : At(j) \notin C})

DigitValue == [d \in HexDigit |-> CASE d = "0" -> 0 [] d = "1" -> 1 [] d = "2" -> 2
                                    [] d = "8" -> 8 [] d = "B" -> 11 [] d = "E" -> 14]
ValueOf(base, ds) ==
    LET value[k \in 0..Len(ds)] ==
          IF k = 0 THEN 0 ELSE value[k - 1] * base + DigitValue[ds[k]]
    IN value[Len(ds)]

(* std::stoll and std::stoi: the value of the longest prefix that is a     *)
(* number; an exception if there is none or if it does not fit.            *)
Convert(base, ds, width) ==
    LET ends == {k \in DOMAIN ds : DigitValue[ds[k]] >= base} \cup {Len(ds) + 1}
        v    == ValueOf(base, SubSeq(ds, 1, Min(ends) - 1))
    IN IF Min(ends) = 1 \/ v >= 2^(width - 1) THEN [ok |-> FALSE, v |-> 0]
       ELSE [ok |-> TRUE, v |-> v]

-----------------------------------------------------------------------------
(***************************************************************************)
(* What is read at i: a token that ends before position to, or an          *)
(* exception of the conversion, which nobody catches.                      *)
(***************************************************************************)
Lexeme(kind, to, v)    == [kind |-> kind, to |-> to, value |-> v]
Number(kind, to, conv) == Lexeme(IF conv.ok THEN kind ELSE "exception", to, conv.v)

ReadIdentifierOrKeyword(i) ==
    LET to     == Past(i, WordChar)
        text   == Text(i, to)
        number == Convert(10, Tail(text), IntWidth)
        word   == Lexeme(IF text \in Keywords THEN "keyword" ELSE "identifier", to, 0)
    IN IF Len(text) >= 2 /\ Head(text) = "R" /\ \A k \in 2..Len(text) : text[k] \in Digit
       THEN IF number.ok /\ number.v > 15 THEN word ELSE Number("register", to, number)
       ELSE word

ReadHex(i) == LET to == Past(i + 1, HexDigit)
              IN Number("integer", to, Convert(16, Text(i + 1, to), LongWidth))

(* Variant: no sign in the exponent.                                       *)
ReadRealUnsigned(point) ==
    LET frac == Past(point + 1, Digit)
    IN Lexeme("real", IF At(frac) = "E" THEN Past(frac + 1, Digit) ELSE frac, 0)

ReadReal(point) ==
    LET frac == Past(point + 1, Digit)
        sign == IF At(frac + 1) \in {"+", "-"} THEN 1 ELSE 0
    IN Lexeme("real", IF At(frac) = "E" THEN Past(frac + 1 + sign, Digit) ELSE frac, 0)

(* Variant: a leading zero means nothing.                                  *)
BaseIsTen(ds) == 10
BaseOf(ds) == IF Len(ds) > 1 /\ Head(ds) = "0" THEN 8 ELSE 10

ReadNumber(i) ==
    LET to    == Past(i, Digit)
        value == Convert(BaseOf(Text(i, to)), Text(i, to), LongWidth)
    IN CASE At(i) = "#"                         -> ReadHex(i)
         [] At(to) = "." /\ At(to + 1) # "."    -> ReadReal(to)
         [] At(to) = "B"                        -> Number("address", to + 1, value)
         [] OTHER                               -> Number("integer", to, value)

(* Where a string ends whose quote is at i: behind the next quote that is  *)
(* not one of a pair and not behind a backslash, or at the end of the text.*)
CloseOf(i) ==
    LET close[p \in 1..Len(src) + 2] ==
          IF p > Len(src) THEN Len(src) + 1
          ELSE IF src[p] = "\\" \/ (src[p] = "'" /\ At(p + 1) = "'") THEN close[p + 2]
          ELSE IF src[p] = "'" THEN p + 1
          ELSE close[p + 1]
    IN close[i + 1]

ReadStringOrBitLiteral(i) ==
    LET to == CloseOf(i)
        content == Text(i + 1, to - 1)
    IN IF At(to) = "B" /\ \A k \in DOMAIN content : content[k] \in {"0", "1"}
       THEN Lexeme("bits", to + 1, ValueOf(2, content) % 2^LongWidth)
       ELSE Lexeme("string", to, 0)

ReadOperator(i) ==
    IF <<At(i), At(i + 1)>> \in Double THEN Lexeme("operator", i + 2, 0)
    ELSE Lexeme(IF At(i) \in Simple THEN "operator" ELSE "error", i + 1, 0)

Read(i) ==
    CASE i > Len(src)                  -> Lexeme("EOF", i, 0)
      [] At(i) \in Letter \cup {"_"}   -> ReadIdentifierOrKeyword(i)
      [] At(i) \in Digit \cup {"#"}    -> ReadNumber(i)
      [] At(i) = "'"                   -> ReadStringOrBitLiteral(i)
      [] OTHER                         -> ReadOperator(i)

-----------------------------------------------------------------------------
(***************************************************************************)
(* The machine.                                                            *)
(***************************************************************************)
Init ==
    /\ src \in Sources
    /\ pos = 1 /\ line = 1 /\ col = 1
    /\ hasPeek = FALSE /\ peekTok = <<>>
    /\ calling = "none"
    /\ read = <<>> /\ given = <<>>
    /\ status = "lexing"

(* "COMMENT" is seven characters wide.                                     *)
Columns(i, j) == (j - i) + 6 * Cardinality({k \in i..j - 1 : src[k] = "COMMENT"})
Newlines(i, j) == {k \in i..j - 1 : src[k] = "\n"}

(* advance(), up to the character at to.                                   *)
LineAt(to) == line + Cardinality(Newlines(pos, to))
ColAt(to)  == IF Newlines(pos, to) = {} THEN col + Columns(pos, to)
              ELSE 1 + Columns(Max(Newlines(pos, to)) + 1, to)
AdvanceTo(to) ==
    /\ pos' = to /\ line' = LineAt(to) /\ col' = ColAt(to)
    /\ UNCHANGED src

Return(t) ==
    /\ given' = Append(given, t)
    /\ status' = IF t.kind = "EOF" THEN "done" ELSE status

Idle == status = "lexing" /\ calling = "none"

(* Variant: the token stays in the cache.                                  *)
NextPeekedKept ==
    /\ Idle /\ hasPeek
    /\ Return(peekTok[1])
    /\ UNCHANGED <<textVars, hasPeek, peekTok, calling, read>>

(* next() with a token kept by peek().                                     *)
NextPeeked ==
    /\ Idle /\ hasPeek
    /\ hasPeek' = FALSE
    /\ Return(peekTok[1])
    /\ UNCHANGED <<textVars, peekTok, calling, read>>

CallNext ==
    /\ Idle /\ ~hasPeek
    /\ calling' = "next"
    /\ UNCHANGED <<textVars, peekVars, read, given, status>>

CallPeek ==
    /\ Idle /\ ~hasPeek
    /\ calling' = "peek"
    /\ UNCHANGED <<textVars, peekVars, read, given, status>>

Called      == status = "lexing" /\ calling # "none"
(* Variant: a word that begins with COMMENT is one.                        *)
AtCommentPrefix == At(pos) = "COMMENT"
AtComment   == At(pos) = "COMMENT" /\ At(pos + 1) \notin WordChar
Skipping(to) == /\ AdvanceTo(to)
                /\ UNCHANGED <<peekVars, calling, read, given, status>>

SkipWhitespace ==
    /\ Called /\ At(pos) \in Space
    /\ Skipping(Past(pos, Space))

(* Variant: a comment is skipped if its line has an end.                   *)
SkipTerminatedLine ==
    /\ Called /\ At(pos) = "%"
    /\ LET to == Past(pos, Chars \ {"\n"})
       IN Skipping(IF to > Len(src) THEN pos ELSE to)

SkipLineComment ==
    /\ Called /\ At(pos) = "%"
    /\ Skipping(Past(pos, Chars \ {"\n"}))

SkipCommentStatement ==
    /\ Called /\ AtComment
    /\ LET semi == Past(pos + 1, Chars \ {";"})
       IN Skipping(IF semi <= Len(src) THEN semi + 1 ELSE semi)

AtToken == Called /\ At(pos) \notin Space \cup {"%"} /\ ~AtComment

(* Variant: the place is always taken behind the token.                    *)
PlaceBehind(r) == [line |-> LineAt(r.to), col |-> ColAt(r.to)]

(* The place of a token is taken before it is read, that of an error token *)
(* behind the character.                                                   *)
Place(r) == IF r.kind = "error" THEN [line |-> LineAt(r.to), col |-> ColAt(r.to)]
            ELSE [line |-> line, col |-> col]

ReadToken ==
    /\ AtToken
    /\ \E r \in {Read(pos)} :
         /\ r.kind # "exception"
         /\ AdvanceTo(r.to)
         /\ LET t == [kind |-> r.kind, from |-> pos, to |-> r.to, value |-> r.value,
                      line |-> Place(r).line, col |-> Place(r).col]
            IN /\ read' = Append(read, t)
               /\ IF calling = "peek"
                  THEN peekTok' = <<t>> /\ hasPeek' = TRUE /\ UNCHANGED <<given, status>>
                  ELSE Return(t) /\ UNCHANGED peekVars
    /\ calling' = "none"

(* std::stod may find any real out of range, its value being left out.     *)
Abort ==
    /\ AtToken
    /\ Read(pos).kind \in {"exception", "real"}
    /\ status' = "aborted"
    /\ UNCHANGED <<textVars, peekVars, calling, read, given>>

Next == NextPeeked \/ CallNext \/ CallPeek \/ SkipWhitespace \/ SkipLineComment
        \/ SkipCommentStatement \/ ReadToken \/ Abort

Spec == Init /\ [][Next]_vars

(* tokenize() and the parser call next() until EOF.                        *)
FairSpec == Spec /\ WF_vars(Next)

-----------------------------------------------------------------------------
(***************************************************************************)
(* Properties.                                                             *)
(***************************************************************************)
(* However next() and peek() are mixed, next() returns the tokens of the   *)
(* text in order, each once; one that was peeked is returned next.         *)
PeekLosesNothing == read = given \o (IF hasPeek THEN peekTok ELSE <<>>)

(* The place that a diagnostic names is the place of the token, counted    *)
(* from the start of the text; an error token names the one behind it.     *)
Located(t, i) ==
    LET before == Newlines(1, i)
    IN /\ t.line = 1 + Cardinality(before)
       /\ t.col = 1 + Columns(1 + Max({0} \cup before), i)
PlacesAreTrue ==
    \A k \in DOMAIN read : Located(read[k], IF read[k].kind = "error" THEN read[k].to
                                            ELSE read[k].from)

(* White space or one comment, from i up to j.                             *)
All(i, j, C) == \A k \in i..j - 1 : src[k] \in C
Gap(i, j) ==
    \/ All(i, j, Space)
    \/ src[i] = "%" /\ All(i, j, Chars \ {"\n"}) /\ At(j) \in {"\n", "eof"}
    \/ /\ src[i] = "COMMENT" /\ At(i + 1) \notin WordChar
       /\ All(i, j - 1, Chars \ {";"})
       /\ src[j - 1] = ";" \/ j > Len(src)

(* Pieces of the text, one behind the other, from i to j.                  *)
Chain(Piece(_, _), i, j) ==
    \E cuts \in SUBSET (i..j) :
        /\ {i, j} \subseteq cuts
        /\ \A a, b \in cuts : a < b /\ (\A c \in cuts : c <= a \/ b <= c) => Piece(a, b)

(* What may stand between two tokens.                                      *)
Blank(i, j) == Chain(Gap, i, j)

(* Every character is in exactly one token or between two of them, and the *)
(* text between is white space and comments, so nothing is dropped, whether*)
(* in a comment that is not closed, in a % in a COMMENT or the other way.  *)
NothingIsDropped ==
    \A k \in DOMAIN read :
        /\ read[k].kind = "EOF" <=> read[k].from = Len(src) + 1
        /\ Blank(IF k = 1 THEN 1 ELSE read[k - 1].to, read[k].from)

(* Every call to next() returns, and EOF is reached: nothing is read over  *)
(* and over again.                                                         *)
Termination == <>(status # "lexing")
-----------------------------------------------------------------------------
(***************************************************************************)
(* The forms of the tokens, each the texts from i up to j that             *)
(* src/grammar/pl11.ebnf gives under Literals and Lexical Tokens, with     *)
(* what the lexer takes beyond it.                                         *)
(***************************************************************************)
(* The inside of a string: characters, pairs of quotes, and escapes.       *)
Unit(i, j) ==
    \/ j = i + 1 /\ src[i] \notin {"'", "\\"}
    \/ j = i + 2 /\ src[i] = "'" /\ src[i + 1] = "'"
    \/ j = i + 2 /\ src[i] = "\\"

(* A quote right behind the closing one would make a pair of the two.      *)
Quoted(i, j) == /\ j >= i + 2 /\ src[i] = "'" /\ src[j - 1] = "'" /\ At(j) # "'"
                /\ Chain(Unit, i + 1, j - 1)

(* Behind the point of a real: digits, and an exponent or none.            *)
AfterPoint(p, j) ==
    \/ All(p + 1, j, Digit)
    \/ \E e \in p + 1..j - 1 :
          /\ All(p + 1, e, Digit) /\ src[e] = "E"
          /\ All(e + (IF At(e + 1) \in {"+", "-"} THEN 2 ELSE 1), j, Digit)

RealForm(i, j) ==
    \E p \in i + 1..j - 1 :
        All(i, p, Digit) /\ src[p] = "." /\ At(p + 1) # "." /\ AfterPoint(p, j)

WordForm(i, j)     == src[i] \in Letter \cup {"_"} /\ All(i, j, WordChar)
IntegerForm(i, j)  == \/ All(i, j, Digit)
                      \/ j > i + 1 /\ src[i] = "#" /\ All(i + 1, j, HexDigit)
AddressForm(i, j)  == j > i + 1 /\ All(i, j - 1, Digit) /\ src[j - 1] = "B"
BitsForm(i, j)     == /\ j >= i + 3 /\ src[j - 1] = "B" /\ Quoted(i, j - 1)
                      /\ All(i + 1, j - 2, {"0", "1"})
OperatorForm(i, j) == Text(i, j) \in Double \cup {<<c>> : c \in Simple}

Form(kind, i, j) ==
    \/ kind = "word"     /\ WordForm(i, j)
    \/ kind = "integer"  /\ IntegerForm(i, j)
    \/ kind = "address"  /\ AddressForm(i, j)
    \/ kind = "real"     /\ RealForm(i, j)
    \/ kind = "bits"     /\ BitsForm(i, j)
    \/ kind = "string"   /\ Quoted(i, j)
    \/ kind = "operator" /\ OperatorForm(i, j)

Forms == {"word", "integer", "address", "real", "bits", "string", "operator"}
FormOf(kind) == IF kind \in {"identifier", "keyword", "register"} THEN "word" ELSE kind

(* Where a token that begins at i could end.                               *)
Ends(i) == {j \in i + 1..Len(src) + 1 : \E f \in Forms : Form(f, i, j)}
Longest(t) ==
    CASE t.kind = "error" -> Ends(t.from) = {} /\ src[t.from] # "'"
      [] t.kind = "string" /\ Ends(t.from) = {} -> t.to = Len(src) + 1
      [] OTHER -> t.to = Max(Ends(t.from)) /\ Form(FormOf(t.kind), t.from, t.to)

(* A token is the longest text of any form that begins where it begins,    *)
(* and of its own form: no token is cut short, none swallows the next, and *)
(* a character is an error only where nothing could begin.  A string whose *)
(* quote is never closed goes to the end of the text.                      *)
LongestMatch == \A k \in DOMAIN read : read[k].kind # "EOF" => Longest(read[k])
=============================================================================
