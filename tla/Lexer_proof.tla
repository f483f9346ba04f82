---------------------------- MODULE Lexer_proof ----------------------------
(***************************************************************************)
(* The lexer on texts of every length: the token that peek() keeps is      *)
(* given out once and in its place, whatever the scanners make of the      *)
(* text; every token knows its line and column; between two tokens there   *)
(* is nothing but white space and comments; and a token is the longest     *)
(* text of any form that could stand where it stands.                      *)
(*                                                                         *)
(* All but the first need the scanners: each of them ends behind where it  *)
(* began and within the text (ReadProperties), which for a string is a     *)
(* fact about a scan defined by recursion from the end of the text         *)
(* (CloseProperties).  Then lines and columns add up over adjacent parts   *)
(* of the text (AdvanceLocates), and what is skipped before a token is a   *)
(* chain of complete pieces of blank text (BlankExtends).  For the last,   *)
(* the scan of a string ends where a chain of characters, pairs and        *)
(* escapes ends (ScanFindsString, StringIsFound), and each scanner is      *)
(* compared with the forms that begin with its first character.            *)
(***************************************************************************)
EXTENDS Lexer, FiniteSetTheorems, TLAPS

(* A call to either function that reads begins with the cache empty, and   *)
(* what is in the cache is the last token read.                            *)
Cached(S) == /\ read \in Seq(S) /\ given \in Seq(S) /\ peekTok \in Seq(S)
             /\ hasPeek \in BOOLEAN
             /\ hasPeek => \E t \in S : peekTok = <<t>>
             /\ calling # "none" => ~hasPeek

IInv == (\E S : Cached(S)) /\ PeekLosesNothing

(* Append adds a sequence of one.                                          *)
LEMMA AppendIsConcatenation ==
    ASSUME NEW S, NEW s \in Seq(S), NEW t \in S
    PROVE  Append(s, t) = s \o <<t>>
  OBVIOUS

(* A sequence of tokens stays one when there are more tokens.              *)
LEMMA MoreTokens ==
    ASSUME NEW S, NEW t, NEW s \in Seq(S)
    PROVE  s \in Seq(S \cup {t})
  OBVIOUS

(* Nothing has been read and nothing is kept.                              *)
LEMMA InitIInv == Init => IInv
  <1>1. SUFFICES ASSUME Init PROVE IInv
    OBVIOUS
  <1>2. Cached({})
    <2>1. <<>> \in Seq({})
      OBVIOUS
    <2> QED BY <1>1, <2>1, Zenon DEF Init, Cached
  <1>3. PeekLosesNothing
    BY <1>1 DEF Init, PeekLosesNothing
  <1> QED BY <1>2, <1>3 DEF IInv

(* The kept token is given out.                                            *)
LEMMA NextPeekedKeeps ==
    ASSUME IInv, NextPeeked PROVE IInv'
  <1>1. PICK S : Cached(S)
    BY DEF IInv
  <1>2. /\ hasPeek /\ calling = "none" /\ calling' = calling
        /\ hasPeek' = FALSE /\ peekTok' = peekTok /\ read' = read
        /\ given' = Append(given, peekTok[1])
    BY DEF NextPeeked, Idle, Return
  <1>3. PICK t \in S : peekTok = <<t>>
    BY <1>1, <1>2, Zenon DEF Cached
  <1>4. peekTok[1] = t
    BY <1>3
  <1>5. Cached(S)'
    <2>1. given' \in Seq(S)
      BY <1>1, <1>2, <1>3, <1>4 DEF Cached
    <2> QED BY <1>1, <1>2, <2>1, Zenon DEF Cached
  <1>6. given' = given \o peekTok
    BY <1>1, <1>2, <1>3, <1>4, AppendIsConcatenation DEF Cached
  <1>7. PeekLosesNothing'
    BY <1>1, <1>2, <1>5, <1>6 DEF PeekLosesNothing, Cached, IInv
  <1> QED BY <1>5, <1>7 DEF IInv

(* A token is read, for the caller of next() or into the cache.            *)
LEMMA ReadTokenKeeps ==
    ASSUME IInv, ReadToken PROVE IInv'
  <1>1. PICK S : Cached(S)
    BY DEF IInv
  <1>2. PICK t : /\ read' = Append(read, t)
                 /\ \/ /\ peekTok' = <<t>> /\ hasPeek' = TRUE /\ given' = given
                    \/ /\ peekTok' = peekTok /\ hasPeek' = hasPeek
                       /\ given' = Append(given, t)
    BY DEF ReadToken, Return, peekVars
  <1>3. calling' = "none" /\ ~hasPeek
    BY <1>1 DEF ReadToken, AtToken, Called, Cached
  <1> DEFINE T == S \cup {t}
  <1>4. read \in Seq(T) /\ given \in Seq(T) /\ peekTok \in Seq(T) /\ t \in T
    BY <1>1, MoreTokens DEF Cached
  <1> HIDE DEF T
  <1>5. read = given
    BY <1>1, <1>3 DEF PeekLosesNothing, IInv, Cached
  <1>6. Cached(T)'
    <2>1. read' \in Seq(T) /\ given' \in Seq(T) /\ peekTok' \in Seq(T)
      <3>1. Append(read, t) \in Seq(T) /\ Append(given, t) \in Seq(T) /\ <<t>> \in Seq(T)
        BY <1>4
      <3> QED BY <1>2, <1>4, <3>1
    <2>2. hasPeek' \in BOOLEAN /\ (hasPeek' => \E s \in T : peekTok' = <<s>>)
      <3>1. CASE peekTok' = <<t>> /\ hasPeek' = TRUE
        BY <1>4, <3>1, Zenon
      <3>2. CASE hasPeek' = hasPeek
        BY <1>1, <1>3, <3>2, Zenon DEF Cached
      <3> QED BY <1>2, <3>1, <3>2, Zenon
    <2> QED BY <1>3, <2>1, <2>2, Zenon DEF Cached
  <1>7. PeekLosesNothing'
    <2>1. CASE peekTok' = <<t>> /\ hasPeek' = TRUE /\ given' = given
      BY <1>2, <1>4, <1>5, <2>1, AppendIsConcatenation DEF PeekLosesNothing
    <2>2. CASE peekTok' = peekTok /\ hasPeek' = hasPeek /\ given' = Append(given, t)
      <3>1. read' = given' /\ given' \in Seq(T)
        BY <1>2, <1>4, <1>5, <2>2
      <3> QED BY <1>3, <2>2, <3>1 DEF PeekLosesNothing
    <2> QED BY <1>2, <2>1, <2>2
  <1> QED BY <1>6, <1>7 DEF IInv

(* Everything else leaves the tokens and the cache alone.                  *)
LEMMA OthersKeep ==
    ASSUME IInv,
           \/ CallNext \/ CallPeek \/ SkipWhitespace \/ SkipLineComment
           \/ SkipCommentStatement \/ Abort \/ UNCHANGED vars
    PROVE  IInv'
  <1>1. PICK S : Cached(S)
    BY DEF IInv
  <1>2. /\ read' = read /\ given' = given /\ peekTok' = peekTok /\ hasPeek' = hasPeek
        /\ calling' = calling \/ ~hasPeek
    BY DEF CallNext, CallPeek, SkipWhitespace, SkipLineComment, SkipCommentStatement, Abort,
           Skipping, Idle, vars, peekVars
  <1>3. Cached(S)'
    BY <1>1, <1>2 DEF Cached
  <1>4. PeekLosesNothing'
    BY <1>2 DEF PeekLosesNothing, IInv
  <1> QED BY <1>3, <1>4 DEF IInv

(* However calls of next() and peek() are mixed, next() returns the tokens *)
(* of the text in order and each once: none is lost in the cache of peek() *)
(* and none is given out twice.                                            *)
THEOREM LexerPeekLosesNothing == Spec => []PeekLosesNothing
  <1>1. IInv /\ [Next]_vars => IInv'
    BY NextPeekedKeeps, ReadTokenKeeps, OthersKeep DEF Next
  <1>2. IInv => PeekLosesNothing
    BY DEF IInv
  <1> QED BY InitIInv, <1>1, <1>2, PTL DEF Spec

(***************************************************************************)
(* Smallest and largest members.                                           *)
(***************************************************************************)
(* A set of numbers that are not negative has a smallest member.           *)
LEMMA MinProperties ==
    ASSUME NEW S \in SUBSET Nat, S # {}
    PROVE  Min(S) \in S /\ \A x \in S : Min(S) <= x
  <1> DEFINE R == {p \in Nat \X Nat : p[1] < p[2]}
  <1>1. IsWellFoundedOn(R, Nat)
    BY NatLessThanWellFounded DEF OpToRel
  <1>2. S \subseteq Nat
    OBVIOUS
  <1>3. \A x, y \in Nat : y < x => <<y, x>> \in R
    OBVIOUS
  <1> HIDE DEF R
  <1>4. PICK x \in S : \A y \in S : ~(<<y, x>> \in R)
    BY <1>1, <1>2, WFMin
  <1>5. \A y \in S : x <= y
    <2> TAKE y \in S
    <2>1. x \in Nat /\ y \in Nat /\ ~(y < x)
      BY <1>3, <1>4
    <2> QED BY <2>1
  <1> QED BY <1>4, <1>5 DEF Min

(* One that is bounded has a largest.                                      *)
LEMMA MaxProperties ==
    ASSUME NEW S \in SUBSET Nat, S # {}, NEW n \in Nat, \A x \in S : x <= n
    PROVE  Max(S) \in S /\ \A x \in S : x <= Max(S)
  <1> DEFINE T == {n - x : x \in S}
  <1>1. T \in SUBSET Nat /\ T # {}
    <2>1. \A x \in S : n - x \in Nat
      OBVIOUS
    <2> QED BY <2>1
  <1> HIDE DEF T
  <1>2. Min(T) \in T /\ \A y \in T : Min(T) <= y
    BY <1>1, MinProperties
  <1>3. PICK x \in S : Min(T) = n - x
    BY <1>2 DEF T
  <1>4. \A y \in S : y <= x
    <2> TAKE y \in S
    <2>1. n - y \in T
      BY DEF T
    <2>2. n - x <= n - y /\ x \in Nat /\ y \in Nat
      BY <1>2, <1>3, <2>1
    <2> QED BY <2>2
  <1>5. \E m \in S : \A y \in S : m >= y
    BY <1>4
  <1> DEFINE m == Max(S)
  <1>6. m \in S /\ \A y \in S : m >= y
    BY <1>5 DEF Max
  <1> HIDE DEF m
  <1>7. m \in S /\ \A y \in S : y <= m
    BY <1>6
  <1> QED BY <1>7 DEF m

(* A set of numbers has only one member that no other exceeds.             *)
LEMMA MaxUnique ==
    ASSUME NEW S \in SUBSET Nat, NEW m \in S, \A x \in S : x <= m
    PROVE  Max(S) = m
  <1> DEFINE M == Max(S)
  <1>1. m \in Nat /\ S # {}
    OBVIOUS
  <1>2. M \in S /\ \A x \in S : x <= M
    BY <1>1, MaxProperties
  <1> HIDE DEF M
  <1>3. M = m
    BY <1>2
  <1> QED BY <1>3 DEF M

(***************************************************************************)
(* How far the scanners read.                                              *)
(***************************************************************************)
TextOK == src \in Seq(Chars)

(* The end of the text is no character.                                    *)
LEMMA EndIsNoCharacter ==
    ASSUME TextOK
    PROVE  /\ Len(src) \in Nat
           /\ \A k \in 1..Len(src) : src[k] \in Chars /\ At(k) = src[k]
           /\ \A k \in Nat : k > Len(src) => At(k) = "eof"
           /\ "eof" \notin Chars
  <1>1. /\ Len(src) \in Nat
        /\ \A k \in 1..Len(src) : src[k] \in Chars
    BY DEF TextOK
  <1>2. "eof" \notin Chars
    BY DEF Chars, Space, WordChar, Letter, Digit, Simple
  <1> QED BY <1>1, <1>2 DEF At

(* The loops that consume the characters of a class stop at the first that *)
(* is not of it.                                                           *)
LEMMA PastProperties ==
    ASSUME TextOK, NEW i \in 1..Len(src) + 1, NEW C, "eof" \notin C
    PROVE  /\ Past(i, C) \in i..Len(src) + 1
           /\ At(Past(i, C)) \notin C
           /\ All(i, Past(i, C), C)
  <1> DEFINE n == Len(src)
             S == {j \in i..n + 1 : At(j) \notin C}
             m == Min(S)
  <1>1. n \in Nat /\ \A k \in 1..n : At(k) = src[k]
    BY EndIsNoCharacter
  <1>2. n + 1 \in S
    BY <1>1, EndIsNoCharacter
  <1>3. S \in SUBSET Nat /\ S # {}
    BY <1>1, <1>2
  <1>4. Past(i, C) = m
    BY DEF Past
  <1>5. m \in S /\ \A x \in S : m <= x
    <2> HIDE DEF S
    <2> QED BY <1>3, MinProperties
  <1> HIDE DEF m
  <1>6. ASSUME NEW k \in i..m - 1 PROVE src[k] \in C
    <2>1. k \in i..n + 1 /\ ~(m <= k) /\ k \in 1..n
      BY <1>1, <1>5
    <2>2. At(k) \in C
      BY <1>5, <2>1
    <2> QED BY <1>1, <2>1, <2>2
  <1> QED BY <1>4, <1>5, <1>6 DEF All

(* One step of the scan of a string, given what the later ones find.       *)
ScanStep(f, p) ==
    IF p > Len(src) THEN Len(src) + 1
    ELSE IF src[p] = "\\" \/ (src[p] = "'" /\ At(p + 1) = "'") THEN f[p + 2]
    ELSE IF src[p] = "'" THEN p + 1
    ELSE f[p + 1]
Scan(f, m) == f = [p \in m..Len(src) + 2 |-> ScanStep(f, p)]

(* A string that begins anywhere has an end: the scan is defined from each *)
(* position on, since it is from all later ones.                           *)
LEMMA ScanExists ==
    ASSUME TextOK
    PROVE  \E f : Scan(f, 1)
  <1> DEFINE n == Len(src)
             Bad == {m \in 1..n + 2 : ~ \E f : Scan(f, m)}
             b == Max(Bad)
  <1>1. n \in Nat
    BY EndIsNoCharacter
  <1>2. SUFFICES ASSUME Bad # {} PROVE FALSE
    BY <1>1
  <1>3. b \in Bad /\ \A m \in Bad : m <= b
    <2>1. Bad \in SUBSET Nat /\ n + 2 \in Nat /\ \A x \in Bad : x <= n + 2
      BY <1>1
    <2> HIDE DEF Bad
    <2> QED BY <1>2, <2>1, MaxProperties
  <1> HIDE DEF b
  <1>4. b \in 1..n + 2 /\ b \in Nat
    BY <1>1, <1>3
  <1>5. CASE b > n
    <2> DEFINE f == [p \in b..n + 2 |-> n + 1]
    <2>1. \A p \in b..n + 2 : ScanStep(f, p) = n + 1
      BY <1>1, <1>4, <1>5 DEF ScanStep
    <2>2. [p \in b..n + 2 |-> ScanStep(f, p)] = [p \in b..n + 2 |-> n + 1]
      BY <2>1
    <2>3. Scan(f, b)
      BY <2>2 DEF Scan
    <2> QED BY <1>3, <2>3
  <1>6. CASE b <= n
    <2>1. b + 1 \in 1..n + 2 /\ b + 1 \notin Bad
      BY <1>1, <1>3, <1>4, <1>6
    <2>2. PICK g : Scan(g, b + 1)
      BY <2>1
    <2> DEFINE f == [p \in b..n + 2 |-> IF p = b THEN ScanStep(g, b) ELSE g[p]]
    <2>3. \A p \in b + 1..n + 2 : f[p] = g[p]
      BY <1>1, <1>4
    <2>4. \A p \in b + 1..n + 2 : g[p] = ScanStep(g, p)
      BY <2>2 DEF Scan
    <2>5. \A p \in b..n : p + 1 \in b + 1..n + 2 /\ p + 2 \in b + 1..n + 2
      BY <1>1, <1>4
    <2>6. \A p \in b..n + 2 : p \in b..n \/ p > n
      BY <1>1, <1>4
    <2>7. f[b] = ScanStep(g, b)
      BY <1>1, <1>4, <1>6
    <2>8. DOMAIN f = b..n + 2 /\ f = [p \in b..n + 2 |-> f[p]]
      OBVIOUS
    <2> HIDE DEF f
    <2>9. \A p \in b..n + 2 : ScanStep(f, p) = ScanStep(g, p)
      <3> TAKE p \in b..n + 2
      <3>1. CASE p > n
        BY <3>1 DEF ScanStep
      <3>2. CASE p \in b..n
        <4>1. f[p + 1] = g[p + 1] /\ f[p + 2] = g[p + 2]
          BY <2>3, <2>5, <3>2
        <4> QED BY <4>1 DEF ScanStep
      <3> QED BY <2>6, <3>1, <3>2
    <2>10. \A p \in b..n + 2 : f[p] = ScanStep(f, p)
      <3> TAKE p \in b..n + 2
      <3>1. CASE p = b
        BY <2>7, <2>9, <3>1
      <3>2. CASE p # b
        <4>1. p \in b + 1..n + 2
          BY <1>1, <1>4, <3>2
        <4> QED BY <2>3, <2>4, <2>9, <4>1
      <3> QED BY <3>1, <3>2
    <2>11. Scan(f, b)
      BY <2>8, <2>10 DEF Scan
    <2> QED BY <1>3, <2>11
  <1> QED BY <1>1, <1>4, <1>5, <1>6

(* It ends behind the quote that begins it, and within the text.           *)
LEMMA CloseProperties ==
    ASSUME TextOK, NEW i \in 1..Len(src)
    PROVE  CloseOf(i) \in i + 1..Len(src) + 1
  <1> DEFINE n == Len(src)
             f == CHOOSE g : Scan(g, 1)
             Bad == {p \in 1..n + 2 : ~ (f[p] \in 1..n + 1 /\ (p <= n + 1 => p <= f[p]))}
  <1>1. n \in Nat /\ i \in 1..n
    BY EndIsNoCharacter
  <1>2. Scan(f, 1)
    BY ScanExists
  <1>3. CloseOf(i) = f[i + 1]
    BY DEF CloseOf, Scan, ScanStep
  <1> HIDE DEF f
  <1>4. \A p \in 1..n + 2 : f[p] = ScanStep(f, p)
    BY <1>2 DEF Scan
  <1>5. Bad = {}
    <2> SUFFICES ASSUME Bad # {} PROVE FALSE
      OBVIOUS
    <2> DEFINE b == Max(Bad)
    <2>1. b \in Bad /\ \A p \in Bad : p <= b
      <3>1. Bad \in SUBSET Nat /\ n + 2 \in Nat /\ \A x \in Bad : x <= n + 2
        BY <1>1
      <3> HIDE DEF Bad
      <3> QED BY <3>1, MaxProperties
    <2> HIDE DEF b
    <2>2. b \in 1..n + 2 /\ b \in Nat /\ f[b] = ScanStep(f, b)
      BY <1>1, <1>4, <2>1
    <2>3. \A p \in b + 1..n + 2 : f[p] \in 1..n + 1 /\ (p <= n + 1 => p <= f[p])
      BY <1>1, <2>1, <2>2
    <2>4. CASE b > n
      BY <1>1, <2>1, <2>2, <2>4 DEF ScanStep
    <2>5. CASE b <= n
      <3>1. b + 1 \in b + 1..n + 2 /\ b + 2 \in b + 1..n + 2
        BY <1>1, <2>2, <2>5
      <3>2. f[b + 1] \in 1..n + 1 /\ b + 1 <= f[b + 1]
        BY <1>1, <2>2, <2>3, <2>5, <3>1
      <3>3. f[b + 2] \in 1..n + 1 /\ b <= f[b + 2]
        <4>1. CASE b = n
          <5>1. f[b + 2] = n + 1
            BY <1>1, <1>4, <2>2, <4>1 DEF ScanStep
          <5> QED BY <1>1, <4>1, <5>1
        <4>2. CASE b # n
          BY <1>1, <2>2, <2>3, <2>5, <3>1, <4>2
        <4> QED BY <4>1, <4>2
      <3>4. f[b] \in {f[b + 1], f[b + 2], b + 1}
        BY <2>2, <2>5, <1>1 DEF ScanStep
      <3> QED BY <1>1, <2>1, <2>2, <2>5, <3>2, <3>3, <3>4
    <2> QED BY <1>1, <2>2, <2>4, <2>5
  <1>6. i + 1 \in 1..n + 2 /\ i + 1 <= n + 1
    BY <1>1
  <1> QED BY <1>1, <1>3, <1>5, <1>6

(* What a scanner may return of a text that begins at i.                   *)
Within(r, i) == r.to \in i..Len(src) + 1 /\ r.kind # "EOF"

(* A word ends behind its first letter.                                    *)
LEMMA IdentifierWithin ==
    ASSUME TextOK, NEW i \in 1..Len(src)
    PROVE  Within(ReadIdentifierOrKeyword(i), i)
  <1> DEFINE to == Past(i, WordChar)
  <1>1. to \in i..Len(src) + 1
    <2>1. "eof" \notin WordChar /\ i \in 1..Len(src) + 1
      BY EndIsNoCharacter DEF WordChar, Letter, Digit
    <2> QED BY <2>1, PastProperties
  <1> HIDE DEF to
  <1>2. /\ ReadIdentifierOrKeyword(i).to = to
        /\ ReadIdentifierOrKeyword(i).kind # "EOF"
    BY DEF ReadIdentifierOrKeyword, Lexeme, Number, to
  <1> QED BY <1>1, <1>2 DEF Within

(* A character that there is can be consumed.                              *)
LEMMA NextPosition ==
    ASSUME TextOK, NEW i \in Nat \ {0}, At(i) # "eof"
    PROVE  i \in 1..Len(src) /\ i + 1 \in 1..Len(src) + 1
  BY EndIsNoCharacter

(* A real ends behind its point.                                           *)
LEMMA RealWithin ==
    ASSUME TextOK, NEW i \in 1..Len(src)
    PROVE  Within(ReadReal(i), i)
  <1> DEFINE frac == Past(i + 1, Digit)
             sign == IF At(frac + 1) \in {"+", "-"} THEN 1 ELSE 0
  <1>1. "eof" \notin Digit
    BY DEF Digit
  <1>2. Len(src) \in Nat
    BY EndIsNoCharacter
  <1>3. frac \in i + 1..Len(src) + 1
    <2>1. i + 1 \in 1..Len(src) + 1
      BY <1>2
    <2> QED BY <1>1, <2>1, PastProperties
  <1> HIDE DEF frac
  <1>4. ASSUME At(frac) = "E" PROVE Past(frac + 1 + sign, Digit) \in i..Len(src) + 1
    <2>1. frac \in 1..Len(src)
      BY <1>2, <1>3, <1>4, NextPosition
    <2>2. frac + 1 + sign \in 1..Len(src) + 1
      <3>1. CASE sign = 1
        <4>1. At(frac + 1) # "eof" /\ frac + 1 \in Nat \ {0}
          BY <1>2, <2>1, <3>1
        <4>2. frac + 1 + 1 \in 1..Len(src) + 1
          BY <4>1, NextPosition
        <4> QED BY <3>1, <4>2
      <3>2. CASE sign = 0
        BY <1>2, <2>1, <3>2
      <3> QED BY <3>1, <3>2
    <2>3. frac + 1 + sign >= i
      BY <1>2, <1>3, <2>1
    <2> HIDE DEF sign
    <2> DEFINE q == frac + 1 + sign
    <2>4. q \in 1..Len(src) + 1 /\ q >= i
      BY <2>2, <2>3
    <2> HIDE DEF q
    <2>5. Past(q, Digit) \in q..Len(src) + 1
      BY <1>1, <2>4, PastProperties
    <2>6. Past(q, Digit) \in i..Len(src) + 1
      BY <1>2, <2>4, <2>5
    <2> QED BY <2>6 DEF q
  <1>5. /\ ReadReal(i).kind = "real"
        /\ ReadReal(i).to = IF At(frac) = "E" THEN Past(frac + 1 + sign, Digit) ELSE frac
    BY DEF ReadReal, Lexeme, frac
  <1> HIDE DEF sign
  <1>6. ReadReal(i).to \in i..Len(src) + 1
    BY <1>2, <1>3, <1>4, <1>5
  <1> QED BY <1>5, <1>6 DEF Within

(* A number ends behind its first digit.                                   *)
LEMMA NumberWithin ==
    ASSUME TextOK, NEW i \in 1..Len(src)
    PROVE  Within(ReadNumber(i), i)
  <1> DEFINE to == Past(i, Digit)
  <1>1. Len(src) \in Nat
    BY EndIsNoCharacter
  <1>2. to \in i..Len(src) + 1
    <2>1. "eof" \notin Digit /\ i \in 1..Len(src) + 1
      BY <1>1 DEF Digit
    <2> QED BY <2>1, PastProperties
  <1> HIDE DEF to
  <1>3. Within(ReadHex(i), i)
    <2>1. "eof" \notin HexDigit /\ i + 1 \in 1..Len(src) + 1
      BY <1>1 DEF HexDigit, Digit
    <2>2. Past(i + 1, HexDigit) \in i + 1..Len(src) + 1
      BY <2>1, PastProperties
    <2>3. /\ ReadHex(i).to = Past(i + 1, HexDigit)
          /\ ReadHex(i).kind # "EOF"
      BY DEF ReadHex, Number, Lexeme
    <2> QED BY <1>1, <2>2, <2>3 DEF Within
  <1>4. ASSUME At(to) = "." PROVE Within(ReadReal(to), i)
    <2>1. to \in 1..Len(src)
      BY <1>1, <1>2, <1>4, NextPosition
    <2>2. Within(ReadReal(to), to)
      BY <2>1, RealWithin
    <2> QED BY <1>1, <1>2, <2>2 DEF Within
  <1>5. ASSUME At(to) = "B" PROVE to + 1 \in i..Len(src) + 1
    <2>1. to + 1 \in 1..Len(src) + 1
      BY <1>1, <1>2, <1>5, NextPosition
    <2> QED BY <1>1, <1>2, <2>1
  <1> DEFINE v == Convert(BaseOf(Text(i, to)), Text(i, to), LongWidth)
  <1>6. ReadNumber(i) =
           CASE At(i) = "#"                      -> ReadHex(i)
             [] At(to) = "." /\ At(to + 1) # "." -> ReadReal(to)
             [] At(to) = "B"                     -> Number("address", to + 1, v)
             [] OTHER                            -> Number("integer", to, v)
    BY DEF ReadNumber, to
  <1> HIDE DEF v
  <1>7. /\ Number("address", to + 1, v).to = to + 1
        /\ Number("address", to + 1, v).kind # "EOF"
        /\ Number("integer", to, v).to = to
        /\ Number("integer", to, v).kind # "EOF"
    BY DEF Number, Lexeme
  <1>8. At(to) = "B" => Within(Number("address", to + 1, v), i)
    BY <1>5, <1>7 DEF Within
  <1>9. Within(Number("integer", to, v), i)
    BY <1>2, <1>7 DEF Within
  <1> QED BY <1>3, <1>4, <1>6, <1>8, <1>9

(* A string ends behind its quote.                                         *)
LEMMA StringWithin ==
    ASSUME TextOK, NEW i \in 1..Len(src)
    PROVE  Within(ReadStringOrBitLiteral(i), i)
  <1> DEFINE to == CloseOf(i)
             r == ReadStringOrBitLiteral(i)
  <1>1. Len(src) \in Nat
    BY EndIsNoCharacter
  <1>2. to \in i + 1..Len(src) + 1
    BY CloseProperties
  <1> HIDE DEF to
  <1>3. r.kind # "EOF" /\ (r.to = to \/ (r.to = to + 1 /\ At(to) = "B"))
    BY DEF ReadStringOrBitLiteral, Lexeme, to
  <1> HIDE DEF r
  <1>4. At(to) = "B" => to + 1 \in 1..Len(src) + 1
    BY <1>1, <1>2, NextPosition
  <1>5. Within(r, i)
    BY <1>1, <1>2, <1>3, <1>4 DEF Within
  <1> QED BY <1>5 DEF r

(* An operator is one character, or two if both are there.                 *)
LEMMA OperatorWithin ==
    ASSUME TextOK, NEW i \in 1..Len(src)
    PROVE  Within(ReadOperator(i), i)
  <1> DEFINE r == ReadOperator(i)
  <1>1. Len(src) \in Nat
    BY EndIsNoCharacter
  <1>2. /\ r.kind # "EOF"
        /\ r.to = i + 1 \/ (r.to = i + 2 /\ <<At(i), At(i + 1)>> \in Double)
    BY DEF ReadOperator, Lexeme
  <1> HIDE DEF r
  <1>3. ASSUME <<At(i), At(i + 1)>> \in Double PROVE i + 2 \in i..Len(src) + 1
    <2>1. At(i + 1) # "eof"
      BY <1>3 DEF Double
    <2>2. i + 1 \in Nat \ {0} /\ i + 1 + 1 = i + 2
      BY <1>1
    <2> QED BY <1>1, <2>1, <2>2, NextPosition
  <1>4. Within(r, i)
    BY <1>1, <1>2, <1>3 DEF Within
  <1> QED BY <1>4 DEF r

(* Read never goes back or beyond the end, and it answers EOF at the end   *)
(* and only there.                                                         *)
LEMMA ReadProperties ==
    ASSUME TextOK, NEW i \in 1..Len(src) + 1
    PROVE  /\ Read(i).to \in i..Len(src) + 1
           /\ Read(i).kind = "EOF" <=> i = Len(src) + 1
  <1>1. Len(src) \in Nat
    BY EndIsNoCharacter
  <1>2. CASE i > Len(src)
    <2>1. At(i) = "eof" /\ i = Len(src) + 1
      BY <1>1, <1>2, EndIsNoCharacter
    <2>2. At(i) \notin Letter \cup {"_"} /\ At(i) \notin Digit \cup {"#"} /\ At(i) # "'"
      BY <2>1 DEF Letter, Digit
    <2>3. Read(i) = Lexeme("EOF", i, 0)
      BY <1>2, <2>2 DEF Read
    <2> QED BY <1>1, <2>1, <2>3 DEF Lexeme
  <1>3. CASE i <= Len(src)
    <2>1. i \in 1..Len(src)
      BY <1>1, <1>3
    <2>2. /\ Within(ReadIdentifierOrKeyword(i), i) /\ Within(ReadNumber(i), i)
          /\ Within(ReadStringOrBitLiteral(i), i) /\ Within(ReadOperator(i), i)
      BY <2>1, IdentifierWithin, NumberWithin, StringWithin, OperatorWithin
    <2>3. ~ (i > Len(src))
      BY <1>1, <1>3
    <2>4. \/ Read(i) = ReadIdentifierOrKeyword(i) \/ Read(i) = ReadNumber(i)
          \/ Read(i) = ReadStringOrBitLiteral(i) \/ Read(i) = ReadOperator(i)
      BY <2>3 DEF Read
    <2>5. Within(Read(i), i)
      BY <2>2, <2>4
    <2> QED BY <1>1, <2>1, <2>5 DEF Within
  <1> QED BY <1>1, <1>2, <1>3

(***************************************************************************)
(* Places.                                                                 *)
(***************************************************************************)
(* Lines and columns add up over adjacent parts of the text.               *)
LEMMA NewlinesSplit ==
    \A i, j, k \in Nat : i <= j /\ j <= k =>
       /\ Newlines(i, k) = Newlines(i, j) \cup Newlines(j, k)
       /\ Cardinality(Newlines(i, j)) \in Nat
       /\ Cardinality(Newlines(j, k)) \in Nat
       /\ Cardinality(Newlines(i, k)) =
             Cardinality(Newlines(i, j)) + Cardinality(Newlines(j, k))
  <1> TAKE i, j, k \in Nat
  <1> HAVE i <= j /\ j <= k
  <1> DEFINE A == Newlines(i, j)
             B == Newlines(j, k)
  <1>1. A \subseteq i..j - 1 /\ B \subseteq j..k - 1 /\ Newlines(i, k) = A \cup B
    BY DEF Newlines
  <1>2. IsFiniteSet(i..j - 1) /\ IsFiniteSet(j..k - 1)
    BY FS_Interval
  <1>3. A \cap B = {}
    BY <1>1
  <1> HIDE DEF A, B
  <1>4. IsFiniteSet(A) /\ IsFiniteSet(B)
    BY <1>1, <1>2, FS_Subset
  <1>5. Cardinality(A) \in Nat /\ Cardinality(B) \in Nat /\ Cardinality(A \cap B) = 0
    BY <1>3, <1>4, FS_CardinalityType, FS_EmptySet
  <1>6. Cardinality(A \cup B) = Cardinality(A) + Cardinality(B)
    <2>1. Cardinality(A \cup B)
             = Cardinality(A) + Cardinality(B) - Cardinality(A \cap B)
      BY <1>4, FS_Union
    <2> QED BY <1>5, <2>1
  <1>7. /\ Newlines(i, k) = A \cup B
        /\ Cardinality(A) \in Nat /\ Cardinality(B) \in Nat
        /\ Cardinality(Newlines(i, k)) = Cardinality(A) + Cardinality(B)
    BY <1>1, <1>4, <1>5, <1>6
  <1> QED BY <1>7 DEF A, B

(* The same for columns.                                                   *)
LEMMA ColumnsSplit ==
    ASSUME NEW i \in Nat, NEW j \in Nat, NEW k \in Nat, i <= j, j <= k
    PROVE  /\ Columns(i, j) \in Nat
           /\ Columns(i, k) = Columns(i, j) + Columns(j, k)
  <1> DEFINE A == {x \in i..j - 1 : src[x] = "COMMENT"}
             B == {x \in j..k - 1 : src[x] = "COMMENT"}
  <1>1. A \subseteq i..j - 1 /\ B \subseteq j..k - 1 /\ A \cap B = {}
        /\ {x \in i..k - 1 : src[x] = "COMMENT"} = A \cup B
    OBVIOUS
  <1>2. IsFiniteSet(i..j - 1) /\ IsFiniteSet(j..k - 1)
    BY FS_Interval
  <1> HIDE DEF A, B
  <1>3. IsFiniteSet(A) /\ IsFiniteSet(B)
    BY <1>1, <1>2, FS_Subset
  <1>4. Cardinality(A) \in Nat /\ Cardinality(B) \in Nat /\ Cardinality(A \cap B) = 0
    BY <1>1, <1>3, FS_CardinalityType, FS_EmptySet
  <1>5. Cardinality(A \cup B) = Cardinality(A) + Cardinality(B)
    <2>1. Cardinality(A \cup B)
             = Cardinality(A) + Cardinality(B) - Cardinality(A \cap B)
      BY <1>3, FS_Union
    <2> QED BY <1>4, <2>1
  <1>6. /\ Columns(i, j) = (j - i) + 6 * Cardinality(A)
        /\ Columns(j, k) = (k - j) + 6 * Cardinality(B)
        /\ Columns(i, k) = (k - i) + 6 * Cardinality(A \cup B)
    BY <1>1 DEF Columns, A, B
  <1> QED BY <1>4, <1>5, <1>6

(* The line and the column of the character at pos.                        *)
Here == [line |-> line, col |-> col]

(* advance() keeps line and column true to the position.                   *)
LEMMA AdvanceLocates ==
    ASSUME pos \in Nat \ {0}, Located(Here, pos), NEW to \in Nat, pos <= to
    PROVE  Located([line |-> LineAt(to), col |-> ColAt(to)], to)
  <1> DEFINE A == Newlines(1, pos)
             B == Newlines(pos, to)
             a == Max({0} \cup A)
  <1>1. line = 1 + Cardinality(A) /\ col = 1 + Columns(1 + a, pos)
    BY DEF Located, Here
  <1>2. /\ Newlines(1, to) = A \cup B
        /\ Cardinality(A) \in Nat /\ Cardinality(B) \in Nat
        /\ Cardinality(Newlines(1, to)) = Cardinality(A) + Cardinality(B)
    <2>1. 1 \in Nat /\ pos \in Nat /\ 1 <= pos
      OBVIOUS
    <2> HIDE DEF A, B, a
    <2>2. Newlines(1, to) = Newlines(1, pos) \cup Newlines(pos, to)
      BY <2>1, NewlinesSplit
    <2>3. /\ Cardinality(Newlines(1, pos)) \in Nat
          /\ Cardinality(Newlines(pos, to)) \in Nat
      BY <2>1, NewlinesSplit
    <2>4. Cardinality(Newlines(1, to)) =
             Cardinality(Newlines(1, pos)) + Cardinality(Newlines(pos, to))
      BY <2>1, NewlinesSplit
    <2> QED BY <2>2, <2>3, <2>4 DEF A, B
  <1>3. LineAt(to) = 1 + Cardinality(Newlines(1, to))
    BY <1>1, <1>2 DEF LineAt
  <1>4. A \subseteq 1..pos - 1 /\ B \subseteq pos..to - 1
    BY DEF Newlines
  <1>5. a \in {0} \cup A /\ a \in Nat /\ a <= pos - 1
    <2> DEFINE S == {0} \cup A
    <2>1. S \in SUBSET Nat /\ S # {} /\ pos - 1 \in Nat /\ \A x \in S : x <= pos - 1
      BY <1>4
    <2> HIDE DEF S
    <2>2. Max(S) \in S
      BY <2>1, MaxProperties
    <2>3. Max(S) \in Nat /\ Max(S) <= pos - 1
      BY <2>1, <2>2
    <2> QED BY <2>2, <2>3 DEF S
  <1>6. \A x \in A : x <= a
    <2> DEFINE S == {0} \cup A
    <2>1. S \in SUBSET Nat /\ S # {} /\ pos - 1 \in Nat /\ \A x \in S : x <= pos - 1
      BY <1>4
    <2>2. A \subseteq S
      OBVIOUS
    <2> HIDE DEF S
    <2>3. \A x \in S : x <= Max(S)
      BY <2>1, MaxProperties
    <2> QED BY <2>2, <2>3 DEF S
  <1>7. ColAt(to) = 1 + Columns(1 + Max({0} \cup Newlines(1, to)), to)
    <2>1. CASE B = {}
      <3>1. Newlines(1, to) = A
        BY <1>2, <2>1
      <3>2. ColAt(to) = col + Columns(pos, to)
        BY <2>1 DEF ColAt
      <3> HIDE DEF a
      <3>3. Columns(1 + a, pos) \in Nat
            /\ Columns(1 + a, to) = Columns(1 + a, pos) + Columns(pos, to)
        <4>1. 1 + a \in Nat /\ 1 + a <= pos
          BY <1>5
        <4> QED BY <4>1, ColumnsSplit
      <3>4. Columns(pos, to) \in Nat
        <4>1. pos \in Nat /\ to <= to
          OBVIOUS
        <4>2. \A k \in Nat : to <= k => Columns(pos, to) \in Nat
          BY <4>1, ColumnsSplit
        <4> QED BY <4>1, <4>2
      <3>5. ColAt(to) = 1 + Columns(1 + a, to)
        BY <1>1, <3>2, <3>3, <3>4
      <3> QED BY <3>1, <3>5 DEF a
    <2>2. CASE B # {}
      <3> DEFINE b == Max(B)
                 S == {0} \cup Newlines(1, to)
      <3>1. B \in SUBSET Nat /\ \A x \in B : x <= to
        BY <1>4
      <3>2. b \in B /\ \A x \in B : x <= b
        <4> HIDE DEF B
        <4> QED BY <2>2, <3>1, MaxProperties
      <3> HIDE DEF b
      <3>3. b \in S /\ S \in SUBSET Nat
        BY <1>2, <1>4, <3>2
      <3>4. \A x \in S : x <= b
        <4>1. b \in Nat /\ pos <= b
          BY <1>4, <3>2
        <4>2. \A x \in A : x <= b
          BY <1>4, <4>1
        <4> QED BY <1>2, <3>2, <4>1, <4>2
      <3> HIDE DEF S
      <3>5. Max(S) = b
        BY <3>3, <3>4, MaxUnique
      <3>6. ColAt(to) = 1 + Columns(b + 1, to)
        BY <2>2 DEF ColAt, b
      <3>7. b + 1 = 1 + b
        BY <3>3
      <3> QED BY <3>5, <3>6, <3>7 DEF S
    <2> QED BY <2>1, <2>2
  <1> QED BY <1>3, <1>7 DEF Located

(***************************************************************************)
(* What lies between tokens.                                               *)
(***************************************************************************)
(* Behind white space and comments another piece may follow.               *)
LEMMA BlankExtends ==
    ASSUME NEW i \in Nat, NEW j \in Nat, NEW k \in Nat, i <= j, j <= k,
           Blank(i, j), Gap(j, k)
    PROVE  Blank(i, k)
  <1>1. CASE j = k
    BY <1>1
  <1>2. CASE j # k
    <2>1. PICK cuts \in SUBSET (i..j) :
             /\ {i, j} \subseteq cuts
             /\ \A a, b \in cuts :
                   a < b /\ (\A c \in cuts : c <= a \/ b <= c) => Gap(a, b)
      BY DEF Blank, Chain
    <2> DEFINE more == cuts \cup {k}
    <2>2. more \in SUBSET (i..k) /\ {i, k} \subseteq more /\ j < k
      BY <1>2, <2>1
    <2>3. ASSUME NEW a \in more, NEW b \in more, a < b,
                 \A c \in more : c <= a \/ b <= c
          PROVE  Gap(a, b)
      <3>1. a \in Nat /\ b \in Nat /\ a <= k /\ b <= k
        BY <2>2
      <3>2. a \in cuts /\ a <= j
        BY <2>1, <2>3, <3>1
      <3>3. CASE b = k
        <4>1. j <= a \/ k <= j
          BY <2>1, <2>3, <3>3
        <4>2. a = j
          BY <2>2, <3>1, <3>2, <4>1
        <4> QED BY <3>3, <4>2
      <3>4. CASE b # k
        <4>1. b \in cuts
          BY <3>4
        <4> QED BY <2>1, <2>3, <3>2, <4>1
      <3> QED BY <3>3, <3>4
    <2> HIDE DEF more
    <2> QED BY <2>2, <2>3 DEF Blank, Chain
  <1> QED BY <1>1, <1>2

(* No text at all is blank.                                                *)
LEMMA BlankNothing == ASSUME NEW i \in Nat PROVE Blank(i, i)
  <1>1. {i} \in SUBSET (i..i) /\ {i, i} \subseteq {i}
    OBVIOUS
  <1>2. \A a, b \in {i} : ~(a < b)
    OBVIOUS
  <1> QED BY <1>1, <1>2 DEF Blank, Chain

(* Each of the three loops that skip something skips one piece.            *)
LEMMA SpaceIsGap ==
    ASSUME TextOK, pos \in 1..Len(src) + 1
    PROVE  /\ Past(pos, Space) \in pos..Len(src) + 1
           /\ Gap(pos, Past(pos, Space))
  <1>1. "eof" \notin Space
    BY DEF Space
  <1> QED BY <1>1, PastProperties DEF Gap

(* A comment to the end of the line.                                       *)
LEMMA LineCommentIsGap ==
    ASSUME TextOK, pos \in 1..Len(src) + 1, At(pos) = "%",
           NEW to, to = Past(pos, Chars \ {"\n"})
    PROVE  to \in pos..Len(src) + 1 /\ Gap(pos, to)
  <1>1. "eof" \notin Chars \ {"\n"} /\ Len(src) \in Nat
    BY EndIsNoCharacter
  <1>2. to \in pos..Len(src) + 1 /\ All(pos, to, Chars \ {"\n"})
        /\ At(to) \notin Chars \ {"\n"}
    BY <1>1, PastProperties
  <1>3. src[pos] = "%"
    <2>1. pos \in Nat \ {0} /\ At(pos) # "eof"
      BY <1>1
    <2> QED BY <2>1, NextPosition, EndIsNoCharacter
  <1>4. At(to) \in {"\n", "eof"}
    <2>1. CASE to > Len(src)
      BY <1>1, <1>2, <2>1, EndIsNoCharacter
    <2>2. CASE to <= Len(src)
      <3>1. to \in 1..Len(src)
        BY <1>1, <1>2, <2>2
      <3> QED BY <1>2, <3>1, EndIsNoCharacter
    <2> QED BY <1>1, <1>2, <2>1, <2>2
  <1> QED BY <1>2, <1>3, <1>4 DEF Gap

(* The semicolon that ends a comment statement, or the end of the text.     *)
Semicolon == ";"
InComment == Chars \ {Semicolon}
Semi      == Past(pos + 1, InComment)

LEMMA SemiRange ==
    ASSUME TextOK, pos \in 1..Len(src) + 1, AtComment
    PROVE  /\ pos \in 1..Len(src) /\ src[pos] = "COMMENT" /\ At(pos + 1) \notin WordChar
           /\ Semi \in pos + 1..Len(src) + 1
           /\ All(pos, Semi, InComment)
           /\ Semi <= Len(src) => src[Semi] = Semicolon
  <1>1. "eof" \notin InComment /\ Len(src) \in Nat
    BY EndIsNoCharacter DEF InComment
  <1>2. pos \in 1..Len(src) /\ src[pos] = "COMMENT" /\ At(pos + 1) \notin WordChar
    <2>1. pos \in Nat \ {0} /\ At(pos) # "eof" /\ At(pos) = "COMMENT"
      BY <1>1 DEF AtComment
    <2> QED BY <2>1, NextPosition, EndIsNoCharacter DEF AtComment
  <1>3. src[pos] \in InComment
    BY <1>2, EndIsNoCharacter, Zenon DEF InComment, Semicolon
  <1> DEFINE p == pos + 1
             semi == Past(p, InComment)
  <1>4. p \in 1..Len(src) + 1
    BY <1>1, <1>2
  <1>5. semi \in p..Len(src) + 1 /\ All(p, semi, InComment) /\ At(semi) \notin InComment
    <2> HIDE DEF p
    <2> QED BY <1>1, <1>4, PastProperties
  <1>6. semi = Semi
    BY DEF Semi
  <1>7. semi \in p..Len(src) + 1
    BY <1>5
  <1>8. pos \in 1..Len(src)
    BY <1>2
  <1>9. \A k \in p..semi - 1 : src[k] \in InComment
    BY <1>5 DEF All
  <1>10. semi <= Len(src) => semi \in 1..Len(src)
    <2> HIDE DEF semi
    <2> QED BY <1>1, <1>7, <1>8
  <1>11. \A k \in pos..semi - 1 : k = pos \/ k \in p..semi - 1
    <2> HIDE DEF semi
    <2> QED BY <1>1, <1>7, <1>8
  <1>12. All(pos, semi, InComment)
    <2> HIDE DEF semi, p
    <2> QED BY <1>3, <1>9, <1>11 DEF All
  <1>13. semi <= Len(src) => src[semi] = Semicolon
    <2> HIDE DEF semi, p
    <2> QED BY <1>5, <1>10, EndIsNoCharacter DEF InComment
  <1> HIDE DEF semi
  <1> QED BY <1>2, <1>6, <1>7, <1>12, <1>13

(* A COMMENT with its semicolon, or with the rest of the text.             *)
LEMMA CommentStatementIsGap ==
    ASSUME TextOK, pos \in 1..Len(src) + 1, AtComment
    PROVE  /\ Semi <= Len(src) => Semi + 1 \in pos..Len(src) + 1 /\ Gap(pos, Semi + 1)
           /\ ~(Semi <= Len(src)) => Semi \in pos..Len(src) + 1 /\ Gap(pos, Semi)
  <1> DEFINE semi == Semi
  <1>1. Len(src) \in Nat /\ pos \in 1..Len(src) /\ semi \in pos + 1..Len(src) + 1
    BY EndIsNoCharacter, SemiRange
  <1>2. src[pos] = "COMMENT" /\ At(pos + 1) \notin WordChar
    BY SemiRange
  <1>3. All(pos, semi, InComment)
    BY SemiRange
  <1>4. semi <= Len(src) => src[semi] = Semicolon
    BY SemiRange
  <1> HIDE DEF semi
  <1>5. ASSUME semi <= Len(src)
        PROVE  semi + 1 \in pos..Len(src) + 1 /\ Gap(pos, semi + 1)
    <2>1. (semi + 1) - 1 = semi /\ semi + 1 \in pos..Len(src) + 1
      BY <1>1, <1>5
    <2>2. All(pos, (semi + 1) - 1, InComment)
      BY <1>3, <2>1
    <2>3. src[(semi + 1) - 1] = Semicolon
      BY <1>4, <1>5, <2>1
    <2> QED BY <1>2, <2>1, <2>2, <2>3, Zenon DEF Gap, InComment, Semicolon
  <1>6. ASSUME ~(semi <= Len(src))
        PROVE  semi \in pos..Len(src) + 1 /\ Gap(pos, semi)
    <2>1. semi > Len(src) /\ semi \in pos..Len(src) + 1
      BY <1>1, <1>6
    <2>2. pos..(semi - 1) - 1 \subseteq pos..semi - 1
      BY <1>1
    <2>3. All(pos, semi - 1, InComment)
      BY <1>3, <2>2 DEF All
    <2> QED BY <1>2, <2>1, <2>3, Zenon DEF Gap, InComment, Semicolon
  <1> QED BY <1>5, <1>6 DEF semi

-----------------------------------------------------------------------------
(***************************************************************************)
(* The invariant: the lexer stands within the text and knows where, and    *)
(* behind the last token it has passed only white space and comments.      *)
(***************************************************************************)
Behind == IF read = <<>> THEN 1 ELSE read[Len(read)].to

Reading == /\ TextOK
           /\ pos \in 1..Len(src) + 1
           /\ Located(Here, pos)
           /\ Behind \in 1..pos
           /\ Blank(Behind, pos)

LInv == Reading /\ PlacesAreTrue /\ NothingIsDropped

(* What the text contains depends on the text alone.                       *)
LEMMA SameText ==
    ASSUME src' = src
    PROVE  /\ TextOK' <=> TextOK
           /\ \A i, j : Newlines(i, j)' = Newlines(i, j)
           /\ \A t, i : Located(t, i)' <=> Located(t, i)
           /\ \A i, j : Blank(i, j)' <=> Blank(i, j)
  <1>1. \A i : At(i)' = At(i)
    BY DEF At
  <1>2. \A i, j, C : All(i, j, C)' <=> All(i, j, C)
    BY DEF All
  <1>3. \A i, j : Gap(i, j)' <=> Gap(i, j)
    BY <1>1, <1>2, Zenon DEF Gap
  <1>4. \A i, j : Blank(i, j)' <=> Blank(i, j)
    BY <1>3, Zenon DEF Blank, Chain
  <1>5. \A i, j : Newlines(i, j)' = Newlines(i, j)
    BY DEF Newlines
  <1>6. \A i, j : Columns(i, j)' = Columns(i, j)
    BY DEF Columns
  <1>7. \A t, i : Located(t, i)' <=> Located(t, i)
    BY <1>5, <1>6, Zenon DEF Located
  <1> QED BY <1>4, <1>5, <1>7 DEF TextOK

(* The lexer begins at the beginning.                                      *)
LEMMA InitLInv == ASSUME Init PROVE LInv
  <1>1. TextOK /\ Len(src) \in Nat
    BY SourcesAssumption DEF Init, TextOK
  <1>2. pos = 1 /\ line = 1 /\ col = 1 /\ read = <<>>
    BY DEF Init
  <1>3. Located(Here, pos)
    <2>1. Newlines(1, 1) = {}
      BY DEF Newlines
    <2>2. {x \in 1..1 - 1 : src[x] = "COMMENT"} = {}
      OBVIOUS
    <2>3. Columns(1, 1) = 0
      BY <2>2, FS_EmptySet DEF Columns
    <2>4. Max({0} \cup {}) = 0
      <3>1. {0} \cup {} \in SUBSET Nat /\ 0 \in {0} \cup {} /\ \A x \in {0} \cup {} : x <= 0
        OBVIOUS
      <3> QED BY <3>1, MaxUnique
    <2>5. Cardinality(Newlines(1, 1)) = 0 /\ Max({0} \cup Newlines(1, 1)) = 0
      BY <2>1, <2>4, FS_EmptySet
    <2>6. Columns(1 + 0, 1) = 0
      BY <2>3
    <2>7. Here.line = 1 + 0 /\ Here.col = 1 + 0
      BY <1>2 DEF Here
    <2>8. Located(Here, 1)
      BY <2>5, <2>6, <2>7, Zenon DEF Located
    <2> QED BY <1>2, <2>8
  <1>4. Behind = 1
    BY <1>2 DEF Behind
  <1>5. Blank(Behind, pos)
    BY <1>2, <1>4, BlankNothing
  <1>6. Reading
    BY <1>1, <1>2, <1>3, <1>4, <1>5 DEF Reading
  <1>7. PlacesAreTrue /\ NothingIsDropped
    BY <1>2 DEF PlacesAreTrue, NothingIsDropped
  <1> QED BY <1>6, <1>7 DEF LInv

(* The tokens that have been read stay right when the text stands still.   *)
LEMMA SameTokens ==
    ASSUME src' = src, read' = read, PlacesAreTrue, NothingIsDropped
    PROVE  PlacesAreTrue' /\ NothingIsDropped'
  <1>1. PlacesAreTrue'
    BY SameText, Zenon DEF PlacesAreTrue
  <1>2. NothingIsDropped'
    BY SameText, Zenon DEF NothingIsDropped
  <1> QED BY <1>1, <1>2

(* A piece that is skipped lengthens the blank behind the last token.      *)
LEMMA SkippingKeeps ==
    ASSUME LInv, NEW to, to \in pos..Len(src) + 1, Gap(pos, to), Skipping(to)
    PROVE  LInv'
  <1>1. src' = src /\ pos' = to /\ read' = read
        /\ line' = LineAt(to) /\ col' = ColAt(to)
    BY DEF Skipping, AdvanceTo
  <1>2. TextOK /\ pos \in 1..Len(src) + 1 /\ Located(Here, pos)
        /\ Behind \in 1..pos /\ Blank(Behind, pos)
    BY DEF LInv, Reading
  <1>3. Len(src) \in Nat
    BY <1>2, EndIsNoCharacter
  <1>4. to \in Nat /\ pos \in Nat \ {0} /\ pos <= to /\ Behind \in Nat /\ Behind <= pos
        /\ to \in 1..Len(src) + 1 /\ Behind \in 1..to
    BY <1>2, <1>3
  <1>5. Behind' = Behind
    BY <1>1 DEF Behind
  <1>6. Here' = [line |-> LineAt(to), col |-> ColAt(to)]
    BY <1>1 DEF Here
  <1>7. Located([line |-> LineAt(to), col |-> ColAt(to)], to)
    BY <1>2, <1>4, AdvanceLocates
  <1>8. Blank(Behind, to)
    BY <1>2, <1>4, BlankExtends
  <1>9. Reading'
    <2>1. TextOK' /\ pos' \in 1..Len(src)' + 1 /\ Behind' \in 1..pos'
      BY <1>1, <1>2, <1>4, <1>5, SameText
    <2>2. Located(Here, pos)'
      BY <1>1, <1>6, <1>7, SameText
    <2>3. Blank(Behind, pos)'
      BY <1>1, <1>5, <1>8, SameText
    <2> QED BY <2>1, <2>2, <2>3 DEF Reading
  <1>10. PlacesAreTrue' /\ NothingIsDropped'
    BY <1>1, SameTokens DEF LInv
  <1> QED BY <1>9, <1>10 DEF LInv

(* A token begins where the blank ends, and it knows its place.            *)
LEMMA ReadTokenLInv ==
    ASSUME IInv, LInv, ReadToken PROVE LInv'
  <1>1. PICK S : read \in Seq(S)
    BY DEF IInv, Cached
  <1> DEFINE r == Read(pos)
             n == Len(src)
             there == [line |-> LineAt(r.to), col |-> ColAt(r.to)]
  <1>2. PICK t : /\ t = [kind |-> r.kind, from |-> pos, to |-> r.to, value |-> r.value,
                         line |-> Place(r).line, col |-> Place(r).col]
                 /\ read' = Append(read, t)
    BY DEF ReadToken
  <1>3. src' = src /\ pos' = r.to /\ line' = LineAt(r.to) /\ col' = ColAt(r.to)
    BY DEF ReadToken, AdvanceTo
  <1>4. TextOK /\ pos \in 1..n + 1 /\ Located(Here, pos) /\ Blank(Behind, pos)
        /\ PlacesAreTrue /\ NothingIsDropped
    BY DEF LInv, Reading
  <1>5. n \in Nat
    BY <1>4, EndIsNoCharacter
  <1>6. r.to \in pos..n + 1 /\ (r.kind = "EOF" <=> pos = n + 1)
    BY <1>4, ReadProperties
  <1> HIDE DEF r
  <1>7. pos \in Nat \ {0} /\ r.to \in Nat /\ pos <= r.to /\ r.to \in 1..n + 1
        /\ r.to \in 1..r.to
    BY <1>4, <1>5, <1>6
  <1>8. Located(there, r.to)
    BY <1>4, <1>7, AdvanceLocates
  <1>9. /\ t.kind = r.kind /\ t.from = pos /\ t.to = r.to
        /\ t.line = Place(r).line /\ t.col = Place(r).col
    BY <1>2
  <1>10. Located(t, IF t.kind = "error" THEN t.to ELSE t.from)
    <2>1. CASE r.kind = "error"
      <3>1. t.line = there.line /\ t.col = there.col
        BY <1>9, <2>1 DEF Place
      <3>2. Located(t, r.to)
        BY <1>8, <3>1, Zenon DEF Located
      <3> QED BY <1>9, <2>1, <3>2
    <2>2. CASE r.kind # "error"
      <3>1. t.line = Here.line /\ t.col = Here.col
        BY <1>9, <2>2 DEF Place, Here
      <3>2. Located(t, pos)
        BY <1>4, <3>1, Zenon DEF Located
      <3> QED BY <1>9, <2>2, <3>2
    <2> QED BY <2>1, <2>2
  <1> DEFINE m == Len(read)
  <1>11. /\ m \in Nat /\ Len(read') = m + 1 /\ read'[m + 1] = t
         /\ DOMAIN read = 1..m /\ DOMAIN read' = 1..m + 1
         /\ \A k \in 1..m : read'[k] = read[k]
         /\ read' # <<>> /\ (read = <<>> <=> m = 0)
    <2>1. read \in Seq(S \cup {t}) /\ t \in S \cup {t}
      BY <1>1, MoreTokens
    <2> HIDE DEF m
    <2>2. read' = Append(read, t) /\ m = Len(read)
      BY <1>2 DEF m
    <2> QED BY <2>1, <2>2
  <1>12. Behind = IF m = 0 THEN 1 ELSE read[m].to
    BY <1>11 DEF Behind
  <1> HIDE DEF m
  <1>13. PlacesAreTrue'
    <2> SUFFICES ASSUME NEW k \in 1..m + 1
                 PROVE  Located(read'[k], IF read'[k].kind = "error" THEN read'[k].to
                                          ELSE read'[k].from)
      BY <1>3, <1>11, SameText, Zenon DEF PlacesAreTrue
    <2>1. CASE k = m + 1
      BY <1>10, <1>11, <2>1
    <2>2. CASE k # m + 1
      <3>1. k \in 1..m
        BY <1>11, <2>2
      <3> QED BY <1>4, <1>11, <3>1, Zenon DEF PlacesAreTrue
    <2> QED BY <2>1, <2>2
  <1>14. NothingIsDropped'
    <2> SUFFICES ASSUME NEW k \in 1..m + 1
                 PROVE  /\ read'[k].kind = "EOF" <=> read'[k].from = n + 1
                        /\ Blank(IF k = 1 THEN 1 ELSE read'[k - 1].to, read'[k].from)
      BY <1>3, <1>11, SameText, Zenon DEF NothingIsDropped
    <2>1. CASE k = m + 1
      <3>1. read'[k] = t
        BY <1>11, <2>1
      <3>2. Behind = IF k = 1 THEN 1 ELSE read'[k - 1].to
        BY <1>11, <1>12, <2>1
      <3> QED BY <1>4, <1>6, <1>9, <3>1, <3>2
    <2>2. CASE k # m + 1
      <3>1. k \in 1..m /\ (k = 1 \/ k - 1 \in 1..m)
        BY <1>11, <2>2
      <3>2. read'[k] = read[k] /\ (k # 1 => read'[k - 1] = read[k - 1])
        BY <1>11, <3>1
      <3>3. /\ read[k].kind = "EOF" <=> read[k].from = n + 1
            /\ Blank(IF k = 1 THEN 1 ELSE read[k - 1].to, read[k].from)
        BY <1>4, <1>11, <3>1, Zenon DEF NothingIsDropped
      <3> QED BY <3>2, <3>3
    <2> QED BY <2>1, <2>2
  <1>15. Behind' = r.to
    BY <1>9, <1>11 DEF Behind
  <1>16. Reading'
    <2>1. TextOK' /\ pos' \in 1..Len(src)' + 1 /\ Behind' \in 1..pos'
      BY <1>3, <1>4, <1>7, <1>15, SameText
    <2>2. Located(Here, pos)'
      <3>1. Here' = there
        BY <1>3 DEF Here
      <3> QED BY <1>3, <1>8, <3>1, SameText
    <2>3. Blank(Behind, pos)'
      <3>1. Blank(r.to, r.to)
        BY <1>7, BlankNothing
      <3> QED BY <1>3, <1>15, <3>1, SameText
    <2> QED BY <2>1, <2>2, <2>3 DEF Reading
  <1> QED BY <1>13, <1>14, <1>16 DEF LInv

(* Nothing else reads.                                                     *)
LEMMA OthersLInv ==
    ASSUME LInv, NextPeeked \/ CallNext \/ CallPeek \/ Abort \/ UNCHANGED vars
    PROVE  LInv'
  <1>1. src' = src /\ pos' = pos /\ line' = line /\ col' = col /\ read' = read
    BY DEF NextPeeked, CallNext, CallPeek, Abort, vars, textVars, Return
  <1>2. Behind' = Behind /\ Here' = Here
    BY <1>1 DEF Behind, Here
  <1>3. Reading'
    <2>1. TextOK' /\ pos' \in 1..Len(src)' + 1 /\ Behind' \in 1..pos'
      BY <1>1, <1>2, SameText DEF LInv, Reading
    <2>2. Located(Here, pos)' /\ Blank(Behind, pos)'
      BY <1>1, <1>2, SameText DEF LInv, Reading
    <2> QED BY <2>1, <2>2 DEF Reading
  <1>4. PlacesAreTrue' /\ NothingIsDropped'
    BY <1>1, SameTokens DEF LInv
  <1> QED BY <1>3, <1>4 DEF LInv

(* Every step preserves the invariant.                                     *)
LEMMA LInvInductive == IInv /\ LInv /\ [Next]_vars => LInv'
  <1> SUFFICES ASSUME IInv, LInv, [Next]_vars PROVE LInv'
    OBVIOUS
  <1>1. TextOK /\ pos \in 1..Len(src) + 1
    BY DEF LInv, Reading
  <1>2. CASE SkipWhitespace
    <2>1. Skipping(Past(pos, Space))
      BY <1>2 DEF SkipWhitespace
    <2> QED BY <1>1, <2>1, SpaceIsGap, SkippingKeeps
  <1>3. CASE SkipLineComment
    <2> DEFINE to == Past(pos, Chars \ {"\n"})
    <2>1. Skipping(to) /\ At(pos) = "%"
      BY <1>3, Zenon DEF SkipLineComment
    <2>2. to \in pos..Len(src) + 1 /\ Gap(pos, to)
      BY <1>1, <2>1, LineCommentIsGap, Zenon
    <2> HIDE DEF to
    <2> QED BY <2>1, <2>2, SkippingKeeps
  <1>4. CASE SkipCommentStatement
    <2>1. AtComment /\ Skipping(IF Semi <= Len(src) THEN Semi + 1 ELSE Semi)
      BY <1>4, Zenon DEF SkipCommentStatement, Semi, InComment, Semicolon
    <2>2. CASE Semi <= Len(src)
      <3>1. Skipping(Semi + 1)
        BY <2>1, <2>2
      <3> QED BY <1>1, <2>1, <2>2, <3>1, CommentStatementIsGap, SkippingKeeps
    <2>3. CASE ~(Semi <= Len(src))
      <3>1. Skipping(Semi)
        BY <2>1, <2>3
      <3> QED BY <1>1, <2>1, <2>3, <3>1, CommentStatementIsGap, SkippingKeeps
    <2> QED BY <2>2, <2>3
  <1>5. CASE ReadToken
    BY <1>5, ReadTokenLInv
  <1>6. CASE NextPeeked \/ CallNext \/ CallPeek \/ Abort \/ UNCHANGED vars
    BY <1>6, OthersLInv
  <1> QED BY <1>2, <1>3, <1>4, <1>5, <1>6 DEF Next

(* The place that a diagnostic names is that of the token, counted from    *)
(* the start of the text, whatever has been skipped before it: advance()   *)
(* counts lines and columns over white space, comments and tokens alike.   *)
THEOREM LexerPlacesAreTrue == Spec => []PlacesAreTrue
  <1>1. IInv /\ [Next]_vars => IInv'
    BY NextPeekedKeeps, ReadTokenKeeps, OthersKeep DEF Next
  <1>2. LInv => PlacesAreTrue
    BY DEF LInv
  <1> QED BY InitIInv, InitLInv, <1>1, LInvInductive, <1>2, PTL DEF Spec

(* Between two tokens, and before the first, there is only white space and *)
(* comments, and the end is reported at the end of the text and only there:*)
(* no character of any text is lost.                                       *)
THEOREM LexerNothingIsDropped == Spec => []NothingIsDropped
  <1>1. IInv /\ [Next]_vars => IInv'
    BY NextPeekedKeeps, ReadTokenKeeps, OthersKeep DEF Next
  <1>2. LInv => NothingIsDropped
    BY DEF LInv
  <1> QED BY InitIInv, InitLInv, <1>1, LInvInductive, <1>2, PTL DEF Spec

-----------------------------------------------------------------------------
(***************************************************************************)
(* Where a token ends.                                                     *)
(***************************************************************************)
(* Further on than Past there is no text of a class.                       *)
LEMMA PastIsFarthest ==
    ASSUME TextOK, NEW i \in 1..Len(src) + 1, NEW C, "eof" \notin C,
           NEW j \in i..Len(src) + 1, All(i, j, C)
    PROVE  j <= Past(i, C)
  <1> DEFINE m == Past(i, C)
  <1>1. Len(src) \in Nat
    BY EndIsNoCharacter
  <1>2. m \in i..Len(src) + 1 /\ At(m) \notin C
    BY PastProperties
  <1> HIDE DEF m
  <1>3. ASSUME ~(j <= m) PROVE FALSE
    <2>1. m \in i..j - 1 /\ m \in 1..Len(src)
      BY <1>1, <1>2, <1>3
    <2>2. src[m] \in C /\ At(m) = src[m]
      BY <2>1, EndIsNoCharacter DEF All
    <2> QED BY <1>2, <2>2
  <1> QED BY <1>3 DEF m

(* Where a token could end, form by form.                                  *)
LEMMA EndsAreForms ==
    ASSUME NEW i
    PROVE  Ends(i) = {j \in i + 1..Len(src) + 1 :
                        \/ WordForm(i, j) \/ IntegerForm(i, j) \/ AddressForm(i, j)
                        \/ RealForm(i, j) \/ BitsForm(i, j) \/ Quoted(i, j)
                        \/ OperatorForm(i, j)}
  <1>1. ASSUME NEW j
        PROVE  (\E f \in Forms : Form(f, i, j)) <=>
                  \/ WordForm(i, j) \/ IntegerForm(i, j) \/ AddressForm(i, j)
                  \/ RealForm(i, j) \/ BitsForm(i, j) \/ Quoted(i, j)
                  \/ OperatorForm(i, j)
    BY Zenon DEF Form, Forms
  <1> QED BY <1>1, Zenon DEF Ends

(* One and two characters of the text.                                     *)
LEMMA ShortTexts ==
    ASSUME TextOK, NEW i \in 1..Len(src), NEW j \in i + 1..Len(src) + 1
    PROVE  /\ Len(Text(i, j)) = j - i
           /\ Text(i, j)[1] = src[i]
           /\ j = i + 1 => Text(i, j) = <<src[i]>>
           /\ j = i + 2 => Text(i, j) = <<src[i], src[i + 1]>>
  <1>1. src \in Seq(Chars) /\ Len(src) \in Nat
    BY EndIsNoCharacter DEF TextOK
  <1>2. /\ Len(Text(i, j)) = j - i
        /\ \A k \in 1..j - i : Text(i, j)[k] = src[i + k - 1]
    BY <1>1 DEF Text
  <1>3. Text(i, j) \in Seq(Chars)
    BY <1>1 DEF Text
  <1>4. Text(i, j)[1] = src[i]
    BY <1>1, <1>2
  <1>5. ASSUME j = i + 1 PROVE Text(i, j) = <<src[i]>>
    BY <1>1, <1>2, <1>3, <1>4, <1>5
  <1>6. ASSUME j = i + 2 PROVE Text(i, j) = <<src[i], src[i + 1]>>
    <2>1. Len(Text(i, j)) = 2 /\ Text(i, j)[2] = src[i + 1]
      BY <1>1, <1>2, <1>6
    <2> QED BY <1>3, <1>4, <2>1
  <1> QED BY <1>2, <1>4, <1>5, <1>6

(* What the first character says of the form.                              *)
LEMMA FirstCharacter ==
    ASSUME TextOK, NEW i \in 1..Len(src), NEW j \in i + 1..Len(src) + 1
    PROVE  /\ WordForm(i, j) => src[i] \in Letter \cup {"_"}
           /\ IntegerForm(i, j) => src[i] \in Digit \cup {"#"}
           /\ AddressForm(i, j) => src[i] \in Digit
           /\ RealForm(i, j) => src[i] \in Digit
           /\ BitsForm(i, j) \/ Quoted(i, j) => src[i] = "'"
           /\ OperatorForm(i, j) => src[i] \in Simple
  <1>1. Len(src) \in Nat
    BY EndIsNoCharacter
  <1>2. IntegerForm(i, j) => src[i] \in Digit \cup {"#"}
    <2>1. i \in i..j - 1
      BY <1>1
    <2> QED BY <2>1 DEF IntegerForm, All
  <1>3. AddressForm(i, j) => src[i] \in Digit
    <2> SUFFICES ASSUME AddressForm(i, j) PROVE src[i] \in Digit
      OBVIOUS
    <2>1. i \in i..(j - 1) - 1
      BY <1>1 DEF AddressForm
    <2> QED BY <2>1 DEF AddressForm, All
  <1>4. RealForm(i, j) => src[i] \in Digit
    <2> SUFFICES ASSUME RealForm(i, j) PROVE src[i] \in Digit
      OBVIOUS
    <2>1. PICK p \in i + 1..j - 1 : All(i, p, Digit)
      BY DEF RealForm
    <2>2. i \in i..p - 1
      BY <1>1, <2>1
    <2> QED BY <2>1, <2>2 DEF All
  <1>5. OperatorForm(i, j) => src[i] \in Simple
    <2> SUFFICES ASSUME OperatorForm(i, j) PROVE src[i] \in Simple
      OBVIOUS
    <2> DEFINE t == Text(i, j)
    <2>1. CASE t \in Double
      <3>1. t[1] \in {"<", ">", "=", "/"}
        BY <2>1 DEF Double
      <3> QED BY <3>1, ShortTexts DEF Simple
    <2>2. CASE t \in {<<c>> : c \in Simple}
      <3>1. PICK c \in Simple : t = <<c>>
        BY <2>2
      <3>2. t[1] = c
        BY <3>1
      <3> QED BY <3>2, ShortTexts
    <2> QED BY <2>1, <2>2 DEF OperatorForm
  <1> QED BY <1>2, <1>3, <1>4, <1>5 DEF WordForm, BitsForm, Quoted

(* The classes have no character in common.                                *)
LEMMA Classes ==
    /\ \A c \in Letter \cup {"_"} : c \notin Digit \cup {"#", "'"} /\ c \notin Simple
    /\ \A c \in Digit \cup {"#"} : c # "'" /\ c \notin Simple
    /\ "#" \notin Digit /\ "'" \notin Simple /\ "." \notin Digit /\ "B" \notin Digit
    /\ "E" \notin Digit
  BY DEF Letter, Digit, Simple

(* What it takes for a token to be the longest.                            *)
Exact(r, i) == /\ r.to \in Ends(i) /\ \A x \in Ends(i) : x <= r.to
               /\ Form(FormOf(r.kind), i, r.to)
               /\ r.kind # "error"

(* It is, or the compiler dies of it.                                      *)
Taken(r, i) == r.kind # "exception" => Exact(r, i)

(* Such a token is the longest.                                            *)
LEMMA ExactIsLongest ==
    ASSUME NEW r, NEW i \in 1..Len(src), Exact(r, i), Len(src) \in Nat,
           NEW t, t.kind = r.kind, t.from = i, t.to = r.to
    PROVE  Longest(t)
  <1>1. Ends(i) \in SUBSET Nat
    BY DEF Ends
  <1>2. Max(Ends(i)) = r.to
    BY <1>1, MaxUnique DEF Exact
  <1>3. Ends(i) # {} /\ t.kind # "error"
    BY DEF Exact
  <1> QED BY <1>2, <1>3 DEF Longest, Exact

(* A word is as long as there are letters, digits and _.                   *)
WordStart == Letter \cup {"_"}

LEMMA WordIsLongest ==
    ASSUME TextOK, NEW i \in 1..Len(src), At(i) \in WordStart
    PROVE  Taken(ReadIdentifierOrKeyword(i), i)
  <1> DEFINE to == Past(i, WordChar)
             r == ReadIdentifierOrKeyword(i)
  <1>1. Len(src) \in Nat /\ i \in 1..Len(src) + 1 /\ "eof" \notin WordChar
    <2>1. Len(src) \in Nat
      BY EndIsNoCharacter
    <2> QED BY <2>1 DEF WordChar, Letter, Digit
  <1>2. to \in i..Len(src) + 1 /\ At(to) \notin WordChar /\ All(i, to, WordChar)
    BY <1>1, PastProperties
  <1>3. r.to = to /\ r.kind \in {"identifier", "keyword", "register", "exception"}
    BY DEF ReadIdentifierOrKeyword, Lexeme, Number
  <1> HIDE DEF r
  <1>4. to # i
    <2>1. At(i) \in WordChar
      BY Zenon DEF WordChar, WordStart
    <2> QED BY <1>2, <2>1
  <1>5. WordForm(i, to)
    BY <1>2, EndIsNoCharacter, Zenon DEF WordForm, WordStart
  <1>6. to \in Ends(i)
    <2> HIDE DEF to
    <2>1. to \in i + 1..Len(src) + 1
      <3>1. to \in i..Len(src) + 1
        BY <1>2
      <3> QED BY <1>1, <1>4, <3>1
    <2> QED BY <1>5, <2>1, EndsAreForms
  <1>7. ASSUME NEW x \in Ends(i) PROVE x <= to
    <2>1. x \in i + 1..Len(src) + 1 /\ x \in i..Len(src) + 1
      <3>1. x \in i + 1..Len(src) + 1
        BY DEF Ends
      <3> QED BY <1>1, <3>1
    <2>2. WordForm(i, x)
      <3>1. src[i] \in Letter \cup {"_"}
        BY EndIsNoCharacter DEF WordStart
      <3> QED BY <2>1, <3>1, EndsAreForms, FirstCharacter, Classes, Zenon
    <2> QED BY <1>1, <2>1, <2>2, PastIsFarthest DEF WordForm
  <1>8. r.kind # "exception" => FormOf(r.kind) = "word" /\ r.kind # "error"
    BY <1>3 DEF FormOf
  <1>9. Form("word", i, to)
    BY <1>5 DEF Form
  <1>10. Taken(r, i)
    BY <1>3, <1>6, <1>7, <1>8, <1>9 DEF Exact, Taken
  <1> QED BY <1>10 DEF r
(***************************************************************************)
(* Strings.  The scan and the form of a string are read in opposite        *)
(* directions: the scan is defined from the end of the text, a chain of    *)
(* units is followed from the quote that begins the string.                *)
(***************************************************************************)
Scanned == CHOOSE g : Scan(g, 1)

(* Each position knows where the string goes that is open there.           *)
LEMMA ScannedSteps ==
    ASSUME TextOK
    PROVE  /\ \A p \in 1..Len(src) + 2 : Scanned[p] = ScanStep(Scanned, p)
           /\ \A i : CloseOf(i) = Scanned[i + 1]
  <1>1. Scan(Scanned, 1)
    BY ScanExists DEF Scanned
  <1>2. \A p \in 1..Len(src) + 2 : Scanned[p] = ScanStep(Scanned, p)
    <2> DEFINE f == Scanned
    <2>1. Scan(f, 1)
      BY <1>1
    <2> HIDE DEF f
    <2>2. \A p \in 1..Len(src) + 2 : f[p] = ScanStep(f, p)
      BY <2>1 DEF Scan
    <2> QED BY <2>2 DEF f
  <1>3. ASSUME NEW i PROVE CloseOf(i) = Scanned[i + 1]
    BY DEF CloseOf, Scanned, Scan, ScanStep
  <1> QED BY <1>2, <1>3

(* One more unit in front of a chain of them.                              *)
LEMMA UnitInFront ==
    ASSUME NEW p \in Nat, NEW q \in Nat, NEW j \in Nat, p < q, q <= j,
           Unit(p, q), Chain(Unit, q, j)
    PROVE  Chain(Unit, p, j)
  <1>1. PICK cuts \in SUBSET (q..j) :
           /\ {q, j} \subseteq cuts
           /\ \A a, b \in cuts : a < b /\ (\A c \in cuts : c <= a \/ b <= c) => Unit(a, b)
    BY DEF Chain
  <1> DEFINE more == cuts \cup {p}
  <1>2. more \in SUBSET (p..j) /\ {p, j} \subseteq more
    BY <1>1
  <1>3. ASSUME NEW a \in more, NEW b \in more, a < b, \A c \in more : c <= a \/ b <= c
        PROVE  Unit(a, b)
    <2>1. a \in Nat /\ b \in Nat /\ b # p /\ b \in cuts /\ q <= b
      BY <1>1, <1>2, <1>3
    <2>2. CASE a = p
      <3>1. q <= a \/ b <= q
        BY <1>1, <1>3
      <3>2. b = q
        BY <2>1, <2>2, <3>1
      <3> QED BY <2>2, <3>2
    <2>3. CASE a # p
      BY <1>1, <1>3, <2>1, <2>3
    <2> QED BY <2>2, <2>3
  <1> HIDE DEF more
  <1> QED BY <1>2, <1>3 DEF Chain

(* A chain of none.                                                        *)
LEMMA NoUnits == ASSUME NEW i \in Nat PROVE Chain(Unit, i, i)
  <1>1. {i} \in SUBSET (i..i) /\ {i, i} \subseteq {i}
    OBVIOUS
  <1>2. \A a, b \in {i} : ~(a < b)
    OBVIOUS
  <1> QED BY <1>1, <1>2 DEF Chain

(* What is left of a string at p, to the closing quote before c.           *)
Inside(p, c) == /\ c \in p + 1..Len(src) + 1 /\ src[c - 1] = "'" /\ At(c) # "'"
                /\ Chain(Unit, p, c - 1)

(* Where the scan finds an end, the string ends.                           *)
LEMMA ScanFindsString ==
    ASSUME TextOK
    PROVE  \A p \in 1..Len(src) + 2 : Scanned[p] # Len(src) + 1 => Inside(p, Scanned[p])
  <1> DEFINE n == Len(src)
             f == Scanned
             Bad == {p \in 1..n + 2 : ~ (f[p] # n + 1 => Inside(p, f[p]))}
             b == Max(Bad)
  <1>1. n \in Nat
    BY EndIsNoCharacter
  <1>2. \A p \in 1..n + 2 : f[p] = ScanStep(f, p)
    BY ScannedSteps
  <1> SUFFICES ASSUME Bad # {} PROVE FALSE
    OBVIOUS
  <1> HIDE DEF f
  <1>3. b \in Bad /\ \A p \in Bad : p <= b
    <2>1. Bad \in SUBSET Nat /\ n + 2 \in Nat /\ \A x \in Bad : x <= n + 2
      BY <1>1
    <2> HIDE DEF Bad
    <2> QED BY <2>1, MaxProperties
  <1> HIDE DEF b
  <1>4. b \in 1..n + 2 /\ b \in Nat /\ f[b] = ScanStep(f, b)
    BY <1>1, <1>2, <1>3
  <1>5. f[b] # n + 1 /\ ~ Inside(b, f[b])
    BY <1>3
  <1>6. \A p \in b + 1..n + 2 : f[p] # n + 1 => Inside(p, f[p])
    BY <1>1, <1>3, <1>4
  <1> HIDE DEF Bad
  <1>7. b <= n
    BY <1>1, <1>4, <1>5 DEF ScanStep
  <1>8. b \in 1..n /\ b + 1 \in b + 1..n + 2 /\ b + 2 \in b + 1..n + 2
    BY <1>1, <1>4, <1>7
  <1>9. At(b) = src[b]
    BY <1>8, EndIsNoCharacter
  <1>10. ASSUME NEW q \in {b + 1, b + 2}, Unit(b, q), f[b] = f[q] PROVE FALSE
    <2>1. q \in Nat /\ b < q /\ q \in b + 1..n + 2
      BY <1>4, <1>8
    <2>2. Inside(q, f[q])
      BY <1>5, <1>6, <1>10, <2>1
    <2> DEFINE c == f[q]
    <2> HIDE DEF c
    <2>3. /\ c \in q + 1..n + 1 /\ src[c - 1] = "'" /\ At(c) # "'"
          /\ Chain(Unit, q, c - 1)
      BY <2>2, Zenon DEF Inside, c
    <2>4. c - 1 \in Nat /\ q <= c - 1 /\ c \in b + 1..n + 1
      <3>1. c \in q + 1..n + 1
        BY <2>3
      <3> QED BY <1>1, <1>4, <2>1, <3>1
    <2>5. Chain(Unit, b, c - 1)
      BY <1>4, <1>10, <2>1, <2>3, <2>4, UnitInFront
    <2>6. Inside(b, c)
      BY <2>3, <2>4, <2>5, Zenon DEF Inside
    <2> QED BY <1>5, <1>10, <2>6, Zenon DEF c
  <1>11. CASE src[b] = "\\"
    <2>1. f[b] = f[b + 2] /\ Unit(b, b + 2)
      BY <1>1, <1>4, <1>7, <1>11 DEF ScanStep, Unit
    <2> QED BY <1>10, <2>1
  <1>12. CASE src[b] = "'" /\ At(b + 1) = "'"
    <2>1. f[b] = f[b + 2]
      BY <1>1, <1>4, <1>7, <1>12 DEF ScanStep
    <2>2. b + 1 \in 1..n
      <3>1. b + 1 \in Nat \ {0} /\ At(b + 1) # "eof"
        BY <1>4, <1>12
      <3> QED BY <3>1, NextPosition
    <2>3. src[b + 1] = "'"
      BY <1>12, <2>2, EndIsNoCharacter
    <2>4. Unit(b, b + 2)
      BY <1>12, <2>3 DEF Unit
    <2> QED BY <1>10, <2>1, <2>4
  <1>13. CASE src[b] = "'" /\ At(b + 1) # "'"
    <2>1. f[b] = b + 1
      BY <1>1, <1>4, <1>7, <1>13 DEF ScanStep
    <2>2. (b + 1) - 1 = b /\ b + 1 \in b + 1..n + 1
      BY <1>1, <1>8
    <2>3. Chain(Unit, b, b)
      BY <1>4, NoUnits
    <2>4. Inside(b, b + 1)
      BY <1>13, <2>2, <2>3 DEF Inside
    <2> QED BY <1>5, <2>1, <2>4
  <1>14. CASE src[b] \notin {"'", "\\"}
    <2>1. f[b] = f[b + 1] /\ Unit(b, b + 1)
      BY <1>1, <1>4, <1>7, <1>14 DEF ScanStep, Unit
    <2> QED BY <1>10, <2>1
  <1> QED BY <1>11, <1>12, <1>13, <1>14

(* Where a string ends, the scan finds it.                                 *)
LEMMA StringIsFound ==
    ASSUME TextOK, NEW p \in Nat \ {0}, NEW c, Inside(p, c)
    PROVE  Scanned[p] = c
  <1> DEFINE n == Len(src)
             f == Scanned
  <1>1. n \in Nat
    BY EndIsNoCharacter
  <1>2. \A x \in 1..n + 2 : f[x] = ScanStep(f, x)
    BY ScannedSteps
  <1> HIDE DEF f
  <1>3. c \in p + 1..n + 1 /\ src[c - 1] = "'" /\ At(c) # "'"
    BY Zenon DEF Inside
  <1> DEFINE z == c - 1
  <1>4. z \in p..n /\ z + 1 = c /\ z \in Nat /\ z \in 1..n
    BY <1>1, <1>3
  <1>5. PICK cuts \in SUBSET (p..z) :
           /\ {p, z} \subseteq cuts
           /\ \A a, b \in cuts : a < b /\ (\A x \in cuts : x <= a \/ b <= x) => Unit(a, b)
    BY Zenon DEF Inside, Chain
  <1>6. src[z] = "'" /\ At(z + 1) # "'"
    BY <1>3, <1>4
  <1> HIDE DEF z
  <1>7. cuts \subseteq Nat /\ z \in cuts /\ \A x \in cuts : x <= z
    <2>1. cuts \subseteq p..z /\ z \in cuts
      BY <1>5
    <2>2. p..z \subseteq Nat
      BY <1>4
    <2> QED BY <2>1, <2>2
  <1> DEFINE Bad == {x \in cuts : f[x] # c}
             b == Max(Bad)
  <1> SUFFICES ASSUME Bad # {} PROVE FALSE
    BY <1>5 DEF f
  <1>8. b \in Bad /\ \A x \in Bad : x <= b
    <2>1. Bad \in SUBSET Nat /\ \A x \in Bad : x <= z
      BY <1>7
    <2> HIDE DEF Bad
    <2> QED BY <1>4, <2>1, MaxProperties
  <1> HIDE DEF b
  <1>9. b \in cuts /\ b \in p..z /\ f[b] # c /\ b \in 1..n + 2 /\ b <= n
        /\ b \in Nat
    BY <1>1, <1>4, <1>5, <1>8
  <1>10. \A x \in cuts : x > b => f[x] = c
    BY <1>4, <1>5, <1>8, <1>9
  <1> HIDE DEF Bad
  <1>11. f[b] = ScanStep(f, b)
    BY <1>2, <1>9
  <1>12. b # z
    <2> SUFFICES ASSUME b = z PROVE FALSE
      OBVIOUS
    <2>1. f[z] = z + 1
      BY <1>1, <1>4, <1>6, <1>11 DEF ScanStep
    <2> QED BY <1>4, <1>9, <2>1
  <1> DEFINE Later == {x \in cuts : x > b}
             d == Min(Later)
  <1>13. d \in Later /\ \A x \in Later : d <= x
    <2>1. Later \in SUBSET Nat /\ z \in Later
      <3>1. z > b
        BY <1>4, <1>9, <1>12
      <3> QED BY <1>7, <3>1
    <2> HIDE DEF Later
    <2>2. Later # {}
      BY <2>1
    <2> QED BY <2>1, <2>2, MinProperties
  <1> HIDE DEF d
  <1>14. d \in cuts /\ d > b /\ d \in Nat /\ d <= z /\ d <= n /\ f[d] = c
    BY <1>1, <1>4, <1>5, <1>10, <1>13
  <1>15. \A x \in cuts : x <= b \/ d <= x
    BY <1>4, <1>5, <1>9, <1>13
  <1>16. Unit(b, d)
    BY <1>5, <1>9, <1>14, <1>15
  <1> HIDE DEF Later
  <1>17. CASE d = b + 1 /\ src[b] \notin {"'", "\\"}
    <2>1. f[b] = f[b + 1]
      BY <1>9, <1>11, <1>17 DEF ScanStep
    <2> QED BY <1>9, <1>14, <1>17, <2>1
  <1>18. CASE d = b + 2 /\ src[b] = "'" /\ src[b + 1] = "'"
    <2>1. b + 1 \in 1..n
      BY <1>1, <1>9, <1>14, <1>18
    <2>2. At(b + 1) = "'"
      BY <1>18, <2>1, EndIsNoCharacter
    <2>3. f[b] = f[b + 2]
      BY <1>9, <1>11, <1>18, <2>2 DEF ScanStep
    <2> QED BY <1>9, <1>14, <1>18, <2>3
  <1>19. CASE d = b + 2 /\ src[b] = "\\"
    <2>1. f[b] = f[b + 2]
      BY <1>9, <1>11, <1>19 DEF ScanStep
    <2> QED BY <1>9, <1>14, <1>19, <2>1
  <1> QED BY <1>16, <1>17, <1>18, <1>19 DEF Unit
(* A string ends at the closing quote that the scan finds, or nowhere.     *)
LEMMA QuotedEnds ==
    ASSUME TextOK, NEW i \in 1..Len(src), At(i) = "'"
    PROVE  /\ \A j \in 1..Len(src) + 1 : Quoted(i, j) => j = CloseOf(i)
           /\ CloseOf(i) # Len(src) + 1 => Quoted(i, CloseOf(i))
  <1> DEFINE n == Len(src)
             c == CloseOf(i)
  <1>1. n \in Nat /\ src[i] = "'"
    BY EndIsNoCharacter
  <1>2. c = Scanned[i + 1] /\ i + 1 \in Nat \ {0} /\ i + 1 \in 1..n + 2
    BY <1>1, ScannedSteps
  <1>3. ASSUME NEW j \in 1..n + 1, Quoted(i, j) PROVE j = c
    <2>1. src[j - 1] = "'" /\ At(j) # "'" /\ Chain(Unit, i + 1, j - 1) /\ j >= i + 2
      BY <1>3, Zenon DEF Quoted
    <2>2. j \in (i + 1) + 1..n + 1
      <3>1. j >= i + 2
        BY <2>1
      <3> QED BY <1>1, <3>1
    <2>3. Inside(i + 1, j)
      BY <2>1, <2>2, Zenon DEF Inside
    <2> QED BY <1>2, <2>3, StringIsFound
  <1>4. ASSUME c # n + 1 PROVE Quoted(i, c)
    <2>1. Inside(i + 1, c)
      BY <1>2, <1>4, ScanFindsString
    <2>2. /\ c \in (i + 1) + 1..n + 1 /\ src[c - 1] = "'" /\ At(c) # "'"
          /\ Chain(Unit, i + 1, c - 1)
      BY <2>1, Zenon DEF Inside
    <2>3. c >= i + 2
      <3>1. c \in (i + 1) + 1..n + 1
        BY <2>2
      <3> QED BY <1>1, <3>1
    <2> QED BY <1>1, <2>2, <2>3, Zenon DEF Quoted
  <1> QED BY <1>3, <1>4

(* The scanner knows a bit literal by its contents and the B behind it.    *)
LEMMA BitContents ==
    ASSUME TextOK, NEW i \in 1..Len(src), NEW c \in i + 2..Len(src) + 1,
           NEW content, content = Text(i + 1, c - 1)
    PROVE  (\A k \in DOMAIN content : content[k] \in {"0", "1"})
             <=> All(i + 1, c - 1, {"0", "1"})
  <1> DEFINE n == Len(src)
             m == c - i - 2
  <1>1. n \in Nat /\ src \in Seq(Chars)
    BY EndIsNoCharacter DEF TextOK
  <1>2. m \in Nat /\ i + 1 \in 1..n + 1 /\ (c - 1) - 1 \in i..n /\ c - 1 \in i + 1..n
    BY <1>1
  <1>3. content = SubSeq(src, i + 1, (c - 1) - 1)
    BY DEF Text
  <1>4. DOMAIN content = 1..m /\ \A k \in 1..m : content[k] = src[i + k]
    BY <1>1, <1>2, <1>3
  <1>5. ASSUME \A k \in DOMAIN content : content[k] \in {"0", "1"},
               NEW x \in i + 1..(c - 1) - 1
        PROVE  src[x] \in {"0", "1"}
    <2>1. x - i \in 1..m /\ i + (x - i) = x
      BY <1>1
    <2> QED BY <1>4, <1>5, <2>1
  <1>6. ASSUME All(i + 1, c - 1, {"0", "1"}), NEW k \in DOMAIN content
        PROVE  content[k] \in {"0", "1"}
    <2>1. k \in 1..m
      BY <1>4
    <2>2. i + k \in i + 1..(c - 1) - 1
      BY <1>1, <2>1
    <2>3. src[i + k] \in {"0", "1"}
      BY <1>6, <2>2, Zenon DEF All
    <2> QED BY <1>4, <2>1, <2>3
  <1> QED BY <1>5, <1>6 DEF All

(* What the scanner makes of a quote.                                      *)
LEMMA StringIsLongest ==
    ASSUME TextOK, NEW i \in 1..Len(src), At(i) = "'",
           NEW t, t.kind = ReadStringOrBitLiteral(i).kind, t.from = i,
           t.to = ReadStringOrBitLiteral(i).to
    PROVE  Longest(t)
  <1> DEFINE n == Len(src)
             c == CloseOf(i)
             r == ReadStringOrBitLiteral(i)
             content == Text(i + 1, c - 1)
             bits == At(c) = "B" /\ \A k \in DOMAIN content : content[k] \in {"0", "1"}
  <1>1. n \in Nat /\ src[i] = "'" /\ c \in i + 1..n + 1
    BY EndIsNoCharacter, CloseProperties
  <1>2. /\ \A j \in 1..n + 1 : Quoted(i, j) => j = c
        /\ c # n + 1 => Quoted(i, c)
    BY QuotedEnds
  <1>3. /\ bits => r.kind = "bits" /\ r.to = c + 1
        /\ ~bits => r.kind = "string" /\ r.to = c
    BY DEF ReadStringOrBitLiteral, Lexeme
  <1>4. t.kind = r.kind /\ t.to = r.to /\ t.from = i
    OBVIOUS
  <1> HIDE DEF r, c
  <1>5. ASSUME NEW j PROVE j \in Ends(i) <=> j \in i + 1..n + 1 /\ (BitsForm(i, j) \/ Quoted(i, j))
    <2>1. j \in i + 1..n + 1 => ~ (\/ WordForm(i, j) \/ IntegerForm(i, j) \/ AddressForm(i, j)
                                   \/ RealForm(i, j) \/ OperatorForm(i, j))
      <3>1. src[i] \notin Letter \cup {"_"} /\ src[i] \notin Digit \cup {"#"}
            /\ src[i] \notin Digit /\ src[i] \notin Simple
        BY <1>1, Classes
      <3> QED BY <3>1, FirstCharacter, Zenon
    <2> QED BY <2>1, EndsAreForms, Zenon
  <1>6. ASSUME NEW j \in i + 1..n + 1
        PROVE  /\ Quoted(i, j) => j = c
               /\ BitsForm(i, j) => j = c + 1 /\ Quoted(i, c) /\ src[c] = "B"
                                  /\ All(i + 1, c - 1, {"0", "1"})
    <2>1. j \in 1..n + 1
      BY <1>1
    <2>2. ASSUME BitsForm(i, j)
          PROVE  j = c + 1 /\ Quoted(i, c) /\ src[c] = "B" /\ All(i + 1, c - 1, {"0", "1"})
      <3>1. /\ j >= i + 3 /\ src[j - 1] = "B" /\ Quoted(i, j - 1)
            /\ All(i + 1, j - 2, {"0", "1"})
        BY <2>2, Zenon DEF BitsForm
      <3>2. j - 1 \in 1..n + 1
        <4>1. j >= i + 3
          BY <3>1
        <4> QED BY <1>1, <4>1
      <3>3. j - 1 = c
        BY <1>2, <3>1, <3>2
      <3>4. j = c + 1 /\ j - 2 = c - 1
        <4>1. c \in Nat /\ j \in Nat
          BY <1>1
        <4> QED BY <3>3, <4>1
      <3> QED BY <3>1, <3>3, <3>4
    <2> QED BY <1>2, <2>1, <2>2
  <1>7. Quoted(i, c) => c >= i + 2 /\ At(c) # "'"
    BY DEF Quoted
  <1>8. CASE bits
    <2>1. c \in 1..n /\ c + 1 \in 1..n + 1
      <3>1. At(c) # "eof" /\ c \in Nat \ {0}
        BY <1>1, <1>8
      <3> QED BY <3>1, NextPosition
    <2>2. Quoted(i, c) /\ src[c] = "B"
      <3>1. c # n + 1
        BY <1>1, <2>1
      <3> QED BY <1>2, <1>8, <2>1, <3>1, EndIsNoCharacter
    <2>3. c \in i + 2..n + 1 /\ c + 1 >= i + 3 /\ (c + 1) - 1 = c /\ (c + 1) - 2 = c - 1
          /\ c + 1 \in i + 1..n + 1
      <3>1. c >= i + 2
        BY <1>7, <2>2
      <3> QED BY <1>1, <2>1, <3>1
    <2>4. All(i + 1, c - 1, {"0", "1"})
      BY <1>8, <2>3, BitContents, Zenon
    <2>5. BitsForm(i, c + 1)
      BY <2>2, <2>3, <2>4, Zenon DEF BitsForm
    <2>6. c + 1 \in Ends(i)
      BY <1>5, <2>3, <2>5
    <2>7. ASSUME NEW x \in Ends(i) PROVE x <= c + 1
      <3>1. x \in i + 1..n + 1 /\ (BitsForm(i, x) \/ Quoted(i, x))
        BY <1>5
      <3>2. x = c \/ x = c + 1
        BY <1>6, <3>1
      <3> QED BY <1>1, <3>2
    <2>8. FormOf("bits") = "bits" /\ Form("bits", i, c + 1)
      BY <2>5 DEF Form, FormOf
    <2>9. Exact(r, i)
      BY <1>3, <1>8, <2>6, <2>7, <2>8 DEF Exact
    <2> QED BY <1>1, <1>4, <2>9, ExactIsLongest
  <1>9. CASE ~bits
    <2>1. r.kind = "string" /\ r.to = c
      BY <1>3, <1>9
    <2>2. CASE Ends(i) = {}
      <3>1. ~ Quoted(i, c)
        BY <1>1, <1>5, <2>2
      <3>2. c = n + 1
        BY <1>2, <3>1
      <3> QED BY <1>4, <2>1, <2>2, <3>2 DEF Longest
    <2>3. CASE Ends(i) # {}
      <3>1. PICK j \in Ends(i) : TRUE
        BY <2>3
      <3>2. Quoted(i, c)
        BY <1>5, <1>6, <3>1
      <3>3. ASSUME NEW x \in Ends(i) PROVE x = c
        <4>1. x \in i + 1..n + 1 /\ (BitsForm(i, x) \/ Quoted(i, x))
          BY <1>5
        <4>2. ~ BitsForm(i, x)
          <5> SUFFICES ASSUME BitsForm(i, x) PROVE FALSE
            OBVIOUS
          <5>1. x = c + 1 /\ src[c] = "B" /\ All(i + 1, c - 1, {"0", "1"})
            BY <1>6, <4>1
          <5>2. c \in 1..n /\ c \in i + 2..n + 1
            <6>1. x = c + 1 /\ x \in i + 1..n + 1 /\ c >= i + 2
              BY <1>7, <3>2, <4>1, <5>1
            <6> QED BY <1>1, <6>1
          <5>3. At(c) = "B"
            BY <5>1, <5>2, EndIsNoCharacter
          <5> QED BY <1>9, <5>1, <5>2, <5>3, BitContents, Zenon
        <4> QED BY <1>6, <4>1, <4>2
      <3>4. c \in Ends(i) /\ \A x \in Ends(i) : x <= c
        BY <1>1, <3>1, <3>3
      <3>5. FormOf("string") = "string" /\ Form("string", i, c)
        BY <3>2 DEF Form, FormOf
      <3>6. Exact(r, i)
        BY <2>1, <3>4, <3>5 DEF Exact
      <3> QED BY <1>1, <1>4, <3>6, ExactIsLongest
    <2> QED BY <2>2, <2>3
  <1> QED BY <1>8, <1>9
(* An operator is one character, or two that make one.                     *)
LEMMA OperatorIsLongest ==
    ASSUME TextOK, NEW i \in 1..Len(src), At(i) \notin WordStart,
           At(i) \notin Digit \cup {"#"}, At(i) # "'",
           NEW t, t.kind = ReadOperator(i).kind, t.from = i, t.to = ReadOperator(i).to
    PROVE  Longest(t)
  <1> DEFINE n == Len(src)
             r == ReadOperator(i)
             pair == <<At(i), At(i + 1)>> \in Double
  <1>1. n \in Nat /\ At(i) = src[i]
    BY EndIsNoCharacter
  <1>2. /\ pair => r.kind = "operator" /\ r.to = i + 2
        /\ ~pair => r.kind = (IF At(i) \in Simple THEN "operator" ELSE "error")
                    /\ r.to = i + 1
    BY DEF ReadOperator, Lexeme
  <1>3. t.kind = r.kind /\ t.to = r.to /\ t.from = i
    OBVIOUS
  <1> HIDE DEF r
  <1>4. Ends(i) = {j \in i + 1..n + 1 : OperatorForm(i, j)}
    <2>1. src[i] \notin Letter \cup {"_"} /\ src[i] \notin Digit \cup {"#"}
          /\ src[i] \notin Digit /\ src[i] # "'"
      BY <1>1, Zenon DEF WordStart
    <2>2. \A j \in i + 1..n + 1 :
            ~ (\/ WordForm(i, j) \/ IntegerForm(i, j) \/ AddressForm(i, j)
               \/ RealForm(i, j) \/ BitsForm(i, j) \/ Quoted(i, j))
      BY <2>1, FirstCharacter, Zenon
    <2> QED BY <2>2, EndsAreForms, Zenon
  <1>5. pair => src[i] \in Simple /\ i + 1 \in 1..n /\ At(i + 1) = src[i + 1]
    <2> SUFFICES ASSUME pair PROVE src[i] \in Simple /\ i + 1 \in 1..n /\ At(i + 1) = src[i + 1]
      OBVIOUS
    <2>1. At(i) \in {"<", ">", "=", "/"} /\ At(i + 1) \in {"=", ">"}
      BY DEF Double
    <2>2. At(i + 1) # "eof" /\ i + 1 \in Nat \ {0}
      BY <1>1, <2>1
    <2>3. i + 1 \in 1..n
      BY <2>2, NextPosition
    <2>4. src[i] \in Simple
      BY <1>1, <2>1 DEF Simple
    <2> QED BY <2>3, <2>4, EndIsNoCharacter
  <1>6. ASSUME NEW j \in i + 1..n + 1
        PROVE  OperatorForm(i, j) <=> (j = i + 1 /\ src[i] \in Simple) \/ (j = i + 2 /\ pair)
    <2> DEFINE x == Text(i, j)
    <2>1. /\ Len(x) = j - i
          /\ j = i + 1 => x = <<src[i]>>
          /\ j = i + 2 => x = <<src[i], src[i + 1]>>
      BY ShortTexts
    <2>2. OperatorForm(i, j) <=> x \in Double \/ \E c \in Simple : x = <<c>>
      BY DEF OperatorForm
    <2> HIDE DEF x
    <2>3. CASE j = i + 1
      <3>1. x = <<src[i]>> /\ j # i + 2
        BY <1>1, <2>1, <2>3
      <3>2. x \notin Double
        <4>1. Len(x) = 1
          BY <3>1
        <4>2. \A y \in Double : Len(y) = 2
          BY DEF Double
        <4> QED BY <4>1, <4>2
      <3>3. (\E c \in Simple : x = <<c>>) <=> src[i] \in Simple
        BY <3>1
      <3> QED BY <2>2, <2>3, <3>1, <3>2, <3>3
    <2>4. CASE j = i + 2
      <3>1. x = <<src[i], src[i + 1]>> /\ j # i + 1 /\ Len(x) = 2
        BY <1>1, <2>1, <2>4
      <3>2. ~ \E c \in Simple : x = <<c>>
        BY <3>1
      <3>3. i + 1 \in 1..n
        BY <1>1, <2>4
      <3>4. x = <<At(i), At(i + 1)>>
        BY <1>1, <3>1, <3>3, EndIsNoCharacter
      <3> QED BY <2>2, <2>4, <3>1, <3>2, <3>4
    <2>5. CASE j \notin {i + 1, i + 2}
      <3>1. Len(x) # 1 /\ Len(x) # 2
        BY <1>1, <2>1, <2>5
      <3>2. \A c : Len(<<c>>) = 1
        OBVIOUS
      <3>3. ~ \E c \in Simple : x = <<c>>
        BY <3>1, <3>2, Zenon
      <3>4. x \notin Double
        <4>1. \A y \in Double : Len(y) = 2
          BY DEF Double
        <4> QED BY <3>1, <4>1, Zenon
      <3> QED BY <2>2, <2>5, <3>3, <3>4, Zenon
    <2> QED BY <2>3, <2>4, <2>5
  <1> HIDE DEF pair
  <1>7. CASE pair
    <2>1. i + 2 \in i + 1..n + 1
      BY <1>1, <1>5, <1>7
    <2>2. OperatorForm(i, i + 2)
      BY <1>6, <1>7, <2>1
    <2>3. \A x \in Ends(i) : x <= i + 2
      BY <1>1, <1>4, <1>6
    <2>4. FormOf("operator") = "operator" /\ Form("operator", i, i + 2)
      BY <2>2 DEF Form, FormOf
    <2>5. Exact(r, i)
      BY <1>2, <1>4, <1>7, <2>1, <2>2, <2>3, <2>4 DEF Exact
    <2> QED BY <1>1, <1>3, <2>5, ExactIsLongest
  <1>8. CASE ~pair /\ src[i] \in Simple
    <2>1. i + 1 \in i + 1..n + 1
      BY <1>1
    <2>2. OperatorForm(i, i + 1)
      BY <1>6, <1>8, <2>1
    <2>3. \A x \in Ends(i) : x <= i + 1
      BY <1>1, <1>4, <1>6, <1>8
    <2>4. FormOf("operator") = "operator" /\ Form("operator", i, i + 1)
      BY <2>2 DEF Form, FormOf
    <2>5. r.kind = "operator" /\ r.to = i + 1
      BY <1>1, <1>2, <1>8
    <2>6. Exact(r, i)
      BY <1>4, <2>1, <2>2, <2>3, <2>4, <2>5 DEF Exact
    <2> QED BY <1>1, <1>3, <2>6, ExactIsLongest
  <1>9. CASE ~pair /\ src[i] \notin Simple
    <2>1. Ends(i) = {}
      BY <1>4, <1>6, <1>9
    <2>2. t.kind = "error"
      BY <1>1, <1>2, <1>3, <1>9
    <2> QED BY <1>1, <1>3, <2>1, <2>2 DEF Longest
  <1> QED BY <1>7, <1>8, <1>9
(***************************************************************************)
(* Numbers.                                                                *)
(***************************************************************************)
(* A run of characters of a class that another follows is the whole run.   *)
LEMMA PastIsWhole ==
    ASSUME TextOK, NEW i \in 1..Len(src) + 1, NEW C, "eof" \notin C,
           NEW j \in i..Len(src) + 1, All(i, j, C), At(j) \notin C
    PROVE  j = Past(i, C)
  <1> DEFINE m == Past(i, C)
  <1>1. Len(src) \in Nat
    BY EndIsNoCharacter
  <1>2. m \in i..Len(src) + 1 /\ All(i, m, C)
    BY PastProperties
  <1>3. j <= m
    BY PastIsFarthest
  <1> HIDE DEF m
  <1>4. ASSUME j # m PROVE FALSE
    <2>1. j \in i..m - 1 /\ j \in 1..Len(src)
      BY <1>1, <1>2, <1>3, <1>4
    <2>2. src[j] \in C /\ At(j) = src[j]
      BY <1>2, <2>1, EndIsNoCharacter DEF All
    <2> QED BY <2>2
  <1> QED BY <1>4 DEF m

(* Digits are no other characters.                                         *)
LEMMA DigitsAreDigits ==
    /\ "eof" \notin Digit /\ "." \notin Digit /\ "B" \notin Digit /\ "E" \notin Digit
    /\ "#" \notin Digit /\ "eof" \notin HexDigit
  BY DEF HexDigit, Digit

(* The scanner takes all of it: the digits, and the exponent if one begins.*)
LEMMA RealIsLongest ==
    ASSUME TextOK, NEW p \in 1..Len(src)
    PROVE  /\ ReadReal(p).kind = "real"
           /\ ReadReal(p).to \in p + 1..Len(src) + 1
           /\ AfterPoint(p, ReadReal(p).to)
           /\ \A j \in p + 1..Len(src) + 1 : AfterPoint(p, j) => j <= ReadReal(p).to
  <1> DEFINE n == Len(src)
             frac == Past(p + 1, Digit)
             behind == IF At(frac + 1) \in {"+", "-"} THEN 2 ELSE 1
             q == frac + behind
             to == ReadReal(p).to
  <1>1. n \in Nat /\ p + 1 \in 1..n + 1
    <2>1. n \in Nat
      BY EndIsNoCharacter
    <2> QED BY <2>1
  <1>2. frac \in p + 1..n + 1 /\ At(frac) \notin Digit /\ All(p + 1, frac, Digit)
    BY <1>1, DigitsAreDigits, PastProperties
  <1>3. \A j \in p + 1..n + 1 : All(p + 1, j, Digit) => j <= frac
    BY <1>1, DigitsAreDigits, PastIsFarthest
  <1>4. ASSUME NEW e \in p + 1..n, All(p + 1, e, Digit), src[e] = "E" PROVE e = frac
    <2>1. e \in 1..n /\ e \in p + 1..n + 1
      BY <1>1
    <2>2. At(e) = "E"
      BY <1>4, <2>1, EndIsNoCharacter
    <2> QED BY <1>1, <1>4, <2>1, <2>2, DigitsAreDigits, PastIsWhole
  <1>5. /\ ReadReal(p).kind = "real"
        /\ to = IF At(frac) = "E" THEN Past(q, Digit) ELSE frac
    <2>1. frac \in Nat
      BY <1>1, <1>2
    <2>2. frac + 1 + (IF At(frac + 1) \in {"+", "-"} THEN 1 ELSE 0) = q
      <3> HIDE DEF frac
      <3> QED BY <2>1
    <2> QED BY <2>2, Zenon DEF ReadReal, Lexeme
  <1> HIDE DEF frac, to
  <1>6. CASE At(frac) # "E"
    <2>1. to = frac
      BY <1>5, <1>6
    <2>2. ASSUME NEW j \in p + 1..n + 1, AfterPoint(p, j) PROVE j <= frac
      <3>1. CASE All(p + 1, j, Digit)
        BY <1>3, <3>1
      <3>2. ASSUME NEW e \in p + 1..j - 1, All(p + 1, e, Digit), src[e] = "E" PROVE FALSE
        <4>1. e \in p + 1..n /\ e \in 1..n
          BY <1>1
        <4>2. At(e) = "E"
          BY <3>2, <4>1, EndIsNoCharacter
        <4> QED BY <1>4, <1>6, <3>2, <4>1, <4>2
      <3> QED BY <2>2, <3>1, <3>2 DEF AfterPoint
    <2>3. AfterPoint(p, frac)
      BY <1>2 DEF AfterPoint
    <2> QED BY <1>2, <1>5, <2>1, <2>2, <2>3 DEF to
  <1>7. CASE At(frac) = "E"
    <2>1. frac \in 1..n /\ src[frac] = "E"
      <3>1. frac \in Nat \ {0} /\ At(frac) # "eof"
        BY <1>1, <1>2, <1>7
      <3>2. frac \in 1..n
        BY <3>1, NextPosition
      <3> QED BY <1>7, <3>2, EndIsNoCharacter
    <2>2. q \in 1..n + 1 /\ q > frac
      <3>1. CASE At(frac + 1) \in {"+", "-"}
        <4>1. frac + 1 \in Nat \ {0} /\ At(frac + 1) # "eof"
          BY <2>1, <3>1
        <4>2. frac + 1 + 1 \in 1..n + 1
          BY <4>1, NextPosition
        <4>3. behind = 2
          BY <3>1
        <4> HIDE DEF behind
        <4> QED BY <1>1, <2>1, <4>2, <4>3
      <3>2. CASE At(frac + 1) \notin {"+", "-"}
        <4>1. behind = 1
          BY <3>2
        <4> HIDE DEF behind
        <4> QED BY <1>1, <2>1, <4>1
      <3> QED BY <3>1, <3>2
    <2> HIDE DEF q
    <2>3. to \in q..n + 1 /\ All(q, to, Digit)
      BY <1>5, <1>7, <2>2, DigitsAreDigits, PastProperties
    <2>4. to \in p + 1..n + 1 /\ to > frac /\ frac \in p + 1..to - 1
      BY <1>1, <1>2, <2>1, <2>2, <2>3
    <2>5. AfterPoint(p, to)
      <3>1. All(frac + (IF At(frac + 1) \in {"+", "-"} THEN 2 ELSE 1), to, Digit)
        BY <2>3 DEF q
      <3> QED BY <1>2, <2>1, <2>4, <3>1, Zenon DEF AfterPoint
    <2>6. ASSUME NEW j \in p + 1..n + 1, AfterPoint(p, j) PROVE j <= to
      <3>1. CASE All(p + 1, j, Digit)
        <4>1. j <= frac
          BY <1>3, <3>1
        <4> QED BY <1>1, <1>2, <2>3, <2>4, <4>1
      <3>2. ASSUME NEW e \in p + 1..j - 1, All(p + 1, e, Digit), src[e] = "E",
                   All(e + (IF At(e + 1) \in {"+", "-"} THEN 2 ELSE 1), j, Digit)
            PROVE  j <= to
        <4>1. e \in p + 1..n
          BY <1>1
        <4>2. e = frac
          BY <1>4, <3>2, <4>1
        <4>3. All(q, j, Digit)
          BY <3>2, <4>2 DEF q
        <4>4. CASE j < q
          BY <1>1, <2>2, <2>3, <4>4
        <4>5. CASE j >= q
          <5>1. j \in q..n + 1
            BY <1>1, <2>2, <4>5
          <5>2. j <= Past(q, Digit)
            BY <2>2, <4>3, <5>1, DigitsAreDigits, PastIsFarthest
          <5> QED BY <1>5, <1>7, <5>2
        <4> QED BY <1>1, <2>2, <4>4, <4>5
      <3> QED BY <2>6, <3>1, <3>2 DEF AfterPoint
    <2> QED BY <1>5, <2>4, <2>5, <2>6 DEF to
  <1> QED BY <1>6, <1>7
(* No digits are no number.                                                *)
LEMMA NoDigits == \A base, width : ~ Convert(base, <<>>, width).ok
  <1> TAKE base, width
  <1> DEFINE ends == {k \in DOMAIN <<>> : DigitValue[<<>>[k]] >= base} \cup {Len(<<>>) + 1}
  <1>1. ends = {1}
    OBVIOUS
  <1>2. Min(ends) = 1
    <2>1. {1} \in SUBSET Nat /\ {1} # {}
      OBVIOUS
    <2> HIDE DEF ends
    <2>2. Min(ends) \in {1}
      BY <1>1, <2>1, MinProperties
    <2> QED BY <2>2
  <1> DEFINE v == ValueOf(base, SubSeq(<<>>, 1, Min(ends) - 1))
  <1>3. Convert(base, <<>>, width) =
           IF Min(ends) = 1 \/ v >= 2^(width - 1) THEN [ok |-> FALSE, v |-> 0]
           ELSE [ok |-> TRUE, v |-> v]
    BY Zenon DEF Convert
  <1> HIDE DEF ends, v
  <1> QED BY <1>2, <1>3

(* A # and the hexadecimal digits behind it, of which there is one.        *)
LEMMA HexIsLongest ==
    ASSUME TextOK, NEW i \in 1..Len(src), At(i) = "#"
    PROVE  Taken(ReadHex(i), i)
  <1> DEFINE n == Len(src)
             to == Past(i + 1, HexDigit)
             r == ReadHex(i)
  <1>1. n \in Nat /\ i + 1 \in 1..n + 1 /\ src[i] = "#"
    <2>1. n \in Nat /\ src[i] = "#"
      BY EndIsNoCharacter
    <2> QED BY <2>1
  <1>2. to \in i + 1..n + 1 /\ All(i + 1, to, HexDigit)
    BY <1>1, DigitsAreDigits, PastProperties
  <1>3. ASSUME NEW j \in i + 1..n + 1, All(i + 1, j, HexDigit) PROVE j <= to
    BY <1>1, <1>3, DigitsAreDigits, PastIsFarthest
  <1>4. r.to = to /\ (r.kind = "integer" \/ r.kind = "exception")
        /\ (to = i + 1 => r.kind = "exception")
    <2> DEFINE conv == Convert(16, Text(i + 1, to), LongWidth)
    <2>1. r = Number("integer", to, conv)
      BY DEF ReadHex
    <2>2. to = i + 1 => ~ conv.ok
      <3> SUFFICES ASSUME to = i + 1 PROVE ~ conv.ok
        OBVIOUS
      <3>1. src \in Seq(Chars)
        BY DEF TextOK
      <3>2. Text(i + 1, i + 1) = <<>>
        BY <1>1, <3>1 DEF Text
      <3> QED BY <3>2, NoDigits
    <2> HIDE DEF conv, r, to
    <2> QED BY <2>1, <2>2 DEF Number, Lexeme
  <1> HIDE DEF r, to
  <1>5. SUFFICES ASSUME r.kind # "exception" PROVE Exact(r, i)
    BY DEF Taken, r
  <1>6. r.kind = "integer" /\ to # i + 1
    BY <1>4, <1>5
  <1>7. to > i + 1 /\ to \in i + 1..n + 1
    BY <1>1, <1>2, <1>6
  <1>8. IntegerForm(i, to)
    BY <1>1, <1>2, <1>7 DEF IntegerForm
  <1>9. to \in Ends(i)
    BY <1>7, <1>8, EndsAreForms
  <1>10. ASSUME NEW x \in Ends(i) PROVE x <= to
    <2>1. x \in i + 1..n + 1
      BY DEF Ends
    <2>2. IntegerForm(i, x)
      <3>1. src[i] \notin Letter \cup {"_"} /\ src[i] \notin Digit /\ src[i] # "'"
            /\ src[i] \notin Simple
        BY <1>1, Classes
      <3> QED BY <2>1, <3>1, EndsAreForms, FirstCharacter, Zenon
    <2>3. ~ All(i, x, Digit)
      <3>1. i \in i..x - 1 /\ src[i] \notin Digit
        BY <1>1, <2>1, DigitsAreDigits
      <3> QED BY <3>1, Zenon DEF All
    <2> QED BY <1>3, <2>1, <2>2, <2>3, Zenon DEF IntegerForm
  <1>11. FormOf("integer") = "integer" /\ Form("integer", i, to)
    BY <1>8 DEF Form, FormOf
  <1> QED BY <1>4, <1>6, <1>9, <1>10, <1>11 DEF Exact

(* Digits; with a point, a real; with a B behind them, an address.         *)
LEMMA NumberIsLongest ==
    ASSUME TextOK, NEW i \in 1..Len(src), At(i) \in Digit \cup {"#"}
    PROVE  Taken(ReadNumber(i), i)
  <1> DEFINE n == Len(src)
             to == Past(i, Digit)
             v == Convert(BaseOf(Text(i, to)), Text(i, to), LongWidth)
             point == At(to) = "." /\ At(to + 1) # "."
  <1>1. ReadNumber(i) =
           CASE At(i) = "#"     -> ReadHex(i)
             [] point           -> ReadReal(to)
             [] At(to) = "B"    -> Number("address", to + 1, v)
             [] OTHER           -> Number("integer", to, v)
    BY DEF ReadNumber
  <1> HIDE DEF v
  <1>2. CASE At(i) = "#"
    <2>1. At(to) = At(i)
      <3>1. i \in 1..n + 1 /\ n \in Nat
        <4>1. n \in Nat
          BY EndIsNoCharacter
        <4> QED BY <4>1
      <3>2. i \in i..n + 1 /\ All(i, i, Digit)
        BY <3>1 DEF All
      <3>3. At(i) \notin Digit
        BY <1>2, DigitsAreDigits
      <3>4. i = to
        BY <3>1, <3>2, <3>3, DigitsAreDigits, PastIsWhole
      <3> QED BY <3>4
    <2>2. ~ point /\ At(to) # "B"
      BY <1>2, <2>1
    <2>3. ReadNumber(i) = ReadHex(i)
      BY <1>1, <1>2, <2>2
    <2> QED BY <1>2, <2>3, HexIsLongest
  <1>3. CASE At(i) \in Digit
    <2>1. n \in Nat /\ src[i] \in Digit /\ i \in 1..n + 1
      <3>1. n \in Nat /\ At(i) = src[i]
        BY EndIsNoCharacter
      <3> QED BY <1>3, <3>1
    <2>2. to \in i..n + 1 /\ At(to) \notin Digit /\ All(i, to, Digit)
      BY <2>1, DigitsAreDigits, PastProperties
    <2>3. ASSUME NEW j \in i..n + 1, All(i, j, Digit)
          PROVE  j <= to /\ (At(j) \notin Digit => j = to)
      BY <2>1, <2>3, DigitsAreDigits, PastIsFarthest, PastIsWhole
    <2> HIDE DEF to
    <2>4. to \in i + 1..n + 1
      <3>1. to # i
        BY <1>3, <2>2
      <3>2. to \in i..n + 1
        BY <2>2
      <3> QED BY <2>1, <3>1, <3>2
    <2>5. ASSUME NEW x \in Ends(i)
          PROVE  /\ x \in i + 1..n + 1
                 /\ \/ All(i, x, Digit)
                    \/ AddressForm(i, x)
                    \/ RealForm(i, x)
      <3>1. x \in i + 1..n + 1
        BY DEF Ends
      <3>2. src[i] \notin Letter \cup {"_"} /\ src[i] # "'" /\ src[i] \notin Simple
            /\ src[i] # "#"
        BY <2>1, Classes
      <3>3. IntegerForm(i, x) \/ AddressForm(i, x) \/ RealForm(i, x)
        BY <3>1, <3>2, EndsAreForms, FirstCharacter, Zenon
      <3> QED BY <3>1, <3>2, <3>3, Zenon DEF IntegerForm
    <2>6. ASSUME NEW x \in i + 1..n + 1, All(i, x, Digit) PROVE x <= to
      <3>1. x \in i..n + 1
        BY <2>1
      <3> QED BY <2>3, <2>6, <3>1
    <2>7. ASSUME NEW x \in i + 1..n + 1, AddressForm(i, x) PROVE x = to + 1 /\ At(to) = "B"
      <3>1. x > i + 1 /\ All(i, x - 1, Digit) /\ src[x - 1] = "B"
        BY <2>7, Zenon DEF AddressForm
      <3>2. x - 1 \in i..n + 1 /\ x - 1 \in 1..n
        <4>1. x > i + 1
          BY <3>1
        <4> QED BY <2>1, <4>1
      <3>3. At(x - 1) = "B"
        BY <3>1, <3>2, EndIsNoCharacter
      <3>4. x - 1 = to
        BY <2>3, <3>1, <3>2, <3>3, DigitsAreDigits
      <3>5. x = to + 1
        BY <2>1, <3>4
      <3> QED BY <3>3, <3>4, <3>5
    <2>8. ASSUME NEW x \in i + 1..n + 1, RealForm(i, x)
          PROVE  point /\ x \in to + 1..n + 1 /\ AfterPoint(to, x)
      <3>1. PICK p \in i + 1..x - 1 :
               All(i, p, Digit) /\ src[p] = "." /\ At(p + 1) # "." /\ AfterPoint(p, x)
        BY <2>8, Zenon DEF RealForm, AfterPoint
      <3>2. p \in 1..n /\ p \in i..n + 1 /\ x \in p + 1..n + 1
        BY <2>1
      <3>3. At(p) = "."
        BY <3>1, <3>2, EndIsNoCharacter
      <3>4. p = to
        BY <2>3, <3>1, <3>2, <3>3, DigitsAreDigits
      <3> QED BY <3>1, <3>2, <3>3, <3>4
    <2>9. At(i) # "#"
      BY <1>3, DigitsAreDigits
    <2>10. CASE point
      <3>1. ReadNumber(i) = ReadReal(to)
        BY <1>1, <2>9, <2>10
      <3>2. to \in 1..n /\ src[to] = "."
        <4>1. to \in Nat \ {0} /\ At(to) # "eof"
          BY <2>1, <2>4, <2>10
        <4>2. to \in 1..n
          BY <4>1, NextPosition
        <4> QED BY <2>10, <4>2, EndIsNoCharacter
      <3> DEFINE r == ReadReal(to)
      <3>3. /\ r.kind = "real" /\ r.to \in to + 1..n + 1 /\ AfterPoint(to, r.to)
            /\ \A j \in to + 1..n + 1 : AfterPoint(to, j) => j <= r.to
        BY <3>2, RealIsLongest
      <3> HIDE DEF r
      <3>4. to \in i + 1..r.to - 1 /\ r.to \in i + 1..n + 1
        <4> DEFINE e == r.to
        <4>1. e \in to + 1..n + 1
          BY <3>3
        <4> HIDE DEF e
        <4>2. to \in i + 1..e - 1 /\ e \in i + 1..n + 1
          BY <2>1, <2>4, <4>1
        <4> QED BY <4>2 DEF e
      <3>5. RealForm(i, r.to)
        BY <2>2, <2>10, <3>2, <3>3, <3>4, Zenon DEF RealForm, AfterPoint
      <3>6. r.to \in Ends(i)
        BY <3>4, <3>5, EndsAreForms
      <3>7. ASSUME NEW x \in Ends(i) PROVE x <= r.to
        <4>1. CASE RealForm(i, x)
          BY <2>5, <2>8, <3>3, <4>1
        <4>2. CASE All(i, x, Digit)
          <5> DEFINE e == r.to
          <5>1. x <= to /\ e \in to + 1..n + 1 /\ x \in i + 1..n + 1
            BY <2>5, <2>6, <3>3, <4>2
          <5> HIDE DEF e
          <5>2. x <= e
            BY <2>1, <2>4, <5>1
          <5> QED BY <5>2 DEF e
        <4>3. CASE AddressForm(i, x)
          BY <2>5, <2>7, <2>10, <4>3
        <4> QED BY <2>5, <4>1, <4>2, <4>3
      <3>8. FormOf("real") = "real" /\ Form("real", i, r.to)
        BY <3>5 DEF Form, FormOf
      <3>9. Exact(r, i)
        BY <3>3, <3>6, <3>7, <3>8 DEF Exact
      <3> QED BY <3>1, <3>9 DEF r, Taken
    <2>11. CASE ~point /\ At(to) = "B"
      <3> DEFINE r == Number("address", to + 1, v)
      <3>1. ReadNumber(i) = r
        BY <1>1, <2>9, <2>11
      <3>2. r.to = to + 1 /\ (r.kind = "address" \/ r.kind = "exception")
        BY DEF Number, Lexeme
      <3> HIDE DEF r
      <3>3. to \in 1..n /\ src[to] = "B"
        <4>1. to \in Nat \ {0} /\ At(to) # "eof"
          BY <2>1, <2>4, <2>11
        <4>2. to \in 1..n
          BY <4>1, NextPosition
        <4> QED BY <2>11, <4>2, EndIsNoCharacter
      <3>4. to + 1 > i + 1 /\ (to + 1) - 1 = to /\ to + 1 \in i + 1..n + 1
        BY <2>1, <2>4, <3>3
      <3>5. AddressForm(i, to + 1)
        BY <2>2, <3>3, <3>4, Zenon DEF AddressForm
      <3>6. to + 1 \in Ends(i)
        BY <3>4, <3>5, EndsAreForms
      <3>7. ASSUME NEW x \in Ends(i) PROVE x <= to + 1
        <4>1. CASE RealForm(i, x)
          BY <2>5, <2>8, <2>11, <4>1
        <4>2. CASE All(i, x, Digit)
          <5>1. x <= to /\ x \in i + 1..n + 1
            BY <2>5, <2>6, <4>2
          <5> QED BY <2>1, <2>4, <5>1
        <4>3. CASE AddressForm(i, x)
          <5>1. x = to + 1
            BY <2>5, <2>7, <4>3
          <5> QED BY <3>4, <5>1
        <4> QED BY <2>5, <4>1, <4>2, <4>3
      <3>8. FormOf("address") = "address" /\ Form("address", i, to + 1)
        BY <3>5 DEF Form, FormOf
      <3>9. Taken(r, i)
        BY <3>2, <3>6, <3>7, <3>8 DEF Exact, Taken
      <3> QED BY <3>1, <3>9
    <2>12. CASE ~point /\ At(to) # "B"
      <3> DEFINE r == Number("integer", to, v)
      <3>1. ReadNumber(i) = r
        BY <1>1, <2>9, <2>12
      <3>2. r.to = to /\ (r.kind = "integer" \/ r.kind = "exception")
        BY DEF Number, Lexeme
      <3> HIDE DEF r
      <3>3. IntegerForm(i, to)
        BY <2>2 DEF IntegerForm
      <3>4. to \in Ends(i)
        BY <2>4, <3>3, EndsAreForms
      <3>5. ASSUME NEW x \in Ends(i) PROVE x <= to
        <4>1. CASE RealForm(i, x)
          BY <2>5, <2>8, <2>12, <4>1
        <4>2. CASE All(i, x, Digit)
          BY <2>5, <2>6, <4>2
        <4>3. CASE AddressForm(i, x)
          BY <2>5, <2>7, <2>12, <4>3
        <4> QED BY <2>5, <4>1, <4>2, <4>3
      <3>6. FormOf("integer") = "integer" /\ Form("integer", i, to)
        BY <3>3 DEF Form, FormOf
      <3>7. Taken(r, i)
        BY <3>2, <3>4, <3>5, <3>6 DEF Exact, Taken
      <3> QED BY <3>1, <3>7
    <2> QED BY <2>10, <2>11, <2>12
  <1> QED BY <1>2, <1>3
(* Whatever is read of a text is the longest that could be.                *)
LEMMA ReadIsLongest ==
    ASSUME TextOK, NEW i \in 1..Len(src) + 1, NEW t, t.kind = Read(i).kind,
           t.from = i, t.to = Read(i).to, t.kind # "EOF", t.kind # "exception"
    PROVE  Longest(t)
  <1> DEFINE n == Len(src)
  <1>1. n \in Nat /\ i \in 1..n
    <2>1. n \in Nat
      BY EndIsNoCharacter
    <2>2. i # n + 1
      BY ReadProperties
    <2> QED BY <2>1, <2>2
  <1>2. ~ (i > n)
    BY <1>1
  <1>3. ASSUME NEW r, Read(i) = r, Taken(r, i) PROVE Longest(t)
    <2>1. Exact(r, i)
      BY <1>3, Zenon DEF Taken
    <2>2. t.kind = r.kind /\ t.from = i /\ t.to = r.to
      BY <1>3
    <2> QED BY <1>1, <2>1, <2>2, ExactIsLongest
  <1>4. CASE At(i) \in WordStart
    <2>1. Read(i) = ReadIdentifierOrKeyword(i)
      <3>1. At(i) \notin Digit \cup {"#"} /\ At(i) # "'"
        BY <1>4, Classes DEF WordStart
      <3> QED BY <1>2, <1>4, <3>1 DEF Read, WordStart
    <2> QED BY <1>1, <1>3, <1>4, <2>1, WordIsLongest
  <1>5. CASE At(i) \in Digit \cup {"#"}
    <2>1. Read(i) = ReadNumber(i)
      <3>1. At(i) \notin Letter \cup {"_"} /\ At(i) # "'"
        BY <1>5, Classes
      <3> QED BY <1>2, <1>5, <3>1 DEF Read
    <2> QED BY <1>1, <1>3, <1>5, <2>1, NumberIsLongest
  <1>6. CASE At(i) = "'"
    <2>1. Read(i) = ReadStringOrBitLiteral(i)
      <3>1. At(i) \notin Letter \cup {"_"} /\ At(i) \notin Digit \cup {"#"}
        BY <1>6, Classes
      <3> QED BY <1>2, <1>6, <3>1 DEF Read
    <2> QED BY <1>1, <1>6, <2>1, StringIsLongest
  <1>7. CASE At(i) \notin WordStart /\ At(i) \notin Digit \cup {"#"} /\ At(i) # "'"
    <2>1. Read(i) = ReadOperator(i)
      BY <1>2, <1>7 DEF Read, WordStart
    <2> QED BY <1>1, <1>7, <2>1, OperatorIsLongest
  <1> QED BY <1>4, <1>5, <1>6, <1>7

(* What a token could be depends on the text alone.                        *)
LEMMA SameForms ==
    ASSUME src' = src
    PROVE  \A t : Longest(t)' <=> Longest(t)
  <1>1. \A i : At(i)' = At(i)
    BY DEF At
  <1>2. \A i, j, C : All(i, j, C)' <=> All(i, j, C)
    BY DEF All
  <1>3. \A i, j : Chain(Unit, i, j)' <=> Chain(Unit, i, j)
    BY DEF Chain, Unit
  <1>4. \A i, j : Quoted(i, j)' <=> Quoted(i, j)
    BY <1>1, <1>3, Zenon DEF Quoted
  <1>5. \A i, j : RealForm(i, j)' <=> RealForm(i, j)
    BY <1>1, <1>2, Zenon DEF RealForm, AfterPoint
  <1>6. \A i, j : Text(i, j)' = Text(i, j)
    BY DEF Text
  <1>7. \A f, i, j : Form(f, i, j)' <=> Form(f, i, j)
    <2> TAKE f, i, j
    <2>1. \A k : src'[k] = src[k]
      OBVIOUS
    <2>2. WordForm(i, j)' <=> WordForm(i, j)
      BY <1>2, <2>1, Zenon DEF WordForm
    <2>3. IntegerForm(i, j)' <=> IntegerForm(i, j)
      BY <1>2, <2>1, Zenon DEF IntegerForm
    <2>4. AddressForm(i, j)' <=> AddressForm(i, j)
      BY <1>2, <2>1, Zenon DEF AddressForm
    <2>5. BitsForm(i, j)' <=> BitsForm(i, j)
      BY <1>2, <1>4, <2>1, Zenon DEF BitsForm
    <2>6. OperatorForm(i, j)' <=> OperatorForm(i, j)
      BY <1>6, Zenon DEF OperatorForm
    <2> QED BY <1>4, <1>5, <2>2, <2>3, <2>4, <2>5, <2>6, Zenon
            DEF Form, WordForm, IntegerForm, AddressForm, BitsForm, OperatorForm
  <1>8. \A i : Ends(i)' = Ends(i)
    BY <1>7 DEF Ends
  <1> QED BY <1>7, <1>8 DEF Longest

(* The token that is read is the longest, and those before it stay so.     *)
LEMMA LongestMatchInductive ==
    ASSUME IInv, LInv, LongestMatch, [Next]_vars PROVE LongestMatch'
  <1>1. CASE ReadToken
    <2>1. PICK S : read \in Seq(S)
      BY DEF IInv, Cached
    <2> DEFINE r == Read(pos)
    <2>2. PICK t : /\ t = [kind |-> r.kind, from |-> pos, to |-> r.to, value |-> r.value,
                           line |-> Place(r).line, col |-> Place(r).col]
                   /\ read' = Append(read, t)
      BY <1>1 DEF ReadToken
    <2>3. r.kind # "exception" /\ src' = src
      BY <1>1 DEF ReadToken, AdvanceTo
    <2>4. TextOK /\ pos \in 1..Len(src) + 1
      BY DEF LInv, Reading
    <2> HIDE DEF r
    <2>5. t.kind = r.kind /\ t.from = pos /\ t.to = r.to
      BY <2>2
    <2>6. t.kind # "EOF" => Longest(t)
      BY <2>3, <2>4, <2>5, ReadIsLongest DEF r
    <2> DEFINE m == Len(read)
    <2>7. /\ DOMAIN read = 1..m /\ DOMAIN read' = 1..m + 1
          /\ \A k \in 1..m : read'[k] = read[k]
          /\ read'[m + 1] = t /\ m \in Nat
      <3>1. read \in Seq(S \cup {t}) /\ t \in S \cup {t}
        BY <2>1, MoreTokens
      <3> HIDE DEF m
      <3>2. read' = Append(read, t) /\ m = Len(read)
        BY <2>2 DEF m
      <3> QED BY <3>1, <3>2
    <2> HIDE DEF m
    <2> SUFFICES ASSUME NEW k \in 1..m + 1, read'[k].kind # "EOF" PROVE Longest(read'[k])
      BY <2>3, <2>7, SameForms, Zenon DEF LongestMatch
    <2>8. CASE k = m + 1
      BY <2>6, <2>7, <2>8
    <2>9. CASE k # m + 1
      <3>1. k \in 1..m
        BY <2>7, <2>9
      <3> QED BY <2>7, <3>1, Zenon DEF LongestMatch
    <2> QED BY <2>8, <2>9
  <1>2. CASE ~ReadToken
    <2>1. src' = src /\ read' = read
      BY <1>2 DEF Next, NextPeeked, CallNext, CallPeek, SkipWhitespace, SkipLineComment,
                  SkipCommentStatement, Skipping, AdvanceTo, Abort, vars, textVars, Return
    <2> QED BY <2>1, SameForms, Zenon DEF LongestMatch
  <1> QED BY <1>1, <1>2

(* A token is the longest text of any form that begins where it begins:    *)
(* no scanner stops short or runs into the next token, for a text of any   *)
(* length; a string is closed where its form says, or nowhere.             *)
THEOREM LexerLongestMatch == Spec => []LongestMatch
  <1>1. IInv /\ [Next]_vars => IInv'
    BY NextPeekedKeeps, ReadTokenKeeps, OthersKeep DEF Next
  <1>2. Init => LongestMatch
    BY DEF Init, LongestMatch
  <1>3. IInv /\ LInv /\ LongestMatch /\ [Next]_vars => LongestMatch'
    BY LongestMatchInductive
  <1> QED BY InitIInv, InitLInv, <1>1, <1>2, LInvInductive, <1>3, PTL DEF Spec

=============================================================================
