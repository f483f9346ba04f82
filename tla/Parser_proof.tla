---------------------------- MODULE Parser_proof ----------------------------
(***************************************************************************)
(* Theorems about the parser, on inputs of every length over every         *)
(* vocabulary.                                                             *)
(*                                                                         *)
(* An ELSE or UNTIL goes to the nearest statement because the parse        *)
(* function of a statement that can have one looks for it at its very end: *)
(* in todo, the node of an IF or of a loop that has none yet always comes  *)
(* directly behind the match of its clause, or is the next thing to be     *)
(* made, with a current token that is not its clause (ClauseInv).  That    *)
(* every parse function is made like this is the lemma BodyStarted.        *)
(*                                                                         *)
(* Operators bind as they should because something is known between every  *)
(* two goals of the functions of the expressions: of the tokens read since *)
(* one of them was entered, that they are an operand of the level of that  *)
(* function, all whose operators have been applied.  What is known is a    *)
(* Fact; Follows says which fact a goal makes of which.  todo is at all    *)
(* times a path of such steps that begins with a fact that holds           *)
(* (PrecInv).  That the goals of each function are a path from what is     *)
(* known when it is entered to what its caller expects is the lemma        *)
(* CallRuns.                                                               *)
(***************************************************************************)
EXTENDS Parser, FiniteSetTheorems, SequenceTheorems, WellFoundedInduction, TLAPS

Sequence(s) == \E S : s \in Seq(S)

(* Sequences, whatever they are of.                                        *)
LEMMA SequenceLen ==
    ASSUME NEW s, Sequence(s)
    PROVE  /\ Len(s) \in Nat /\ DOMAIN s = 1..Len(s)
           /\ s = <<>> <=> Len(s) = 0
  <1>1. PICK S : s \in Seq(S)
    BY DEF Sequence
  <1> QED BY <1>1, LenProperties, EmptySeq

LEMMA SequenceTail ==
    ASSUME NEW s, Sequence(s), s # <<>>
    PROVE  /\ Sequence(Tail(s)) /\ Len(Tail(s)) = Len(s) - 1 /\ Head(s) = s[1]
           /\ DOMAIN Tail(s) = 1..Len(s) - 1
           /\ \A i \in DOMAIN Tail(s) : i + 1 \in DOMAIN s /\ Tail(s)[i] = s[i + 1]
  <1>1. PICK S : s \in Seq(S)
    BY DEF Sequence
  <1>2. /\ Tail(s) \in Seq(S) /\ Len(Tail(s)) = Len(s) - 1 /\ Head(s) = s[1]
        /\ DOMAIN Tail(s) = 1..Len(s) - 1
        /\ \A i \in DOMAIN Tail(s) : i + 1 \in DOMAIN s /\ Tail(s)[i] = s[i + 1]
    BY <1>1
  <1> QED BY <1>2 DEF Sequence

LEMMA SequenceConcat ==
    ASSUME NEW s, Sequence(s), NEW t, Sequence(t)
    PROVE  /\ Sequence(s \o t) /\ Len(s \o t) = Len(s) + Len(t)
           /\ \A i \in DOMAIN s : i \in DOMAIN (s \o t) /\ (s \o t)[i] = s[i]
           /\ \A i \in DOMAIN t : /\ Len(s) + i \in DOMAIN (s \o t)
                                  /\ (s \o t)[Len(s) + i] = t[i]
           /\ \A i \in DOMAIN (s \o t) :
                 \/ i \in DOMAIN s /\ (s \o t)[i] = s[i]
                 \/ i - Len(s) \in DOMAIN t /\ (s \o t)[i] = t[i - Len(s)]
  <1>1. PICK S : s \in Seq(S)
    BY DEF Sequence
  <1>2. PICK T : t \in Seq(T)
    BY DEF Sequence
  <1>3. PICK U : U = S \cup T
    OBVIOUS
  <1>4. s \in Seq(U) /\ t \in Seq(U)
    BY <1>1, <1>2, <1>3
  <1>5. s \o t \in Seq(U) /\ Len(s \o t) = Len(s) + Len(t)
    BY <1>4
  <1>6. \A i \in DOMAIN s : i \in DOMAIN (s \o t) /\ (s \o t)[i] = s[i]
    BY <1>4
  <1>7. \A i \in DOMAIN t : Len(s) + i \in DOMAIN (s \o t) /\ (s \o t)[Len(s) + i] = t[i]
    BY <1>4
  <1>8. \A i \in DOMAIN (s \o t) :
            \/ i \in DOMAIN s /\ (s \o t)[i] = s[i]
            \/ i - Len(s) \in DOMAIN t /\ (s \o t)[i] = t[i - Len(s)]
    BY <1>4
  <1> QED BY <1>5, <1>6, <1>7, <1>8 DEF Sequence

-----------------------------------------------------------------------------
(***************************************************************************)
(* What parse functions are made of.  The body of an optional part or of a *)
(* loop makes no node itself.                                              *)
(***************************************************************************)
Functions == {"BEGIN", "DeclarationGroup", "TypeSpec", "Typed", "VarDeclGroup",
              "ArrayName", "Declarator", "Dimension", "IntLiteral", "CONSTANT",
              "PROCEDURE", "ProcRest", "Param", "ParamMode", "Statement", "IF",
              "WHILE", "FOR", "DO", "DoBody", "REPEAT", "CASE", "CALL", "RETURN",
              "GOTO", "ASM", "PRINT", "PUSH", "POP", "ExprStmt", "AfterName",
              "Assignment", "LValue", "Element", "Rel", "Add", "Mul", "Unary",
              "PostfixOp", "Primary", "Applied", "Arguments"}

(* These two may make an operation or a short assignment of what has been  *)
(* read before.                                                            *)
Ordinary == Functions \ {"AfterName", "Assignment"}

(* It can have no clause.                                                  *)
Unowned(g) == \A x : [g EXCEPT !.at = x] = g

Leaf(g) == /\ \/ g.do = "call" /\ g.fn \in Ordinary
              \/ g.do = "expect"
           /\ Unowned(g)
Leaves(s) == Sequence(s) /\ \A i \in DOMAIN s : Leaf(s[i])

Flat(g) == Leaf(g) \/ (g.do \in {"match", "loop"} /\ Leaves(g.body) /\ Unowned(g))
Flats(s) == Sequence(s) /\ \A i \in DOMAIN s : Flat(s[i])

NodeGoal(g) == \E k, i, l : \E a \in Nat :
    g = [do |-> "node", kind |-> k, from |-> i, at |-> a, left |-> l]

(* What makes no operation and no short assignment.                        *)
Neutral(g) == \/ Leaf(g)
              \/ g.do \in {"match", "loop"} /\ Flats(g.body) /\ Unowned(g)
              \/ NodeGoal(g) /\ g.kind \notin {"Binary", "Modify"}

Plain(g) == \/ Neutral(g)
            \/ g.do = "call" /\ g.fn \in Functions /\ Unowned(g)
            \/ g.do = "operators" /\ g.fn \in Functions /\ Unowned(g)
            \/ NodeGoal(g)

(* A statement that can still have a clause, and the match of that clause. *)
Clausal == {"If", "While", "For", "Do"}
Clause(k) == IF k = "If" THEN "ELSE" ELSE "UNTIL"
Pending(g) == g.do = "node" /\ g.kind \in Clausal /\ g.at = 0
Offers(h, g) == h.do = "match" /\ h.of = {Clause(g.kind)}

(* The goals of a parse function, or what is behind the current goal when  *)
(* that is none for a clause.                                              *)
Goals(s) == /\ Sequence(s)
            /\ \A i \in DOMAIN s : /\ Plain(s[i])
                                   /\ Pending(s[i]) => i > 1 /\ Offers(s[i - 1], s[i])
Unclaimed(s) == \A i \in DOMAIN s : s[i].do = "node" => s[i].at = 0
Started(s) == Goals(s) /\ Unclaimed(s)
Neutrals(s) == \A i \in DOMAIN s : Neutral(s[i])
Listed(s) == Started(s) /\ Neutrals(s)

(* A goal that may stand anywhere in a parse function.                     *)
Part(g) == Plain(g) /\ ~Pending(g) /\ (g.do = "node" => g.at = 0)
Item(g) == Part(g) /\ Neutral(g)

(* What the goals are.                                                     *)
LEMMA Kinds ==
    /\ \A f \in Ordinary : \A i : Leaf(CallFrom(f, i))
    /\ \A f \in Ordinary : Leaf(Call(f))
    /\ \A ts : Leaf(ExpectAny(ts))
    /\ \A t : Leaf(Expect(t))
    /\ \A t, b : Leaves(b) => Flat(Match(t, b))
    /\ \A ts, b : Leaves(b) => Flat(Loop(ts, b))
    /\ \A g : Leaf(g) => Flat(g) /\ Item(g)
    /\ \A t, b : Flats(b) => Item(Match(t, b))
    /\ \A ts, b : Flats(b) => Item(Loop(ts, b))
    /\ \A f \in Functions : \A i : Part(CallFrom(f, i))
    /\ \A ts, i : \A f \in Functions : Part(Operators(ts, f, i))
    /\ \A k, i : k \notin Clausal => Part(NodeFrom(k, i))
    /\ \A k, i : k \notin Clausal \cup {"Binary", "Modify"} => Item(NodeFrom(k, i))
    /\ \A k : k \notin Clausal \cup {"Binary", "Modify"} => Item(Node(k))
  <1>1. \A f \in Ordinary : \A i : Leaf(CallFrom(f, i))
    BY DEF Leaf, CallFrom, Unowned
  <1>2. \A f \in Ordinary : Leaf(Call(f))
    BY <1>1 DEF Call
  <1>3. \A ts : Leaf(ExpectAny(ts))
    BY DEF Leaf, ExpectAny, Unowned
  <1>4. \A t : Leaf(Expect(t))
    BY <1>3 DEF Expect
  <1>5. \A t, b : /\ Match(t, b).do = "match" /\ Match(t, b).body = b
                  /\ Unowned(Match(t, b))
    BY DEF Match, Unowned
  <1>6. \A ts, b : /\ Loop(ts, b).do = "loop" /\ Loop(ts, b).body = b
                   /\ Unowned(Loop(ts, b))
    BY DEF Loop, Unowned
  <1>7. \A g : Leaf(g) => g.do # "node"
    BY DEF Leaf
  <1>8. \A g : Leaf(g) => Flat(g) /\ Item(g)
    BY <1>7 DEF Flat, Item, Part, Plain, Neutral, Pending
  <1>9. /\ \A ts, i : \A f \in Functions : Part(Operators(ts, f, i))
        /\ \A f \in Functions : \A i : Part(CallFrom(f, i))
    BY DEF Part, Plain, Pending, Operators, CallFrom, Unowned
  <1>10. \A k, i : k \notin Clausal =>
             /\ Part(NodeFrom(k, i))
             /\ k \notin {"Binary", "Modify"} => Item(NodeFrom(k, i))
    <2> SUFFICES ASSUME NEW k, NEW i, k \notin Clausal
                 PROVE  /\ Part(NodeFrom(k, i))
                        /\ k \notin {"Binary", "Modify"} => Item(NodeFrom(k, i))
      OBVIOUS
    <2> DEFINE g == NodeFrom(k, i)
    <2>1. g.do = "node" /\ g.kind = k /\ g.at = 0
      BY DEF NodeFrom
    <2>2. NodeGoal(g)
      BY DEF NodeFrom, NodeGoal
    <2> HIDE DEF g
    <2>3. Part(g) /\ (k \notin {"Binary", "Modify"} => Item(g))
      BY <2>1, <2>2 DEF Item, Part, Plain, Neutral, Pending
    <2> QED BY <2>3 DEF g
  <1>11. \A k : k \notin Clausal \cup {"Binary", "Modify"} => Item(Node(k))
    BY <1>10 DEF Node
  <1>12. \A t, b : /\ Leaves(b) => Flat(Match(t, b))
                   /\ Flats(b) => Item(Match(t, b))
    BY <1>5 DEF Flat, Item, Part, Plain, Neutral, Pending
  <1>13. \A ts, b : /\ Leaves(b) => Flat(Loop(ts, b))
                    /\ Flats(b) => Item(Loop(ts, b))
    BY <1>6 DEF Flat, Item, Part, Plain, Neutral, Pending
  <1> QED BY <1>1, <1>2, <1>3, <1>4, <1>8, <1>9, <1>10, <1>11, <1>12, <1>13

(* Lists of them.                                                          *)
LEMMA Lists ==
    /\ Leaves(<<>>) /\ Flats(<<>>) /\ Listed(<<>>)
    /\ \A s : Leaves(s) => Flats(s)
    /\ \A s : Flats(s) => Listed(s)
    /\ \A s : Sequence(s) /\ (\A i \in DOMAIN s : Item(s[i])) => Listed(s)
    /\ \A s : Sequence(s) /\ (\A i \in DOMAIN s : Part(s[i])) => Started(s)
  <1>1. Sequence(<<>>) /\ DOMAIN <<>> = {}
    <2>1. <<>> \in Seq({})
      OBVIOUS
    <2> QED BY <2>1 DEF Sequence
  <1>2. \A s : Leaves(s) => Flats(s)
    BY Kinds DEF Leaves, Flats
  <1>3. /\ \A s : Sequence(s) /\ (\A i \in DOMAIN s : Item(s[i])) => Listed(s)
        /\ \A s : Sequence(s) /\ (\A i \in DOMAIN s : Part(s[i])) => Started(s)
    BY DEF Item, Part, Listed, Started, Neutrals, Goals, Unclaimed
  <1>4. \A g : Flat(g) => Item(g)
    <2> SUFFICES ASSUME NEW g, Flat(g) PROVE Item(g)
      OBVIOUS
    <2>1. CASE Leaf(g)
      BY <2>1, Kinds
    <2>2. CASE g.do \in {"match", "loop"} /\ Leaves(g.body) /\ Unowned(g)
      BY <1>2, <2>2 DEF Item, Part, Plain, Neutral, Pending
    <2> QED BY <2>1, <2>2 DEF Flat
  <1>5. \A s : Flats(s) => Listed(s)
    BY <1>3, <1>4 DEF Flats
  <1> QED BY <1>1, <1>2, <1>3, <1>5 DEF Leaves, Flats

(* Written out.                                                            *)
LEMMA Tuple1 ==
    \A a :
        /\ Sequence(<<a>>)
        /\ DOMAIN <<a>> = {1}
  <1> TAKE a
  <1>1. PICK S : S = {a}
    OBVIOUS
  <1>2. a \in S
    BY <1>1
  <1>3. <<a>> \in Seq(S)
    BY <1>2
  <1>4. DOMAIN <<a>> = {1}
    OBVIOUS
  <1>5. Sequence(<<a>>)
    BY <1>3, Zenon DEF Sequence
  <1> QED BY <1>4, <1>5, Zenon

LEMMA Tuple2 ==
    \A a, b :
        /\ Sequence(<<a, b>>)
        /\ DOMAIN <<a, b>> = {1, 2}
  <1> TAKE a, b
  <1>1. PICK S : S = {a, b}
    OBVIOUS
  <1>2. a \in S /\ b \in S
    BY <1>1
  <1>3. <<a, b>> \in Seq(S)
    BY <1>2
  <1>4. DOMAIN <<a, b>> = {1, 2}
    OBVIOUS
  <1>5. Sequence(<<a, b>>)
    BY <1>3, Zenon DEF Sequence
  <1> QED BY <1>4, <1>5, Zenon

LEMMA Tuple3 ==
    \A a, b, c :
        /\ Sequence(<<a, b, c>>)
        /\ DOMAIN <<a, b, c>> = {1, 2, 3}
  <1> TAKE a, b, c
  <1>1. PICK S : S = {a, b, c}
    OBVIOUS
  <1>2. a \in S /\ b \in S /\ c \in S
    BY <1>1
  <1>3. <<a, b, c>> \in Seq(S)
    BY <1>2
  <1>4. DOMAIN <<a, b, c>> = {1, 2, 3}
    OBVIOUS
  <1>5. Sequence(<<a, b, c>>)
    BY <1>3, Zenon DEF Sequence
  <1> QED BY <1>4, <1>5, Zenon

LEMMA Tuple4 ==
    \A a, b, c, d :
        /\ Sequence(<<a, b, c, d>>)
        /\ DOMAIN <<a, b, c, d>> = {1, 2, 3, 4}
  <1> TAKE a, b, c, d
  <1>1. PICK S : S = {a, b, c, d}
    OBVIOUS
  <1>2. a \in S /\ b \in S /\ c \in S /\ d \in S
    BY <1>1
  <1>3. <<a, b, c, d>> \in Seq(S)
    BY <1>2
  <1>4. DOMAIN <<a, b, c, d>> = {1, 2, 3, 4}
    OBVIOUS
  <1>5. Sequence(<<a, b, c, d>>)
    BY <1>3, Zenon DEF Sequence
  <1> QED BY <1>4, <1>5, Zenon

LEMMA Tuple5 ==
    \A a, b, c, d, e :
        /\ Sequence(<<a, b, c, d, e>>)
        /\ DOMAIN <<a, b, c, d, e>> = {1, 2, 3, 4, 5}
  <1> TAKE a, b, c, d, e
  <1>1. PICK S : S = {a, b, c, d, e}
    OBVIOUS
  <1>2. a \in S /\ b \in S /\ c \in S /\ d \in S /\ e \in S
    BY <1>1
  <1>3. <<a, b, c, d, e>> \in Seq(S)
    BY <1>2
  <1>4. DOMAIN <<a, b, c, d, e>> = {1, 2, 3, 4, 5}
    OBVIOUS
  <1>5. Sequence(<<a, b, c, d, e>>)
    BY <1>3, Zenon DEF Sequence
  <1> QED BY <1>4, <1>5, Zenon

LEMMA Tuple6 ==
    \A a, b, c, d, e, f :
        /\ Sequence(<<a, b, c, d, e, f>>)
        /\ DOMAIN <<a, b, c, d, e, f>> = {1, 2, 3, 4, 5, 6}
  <1> TAKE a, b, c, d, e, f
  <1>1. PICK S : S = {a, b, c, d, e, f}
    OBVIOUS
  <1>2. a \in S /\ b \in S /\ c \in S /\ d \in S /\ e \in S /\ f \in S
    BY <1>1
  <1>3. <<a, b, c, d, e, f>> \in Seq(S)
    BY <1>2
  <1>4. DOMAIN <<a, b, c, d, e, f>> = {1, 2, 3, 4, 5, 6}
    OBVIOUS
  <1>5. Sequence(<<a, b, c, d, e, f>>)
    BY <1>3, Zenon DEF Sequence
  <1> QED BY <1>4, <1>5, Zenon

LEMMA Tuple10 ==
    \A a, b, c, d, e, f, g, h, i, j :
        /\ Sequence(<<a, b, c, d, e, f, g, h, i, j>>)
        /\ DOMAIN <<a, b, c, d, e, f, g, h, i, j>> = {1, 2, 3, 4, 5, 6, 7, 8, 9, 10}
  <1> TAKE a, b, c, d, e, f, g, h, i, j
  <1>1. PICK S : S = {a, b, c, d, e, f, g, h, i, j}
    OBVIOUS
  <1>2. a \in S /\ b \in S /\ c \in S /\ d \in S /\ e \in S /\ f \in S /\
        g \in S /\ h \in S /\ i \in S /\ j \in S
    BY <1>1
  <1>3. <<a, b, c, d, e, f, g, h, i, j>> \in Seq(S)
    BY <1>2
  <1>4. DOMAIN <<a, b, c, d, e, f, g, h, i, j>> = {1, 2, 3, 4, 5, 6, 7, 8, 9, 10}
    OBVIOUS
  <1>5. Sequence(<<a, b, c, d, e, f, g, h, i, j>>)
    BY <1>3, Zenon DEF Sequence
  <1> QED BY <1>4, <1>5, Zenon

(* Lists of leaves.                                                        *)
LEMMA LeavesOf ==
    /\ \A a : Leaf(a)
         => Leaves(<<a>>)
    /\ \A a, b : Leaf(a) /\ Leaf(b)
         => Leaves(<<a, b>>)
  <1>1. \A a : Leaf(a)
         => Leaves(<<a>>)
    <2> SUFFICES ASSUME NEW a,
                    Leaf(a)
             PROVE  Leaves(<<a>>)
      OBVIOUS
    <2> DEFINE s == <<a>>
    <2>1. Sequence(s) /\ DOMAIN s = {1}
      BY Tuple1, Zenon
    <2>2. s[1] = a
      OBVIOUS
    <2> HIDE DEF s
    <2>3. \A i \in DOMAIN s : Leaf(s[i])
      BY <2>1, <2>2
    <2>4. Leaves(s)
      BY <2>1, <2>3, Zenon DEF Leaves
    <2> QED BY <2>4 DEF s
  <1>2. \A a, b : Leaf(a) /\ Leaf(b)
         => Leaves(<<a, b>>)
    <2> SUFFICES ASSUME NEW a, NEW b,
                    Leaf(a) /\ Leaf(b)
             PROVE  Leaves(<<a, b>>)
      OBVIOUS
    <2> DEFINE s == <<a, b>>
    <2>1. Sequence(s) /\ DOMAIN s = {1, 2}
      BY Tuple2, Zenon
    <2>2. s[1] = a /\ s[2] = b
      OBVIOUS
    <2> HIDE DEF s
    <2>3. \A i \in DOMAIN s : Leaf(s[i])
      BY <2>1, <2>2
    <2>4. Leaves(s)
      BY <2>1, <2>3, Zenon DEF Leaves
    <2> QED BY <2>4 DEF s
  <1> QED BY <1>1, <1>2, Zenon

(* Lists without a node.                                                   *)
LEMMA FlatsOf ==
    /\ \A a : Flat(a)
         => Flats(<<a>>)
    /\ \A a, b : Flat(a) /\ Flat(b)
         => Flats(<<a, b>>)
    /\ \A a, b, c : Flat(a) /\ Flat(b) /\ Flat(c)
         => Flats(<<a, b, c>>)
    /\ \A a, b, c, d : Flat(a) /\ Flat(b) /\ Flat(c) /\ Flat(d)
         => Flats(<<a, b, c, d>>)
  <1>1. \A a : Flat(a)
         => Flats(<<a>>)
    <2> SUFFICES ASSUME NEW a,
                    Flat(a)
             PROVE  Flats(<<a>>)
      OBVIOUS
    <2> DEFINE s == <<a>>
    <2>1. Sequence(s) /\ DOMAIN s = {1}
      BY Tuple1, Zenon
    <2>2. s[1] = a
      OBVIOUS
    <2> HIDE DEF s
    <2>3. \A i \in DOMAIN s : Flat(s[i])
      BY <2>1, <2>2
    <2>4. Flats(s)
      BY <2>1, <2>3, Zenon DEF Flats
    <2> QED BY <2>4 DEF s
  <1>2. \A a, b : Flat(a) /\ Flat(b)
         => Flats(<<a, b>>)
    <2> SUFFICES ASSUME NEW a, NEW b,
                    Flat(a) /\ Flat(b)
             PROVE  Flats(<<a, b>>)
      OBVIOUS
    <2> DEFINE s == <<a, b>>
    <2>1. Sequence(s) /\ DOMAIN s = {1, 2}
      BY Tuple2, Zenon
    <2>2. s[1] = a /\ s[2] = b
      OBVIOUS
    <2> HIDE DEF s
    <2>3. \A i \in DOMAIN s : Flat(s[i])
      BY <2>1, <2>2
    <2>4. Flats(s)
      BY <2>1, <2>3, Zenon DEF Flats
    <2> QED BY <2>4 DEF s
  <1>3. \A a, b, c : Flat(a) /\ Flat(b) /\ Flat(c)
         => Flats(<<a, b, c>>)
    <2> SUFFICES ASSUME NEW a, NEW b, NEW c,
                    Flat(a) /\ Flat(b) /\ Flat(c)
             PROVE  Flats(<<a, b, c>>)
      OBVIOUS
    <2> DEFINE s == <<a, b, c>>
    <2>1. Sequence(s) /\ DOMAIN s = {1, 2, 3}
      BY Tuple3, Zenon
    <2>2. s[1] = a /\ s[2] = b /\ s[3] = c
      OBVIOUS
    <2> HIDE DEF s
    <2>3. \A i \in DOMAIN s : Flat(s[i])
      BY <2>1, <2>2
    <2>4. Flats(s)
      BY <2>1, <2>3, Zenon DEF Flats
    <2> QED BY <2>4 DEF s
  <1>4. \A a, b, c, d : Flat(a) /\ Flat(b) /\ Flat(c) /\ Flat(d)
         => Flats(<<a, b, c, d>>)
    <2> SUFFICES ASSUME NEW a, NEW b, NEW c, NEW d,
                    Flat(a) /\ Flat(b) /\ Flat(c) /\ Flat(d)
             PROVE  Flats(<<a, b, c, d>>)
      OBVIOUS
    <2> DEFINE s == <<a, b, c, d>>
    <2>1. Sequence(s) /\ DOMAIN s = {1, 2, 3, 4}
      BY Tuple4, Zenon
    <2>2. s[1] = a /\ s[2] = b /\ s[3] = c /\ s[4] = d
      OBVIOUS
    <2> HIDE DEF s
    <2>3. \A i \in DOMAIN s : Flat(s[i])
      BY <2>1, <2>2
    <2>4. Flats(s)
      BY <2>1, <2>3, Zenon DEF Flats
    <2> QED BY <2>4 DEF s
  <1> QED BY <1>1, <1>2, <1>3, <1>4, Zenon

(* Lists of goals that may stand anywhere.                                 *)
LEMMA ItemsOf ==
    /\ \A a : Item(a)
         => Listed(<<a>>)
    /\ \A a, b : Item(a) /\ Item(b)
         => Listed(<<a, b>>)
    /\ \A a, b, c : Item(a) /\ Item(b) /\ Item(c)
         => Listed(<<a, b, c>>)
    /\ \A a, b, c, d : Item(a) /\ Item(b) /\ Item(c) /\ Item(d)
         => Listed(<<a, b, c, d>>)
    /\ \A a, b, c, d, e : Item(a) /\ Item(b) /\ Item(c) /\ Item(d) /\ Item(e)
         => Listed(<<a, b, c, d, e>>)
    /\ \A a, b, c, d, e, f : Item(a) /\ Item(b) /\ Item(c) /\ Item(d) /\ Item(e) /\ Item(f)
         => Listed(<<a, b, c, d, e, f>>)
  <1>1. \A a : Item(a)
         => Listed(<<a>>)
    <2> SUFFICES ASSUME NEW a,
                    Item(a)
             PROVE  Listed(<<a>>)
      OBVIOUS
    <2> DEFINE s == <<a>>
    <2>1. Sequence(s) /\ DOMAIN s = {1}
      BY Tuple1, Zenon
    <2>2. s[1] = a
      OBVIOUS
    <2> HIDE DEF s
    <2>3. \A i \in DOMAIN s : Item(s[i])
      BY <2>1, <2>2
    <2>4. Listed(s)
      BY <2>1, <2>3, Lists, Zenon
    <2> QED BY <2>4 DEF s
  <1>2. \A a, b : Item(a) /\ Item(b)
         => Listed(<<a, b>>)
    <2> SUFFICES ASSUME NEW a, NEW b,
                    Item(a) /\ Item(b)
             PROVE  Listed(<<a, b>>)
      OBVIOUS
    <2> DEFINE s == <<a, b>>
    <2>1. Sequence(s) /\ DOMAIN s = {1, 2}
      BY Tuple2, Zenon
    <2>2. s[1] = a /\ s[2] = b
      OBVIOUS
    <2> HIDE DEF s
    <2>3. \A i \in DOMAIN s : Item(s[i])
      BY <2>1, <2>2
    <2>4. Listed(s)
      BY <2>1, <2>3, Lists, Zenon
    <2> QED BY <2>4 DEF s
  <1>3. \A a, b, c : Item(a) /\ Item(b) /\ Item(c)
         => Listed(<<a, b, c>>)
    <2> SUFFICES ASSUME NEW a, NEW b, NEW c,
                    Item(a) /\ Item(b) /\ Item(c)
             PROVE  Listed(<<a, b, c>>)
      OBVIOUS
    <2> DEFINE s == <<a, b, c>>
    <2>1. Sequence(s) /\ DOMAIN s = {1, 2, 3}
      BY Tuple3, Zenon
    <2>2. s[1] = a /\ s[2] = b /\ s[3] = c
      OBVIOUS
    <2> HIDE DEF s
    <2>3. \A i \in DOMAIN s : Item(s[i])
      BY <2>1, <2>2
    <2>4. Listed(s)
      BY <2>1, <2>3, Lists, Zenon
    <2> QED BY <2>4 DEF s
  <1>4. \A a, b, c, d : Item(a) /\ Item(b) /\ Item(c) /\ Item(d)
         => Listed(<<a, b, c, d>>)
    <2> SUFFICES ASSUME NEW a, NEW b, NEW c, NEW d,
                    Item(a) /\ Item(b) /\ Item(c) /\ Item(d)
             PROVE  Listed(<<a, b, c, d>>)
      OBVIOUS
    <2> DEFINE s == <<a, b, c, d>>
    <2>1. Sequence(s) /\ DOMAIN s = {1, 2, 3, 4}
      BY Tuple4, Zenon
    <2>2. s[1] = a /\ s[2] = b /\ s[3] = c /\ s[4] = d
      OBVIOUS
    <2> HIDE DEF s
    <2>3. \A i \in DOMAIN s : Item(s[i])
      BY <2>1, <2>2
    <2>4. Listed(s)
      BY <2>1, <2>3, Lists, Zenon
    <2> QED BY <2>4 DEF s
  <1>5. \A a, b, c, d, e : Item(a) /\ Item(b) /\ Item(c) /\ Item(d) /\ Item(e)
         => Listed(<<a, b, c, d, e>>)
    <2> SUFFICES ASSUME NEW a, NEW b, NEW c, NEW d, NEW e,
                    Item(a) /\ Item(b) /\ Item(c) /\ Item(d) /\ Item(e)
             PROVE  Listed(<<a, b, c, d, e>>)
      OBVIOUS
    <2> DEFINE s == <<a, b, c, d, e>>
    <2>1. Sequence(s) /\ DOMAIN s = {1, 2, 3, 4, 5}
      BY Tuple5, Zenon
    <2>2. s[1] = a /\ s[2] = b /\ s[3] = c /\ s[4] = d /\ s[5] = e
      OBVIOUS
    <2> HIDE DEF s
    <2>3. \A i \in DOMAIN s : Item(s[i])
      BY <2>1, <2>2
    <2>4. Listed(s)
      BY <2>1, <2>3, Lists, Zenon
    <2> QED BY <2>4 DEF s
  <1>6. \A a, b, c, d, e, f : Item(a) /\ Item(b) /\ Item(c) /\ Item(d) /\ Item(e) /\ Item(f)
         => Listed(<<a, b, c, d, e, f>>)
    <2> SUFFICES ASSUME NEW a, NEW b, NEW c, NEW d, NEW e, NEW f,
                    Item(a) /\ Item(b) /\ Item(c) /\ Item(d) /\ Item(e) /\ Item(f)
             PROVE  Listed(<<a, b, c, d, e, f>>)
      OBVIOUS
    <2> DEFINE s == <<a, b, c, d, e, f>>
    <2>1. Sequence(s) /\ DOMAIN s = {1, 2, 3, 4, 5, 6}
      BY Tuple6, Zenon
    <2>2. s[1] = a /\ s[2] = b /\ s[3] = c /\ s[4] = d /\ s[5] = e /\
          s[6] = f
      OBVIOUS
    <2> HIDE DEF s
    <2>3. \A i \in DOMAIN s : Item(s[i])
      BY <2>1, <2>2
    <2>4. Listed(s)
      BY <2>1, <2>3, Lists, Zenon
    <2> QED BY <2>4 DEF s
  <1> QED BY <1>1, <1>2, <1>3, <1>4, <1>5, <1>6, Zenon

(* Lists of parts.                                                         *)
LEMMA PartsOf ==
    /\ \A a : Part(a)
         => Started(<<a>>)
    /\ \A a, b : Part(a) /\ Part(b)
         => Started(<<a, b>>)
    /\ \A a, b, c, d, e, f : Part(a) /\ Part(b) /\ Part(c) /\ Part(d) /\ Part(e) /\ Part(f)
         => Started(<<a, b, c, d, e, f>>)
  <1>1. ASSUME NEW a,
               Part(a)
        PROVE  Started(<<a>>)
    <2> DEFINE s == <<a>>
    <2>1. Sequence(s) /\ DOMAIN s = {1}
      BY Tuple1, Zenon
    <2>2. s[1] = a
      OBVIOUS
    <2> HIDE DEF s
    <2>3. \A i \in DOMAIN s : Part(s[i])
      BY <1>1, <2>1, <2>2
    <2>4. Started(s)
      BY <2>1, <2>3, Lists, Zenon
    <2> QED BY <2>4 DEF s
  <1>2. ASSUME NEW a, NEW b,
               Part(a), Part(b)
        PROVE  Started(<<a, b>>)
    <2> DEFINE s == <<a, b>>
    <2>1. Sequence(s) /\ DOMAIN s = {1, 2}
      BY Tuple2, Zenon
    <2>2. s[1] = a /\ s[2] = b
      OBVIOUS
    <2> HIDE DEF s
    <2>3. \A i \in DOMAIN s : Part(s[i])
      BY <1>2, <2>1, <2>2
    <2>4. Started(s)
      BY <2>1, <2>3, Lists, Zenon
    <2> QED BY <2>4 DEF s
  <1>3. ASSUME NEW a, NEW b, NEW c, NEW d, NEW e, NEW f,
               Part(a), Part(b), Part(c), Part(d), Part(e), Part(f)
        PROVE  Started(<<a, b, c, d, e, f>>)
    <2> DEFINE s == <<a, b, c, d, e, f>>
    <2>1. Sequence(s) /\ DOMAIN s = {1, 2, 3, 4, 5, 6}
      BY Tuple6, Zenon
    <2>2. s[1] = a /\ s[2] = b /\ s[3] = c /\ s[4] = d /\ s[5] = e /\ s[6] = f
      OBVIOUS
    <2> HIDE DEF s
    <2>3. \A i \in DOMAIN s : Part(s[i])
      BY <1>3, <2>1, <2>2
    <2>4. Started(s)
      BY <2>1, <2>3, Lists, Zenon
    <2> QED BY <2>4 DEF s
  <1> QED BY <1>1, <1>2, <1>3, Zenon

(* The statements that can have a clause, its match last but one.          *)
LEMMA ClauseLast4 ==
    \A a, b, c, d :
        Item(a) /\ Item(b) /\ Item(c)
          /\ NodeGoal(d) /\ d.kind \in Clausal /\ d.at = 0 /\ Offers(c, d)
        => Listed(<<a, b, c, d>>)
  <1> SUFFICES ASSUME NEW a, NEW b, NEW c, NEW d,
                  Item(a) /\ Item(b) /\ Item(c),
                  NodeGoal(d), d.kind \in Clausal, d.at = 0, Offers(c, d)
           PROVE  Listed(<<a, b, c, d>>)
    OBVIOUS
  <1> DEFINE s == <<a, b, c, d>>
  <1>1. Sequence(s) /\ DOMAIN s = {1, 2, 3, 4}
    BY Tuple4, Zenon
  <1>2. s[1] = a /\ s[2] = b /\ s[3] = c /\ s[4] = d
    OBVIOUS
  <1> HIDE DEF s
  <1>3. \A k \in DOMAIN s : k # 4 => Item(s[k])
    BY <1>1, <1>2
  <1>4. /\ NodeGoal(s[4]) /\ s[4].at = 0 /\ Offers(s[4 - 1], s[4]) /\ 4 > 1
        /\ Neutral(s[4])
    BY <1>2 DEF Neutral, Clausal
  <1>5. Listed(s)
    BY <1>1, <1>3, <1>4 DEF Listed, Started, Neutrals, Goals, Unclaimed, Item, Part, Plain
  <1> QED BY <1>5 DEF s

LEMMA ClauseLast6 ==
    \A a, b, c, d, e, f :
        Item(a) /\ Item(b) /\ Item(c) /\ Item(d) /\ Item(e)
          /\ NodeGoal(f) /\ f.kind \in Clausal /\ f.at = 0 /\ Offers(e, f)
        => Listed(<<a, b, c, d, e, f>>)
  <1> SUFFICES ASSUME NEW a, NEW b, NEW c, NEW d, NEW e, NEW f,
                  Item(a) /\ Item(b) /\ Item(c) /\ Item(d) /\ Item(e),
                  NodeGoal(f), f.kind \in Clausal, f.at = 0, Offers(e, f)
           PROVE  Listed(<<a, b, c, d, e, f>>)
    OBVIOUS
  <1> DEFINE s == <<a, b, c, d, e, f>>
  <1>1. Sequence(s) /\ DOMAIN s = {1, 2, 3, 4, 5, 6}
    BY Tuple6, Zenon
  <1>2. s[1] = a /\ s[2] = b /\ s[3] = c /\ s[4] = d /\ s[5] = e /\
        s[6] = f
    OBVIOUS
  <1> HIDE DEF s
  <1>3. \A k \in DOMAIN s : k # 6 => Item(s[k])
    BY <1>1, <1>2
  <1>4. /\ NodeGoal(s[6]) /\ s[6].at = 0 /\ Offers(s[6 - 1], s[6]) /\ 6 > 1
        /\ Neutral(s[6])
    BY <1>2 DEF Neutral, Clausal
  <1>5. Listed(s)
    BY <1>1, <1>3, <1>4 DEF Listed, Started, Neutrals, Goals, Unclaimed, Item, Part, Plain
  <1> QED BY <1>5 DEF s

LEMMA ClauseLast10 ==
    \A a, b, c, d, e, f, g, h, i, j :
        Item(a) /\ Item(b) /\ Item(c) /\ Item(d) /\ Item(e) /\ Item(f) /\
        Item(g) /\ Item(h) /\ Item(i)
          /\ NodeGoal(j) /\ j.kind \in Clausal /\ j.at = 0 /\ Offers(i, j)
        => Listed(<<a, b, c, d, e, f, g, h, i, j>>)
  <1> SUFFICES ASSUME NEW a, NEW b, NEW c, NEW d, NEW e, NEW f, NEW g, NEW h, NEW i, NEW j,
                  Item(a) /\ Item(b) /\ Item(c) /\ Item(d) /\ Item(e) /\
                  Item(f) /\ Item(g) /\ Item(h) /\ Item(i),
                  NodeGoal(j), j.kind \in Clausal, j.at = 0, Offers(i, j)
           PROVE  Listed(<<a, b, c, d, e, f, g, h, i, j>>)
    OBVIOUS
  <1> DEFINE s == <<a, b, c, d, e, f, g, h, i, j>>
  <1>1. Sequence(s) /\ DOMAIN s = {1, 2, 3, 4, 5, 6, 7, 8, 9, 10}
    BY Tuple10, Zenon
  <1>2. s[1] = a /\ s[2] = b /\ s[3] = c /\ s[4] = d /\ s[5] = e /\
        s[6] = f /\ s[7] = g /\ s[8] = h /\ s[9] = i /\ s[10] = j
    OBVIOUS
  <1> HIDE DEF s
  <1>3. \A k \in DOMAIN s : k # 10 => Item(s[k])
    BY <1>1, <1>2
  <1>4. /\ NodeGoal(s[10]) /\ s[10].at = 0 /\ Offers(s[10 - 1], s[10]) /\ 10 > 1
        /\ Neutral(s[10])
    BY <1>2 DEF Neutral, Clausal
  <1>5. Listed(s)
    BY <1>1, <1>3, <1>4 DEF Listed, Started, Neutrals, Goals, Unclaimed, Item, Part, Plain
  <1> QED BY <1>5 DEF s

(* Lists that are put together.                                            *)
LEMMA Joined ==
    /\ \A s, t : Flats(s) /\ Flats(t) => Flats(s \o t)
    /\ \A s, t : Listed(s) /\ Listed(t) => Listed(s \o t)
  <1>1. \A s, t : Flats(s) /\ Flats(t) => Flats(s \o t)
    <2> SUFFICES ASSUME NEW s, NEW t, Flats(s), Flats(t)
                 PROVE  Flats(s \o t)
      OBVIOUS
    <2> DEFINE u == s \o t
    <2>1. /\ Sequence(u)
          /\ \A i \in DOMAIN u : \/ i \in DOMAIN s /\ u[i] = s[i]
                                 \/ i - Len(s) \in DOMAIN t /\ u[i] = t[i - Len(s)]
      BY SequenceConcat DEF Flats
    <2> HIDE DEF u
    <2>2. Flats(u)
      BY <2>1 DEF Flats
    <2> QED BY <2>2 DEF u
  <1>2. \A s, t : Listed(s) /\ Listed(t) => Listed(s \o t)
    <2> SUFFICES ASSUME NEW s, NEW t, Listed(s), Listed(t)
                 PROVE  Listed(s \o t)
      OBVIOUS
    <2>0. Sequence(s) /\ Sequence(t)
      BY DEF Listed, Started, Neutrals, Goals
    <2> DEFINE u == s \o t
    <2>a. Sequence(u)
      BY <2>0, SequenceConcat
    <2>b. \A i \in DOMAIN s : i \in DOMAIN u /\ u[i] = s[i]
      BY <2>0, SequenceConcat
    <2>c. \A i \in DOMAIN t : Len(s) + i \in DOMAIN u /\ u[Len(s) + i] = t[i]
      BY <2>0, SequenceConcat
    <2>d. \A i \in DOMAIN u : \/ i \in DOMAIN s /\ u[i] = s[i]
                              \/ i - Len(s) \in DOMAIN t /\ u[i] = t[i - Len(s)]
      BY <2>0, SequenceConcat
    <2>2. PICK m \in Nat : m = Len(s) /\ DOMAIN s = 1..m
      BY <2>0, SequenceLen
    <2>3. PICK n \in Nat : DOMAIN t = 1..n
      BY <2>0, SequenceLen
    <2> HIDE DEF u
    <2>4. ASSUME NEW i \in DOMAIN u
          PROVE  /\ Plain(u[i]) /\ Neutral(u[i]) /\ (u[i].do = "node" => u[i].at = 0)
                 /\ Pending(u[i]) => i > 1 /\ Offers(u[i - 1], u[i])
      <3>1. CASE i \in DOMAIN s /\ u[i] = s[i]
        <4>1. Plain(u[i]) /\ Neutral(u[i]) /\ (u[i].do = "node" => u[i].at = 0)
          BY <3>1 DEF Listed, Started, Neutrals, Goals, Unclaimed
        <4>2. ASSUME Pending(u[i])
              PROVE  i > 1 /\ Offers(u[i - 1], u[i])
          <5>1. i > 1 /\ Offers(s[i - 1], s[i])
            BY <3>1, <4>2 DEF Listed, Started, Neutrals, Goals
          <5>2. i \in 1..m
            BY <2>2, <3>1
          <5>3. i - 1 \in 1..m
            BY <5>1, <5>2
          <5>4. u[i - 1] = s[i - 1]
            BY <2>b, <2>2, <5>3
          <5> QED BY <3>1, <5>1, <5>4
        <4> QED BY <4>1, <4>2
      <3>2. CASE i - Len(s) \in DOMAIN t /\ u[i] = t[i - Len(s)]
        <4>0. PICK j \in 1..n : j = i - m
          BY <2>2, <2>3, <3>2
        <4>1. u[i] = t[j] /\ j \in DOMAIN t
          BY <2>2, <2>3, <3>2, <4>0
        <4>2. Plain(u[i]) /\ Neutral(u[i]) /\ (u[i].do = "node" => u[i].at = 0)
          BY <4>1 DEF Listed, Started, Neutrals, Goals, Unclaimed
        <4>3. ASSUME Pending(u[i])
              PROVE  i > 1 /\ Offers(u[i - 1], u[i])
          <5>1. j > 1 /\ Offers(t[j - 1], t[j])
            BY <4>1, <4>3 DEF Listed, Started, Neutrals, Goals
          <5>2. j - 1 \in DOMAIN t
            BY <2>3, <5>1
          <5>3. u[m + (j - 1)] = t[j - 1]
            BY <2>c, <2>2, <5>2
          <5>a. i \in Int
            <6>1. PICK w \in Nat : DOMAIN u = 1..w
              BY <2>a, SequenceLen
            <6> QED BY <6>1
          <5>4. i - 1 = m + (j - 1) /\ i > 1
            BY <4>0, <5>1, <5>a
          <5> QED BY <4>1, <5>1, <5>3, <5>4
        <4> QED BY <4>2, <4>3
      <3> QED BY <2>d, <3>1, <3>2
    <2>5. Listed(u)
      BY <2>a, <2>4 DEF Listed, Started, Neutrals, Goals, Unclaimed
    <2> QED BY <2>5 DEF u
  <1> QED BY <1>1, <1>2

-----------------------------------------------------------------------------
(***************************************************************************)
(* The parse functions, one by one.                                        *)
(***************************************************************************)
(* What they share.                                                        *)
LEMMA Shared ==
    /\ Leaf(Expr) /\ Leaf(Stmt) /\ Flat(SkipSemi) /\ Item(UntilClause)
    /\ Listed(Nothing) /\ Listed(Throw)
    /\ \A g : Leaf(g) => Flats(CommaSeparated(g))
    /\ Flats(ArgList)
    /\ \A s : Flats(s) => Flats(InParens(s))
    /\ \A i : Item(PostfixOps(i))
  <1>1. Leaf(Expr) /\ Leaf(Stmt)
    BY Kinds DEF Expr, Stmt, Functions, Ordinary
  <1>2. Leaves(Nothing) /\ Listed(Nothing)
    BY Lists DEF Nothing
  <1>3. Flat(SkipSemi)
    BY <1>2, Kinds, Zenon DEF SkipSemi
  <1>4. Item(UntilClause)
    BY <1>1, Kinds, LeavesOf, Lists DEF UntilClause
  <1>5. Listed(Throw)
    BY Kinds, ItemsOf DEF Throw
  <1>6. \A g : Leaf(g) => Flats(CommaSeparated(g))
    <2> SUFFICES ASSUME NEW g, Leaf(g)
                 PROVE  Flats(CommaSeparated(g))
      OBVIOUS
    <2>1. Leaf(Expect(","))
      BY Kinds
    <2>2. Leaves(<<Expect(","), g>>)
      BY <2>1, LeavesOf
    <2>3. Flat(Loop({","}, <<Expect(","), g>>))
      BY <2>2, Kinds
    <2>4. Flat(g)
      BY Kinds
    <2>5. Flats(<<g, Loop({","}, <<Expect(","), g>>)>>)
      BY <2>3, <2>4, FlatsOf
    <2> QED BY <2>5 DEF CommaSeparated
  <1>7. Flats(ArgList)
    BY <1>1, <1>6 DEF ArgList
  <1>8. \A s : Flats(s) => Flats(InParens(s))
    <2> SUFFICES ASSUME NEW s, Flats(s)
                 PROVE  Flats(InParens(s))
      OBVIOUS
    <2>1. Flats(<<Expect("(")>>) /\ Flats(<<Expect(")")>>)
      BY Kinds, FlatsOf
    <2>2. Flats(<<Expect("(")>> \o s)
      BY <2>1, Joined
    <2>3. Flats((<<Expect("(")>> \o s) \o <<Expect(")")>>)
      BY <2>1, <2>2, Joined
    <2> QED BY <2>3, Zenon DEF InParens
  <1>9. \A i : Item(PostfixOps(i))
    <2> SUFFICES ASSUME NEW i
                 PROVE  Item(PostfixOps(i))
      OBVIOUS
    <2>1. "PostfixOp" \in Ordinary
      BY DEF Functions, Ordinary
    <2>2. Leaf(CallFrom("PostfixOp", i))
      BY <2>1, Kinds
    <2>3. Leaves(<<CallFrom("PostfixOp", i)>>)
      BY <2>2, LeavesOf
    <2>4. Flats(<<CallFrom("PostfixOp", i)>>)
      BY <2>3, Lists
    <2> QED BY <2>4, Kinds DEF PostfixOps
  <1> QED BY <1>1, <1>2, <1>3, <1>4, <1>5, <1>6, <1>7, <1>8, <1>9

(* A goal that can be nothing else.                                        *)
LEMMA Simple ==
    /\ \A f \in Ordinary : \A i : Item(CallFrom(f, i)) /\ Flat(CallFrom(f, i))
    /\ \A f \in Ordinary : Item(Call(f)) /\ Flat(Call(f))
    /\ \A ts : Item(ExpectAny(ts)) /\ Flat(ExpectAny(ts))
    /\ \A t : Item(Expect(t)) /\ Flat(Expect(t))
    /\ Item(Expr) /\ Flat(Expr) /\ Item(Stmt) /\ Flat(Stmt)
  BY Kinds, Shared, Zenon

(* Declarations.                                                           *)
LEMMA DeclarationBodies ==
    /\ Listed(ParseBlock) /\ Listed(ParseDeclarationGroup) /\ Listed(ParseTyped)
    /\ Listed(ParseVarDeclGroup) /\ Listed(ParseArrayName) /\ Listed(ParseDeclarator)
    /\ Listed(ParseDimension) /\ Listed(RequireIntLiteral) /\ Listed(ParseConstDecl)
    /\ Listed(ParseProcDecl) /\ (\A i : Listed(ParseProcRest(i)))
    /\ Listed(ParseParamDecl) /\ Listed(ParseParamMode) /\ Listed(ParseTypeSpec)
  <1>1. Listed(ParseBlock)
    <2>1. Flat(Call("DeclarationGroup"))
      BY Simple DEF Functions, Ordinary
    <2>2. /\ Flats(<<Call("DeclarationGroup"), SkipSemi>>)
          /\ Flats(<<Stmt, SkipSemi>>)
      BY <2>1, Simple, Shared, FlatsOf
    <2>3. /\ Item(Loop(DeclStart, <<Call("DeclarationGroup"), SkipSemi>>))
          /\ Item(Loop(StatementStart, <<Stmt, SkipSemi>>))
      BY <2>2, Kinds
    <2>4. Item(Node("Block"))
      BY Kinds DEF Clausal
    <2>5. Item(Expect("BEGIN")) /\ Item(Expect("END"))
      BY Simple
    <2> QED BY <2>3, <2>4, <2>5, ItemsOf DEF ParseBlock
  <1>2. Listed(ParseDeclarationGroup)
    <2>1. CASE Cur \in {"CONSTANT", "PROCEDURE"}
      <3>1. Item(Call(Cur))
        BY <2>1, Simple DEF Functions, Ordinary
      <3> QED BY <2>1, <3>1, ItemsOf DEF ParseDeclarationGroup
    <2>2. CASE Cur \notin {"CONSTANT", "PROCEDURE"}
      <3>1. Item(Call("TypeSpec")) /\ Item(Call("Typed"))
        BY Simple DEF Functions, Ordinary
      <3> QED BY <2>2, <3>1, ItemsOf DEF ParseDeclarationGroup
    <2> QED BY <2>1, <2>2
  <1>3. Listed(ParseTyped)
    <2>1. Item(Call("PROCEDURE")) /\ Item(Call("VarDeclGroup"))
      BY Simple DEF Functions, Ordinary
    <2>2. Listed(<<Call("PROCEDURE")>>) /\ Listed(<<Call("VarDeclGroup")>>)
      BY <2>1, ItemsOf
    <2>3. CASE Cur = "PROCEDURE"
      BY <2>2, <2>3, Zenon DEF ParseTyped
    <2>4. CASE Cur # "PROCEDURE"
      BY <2>2, <2>4, Zenon DEF ParseTyped
    <2> QED BY <2>3, <2>4
  <1>4. Listed(ParseVarDeclGroup)
    <2>1. Leaf(Call("ArrayName")) /\ Leaf(Call("Declarator")) /\ Leaf(Expect("n"))
      BY Kinds DEF Functions, Ordinary
    <2>2. Flats(<<Expect("ARRAY")>>)
      BY Simple, FlatsOf
    <2>3. Flats(CommaSeparated(Expect("n")) \o <<Expect("ARRAY")>>)
      BY <2>1, <2>2, Shared, Joined
    <2>4. Flats((CommaSeparated(Expect("n")) \o <<Expect("ARRAY")>>)
                \o CommaSeparated(Call("ArrayName")))
      BY <2>1, <2>3, Shared, Joined
    <2>5. Flats(CommaSeparated(Call("Declarator")))
      BY <2>1, Shared
    <2>6. Flats(ParseVarDeclGroup)
      BY <2>4, <2>5 DEF ParseVarDeclGroup
    <2> QED BY <2>6, Lists
  <1>5. Listed(ParseArrayName)
    <2>1. Item(Node("Var"))
      BY Kinds DEF Clausal
    <2> QED BY <2>1, Simple, ItemsOf DEF ParseArrayName
  <1>6. Listed(ParseDeclarator)
    <2>1. Leaf(Call("Dimension"))
      BY Kinds DEF Functions, Ordinary
    <2>2. Flats(CommaSeparated(Call("Dimension"))) /\ Flats(<<Expect(")")>>)
      BY <2>1, Simple, Shared, FlatsOf
    <2>3. Flats(CommaSeparated(Call("Dimension")) \o <<Expect(")")>>)
      BY <2>2, Joined
    <2>4. Item(Match("(", CommaSeparated(Call("Dimension")) \o <<Expect(")")>>))
      BY <2>3, Kinds
    <2>5. Item(Node("Var")) /\ Item(Expect("x"))
      BY Kinds DEF Clausal
    <2> QED BY <2>4, <2>5, ItemsOf DEF ParseDeclarator
  <1>7. Listed(ParseDimension)
    <2>1. Item(Call("IntLiteral"))
      BY Simple DEF Functions, Ordinary
    <2> QED BY <2>1, Simple, ItemsOf DEF ParseDimension
  <1>8. Listed(RequireIntLiteral)
    BY Shared DEF RequireIntLiteral
  <1>9. Listed(ParseConstDecl)
    <2>1. Item(Call("TypeSpec")) /\ Item(Call("Primary"))
      BY Simple DEF Functions, Ordinary
    <2>2. Item(Expect("CONSTANT")) /\ Item(Expect("x")) /\ Item(Expect("="))
      BY Simple
    <2>3. Item(Node("Const"))
      BY Kinds DEF Clausal
    <2> QED BY <2>1, <2>2, <2>3, ItemsOf DEF ParseConstDecl
  <1>10. Listed(ParseProcDecl)
    <2>1. Item(CallFrom("ProcRest", Pos))
      BY Simple DEF Functions, Ordinary
    <2> QED BY <2>1, Simple, ItemsOf DEF ParseProcDecl
  <1>11. \A i : Listed(ParseProcRest(i))
    <2>1. \A i : Item(NodeFrom("Proc", i))
      BY Kinds DEF Clausal
    <2>2. \A i : Listed(<<Expect("FORWARD"), Expect("x"), NodeFrom("Proc", i)>>)
      BY <2>1, Simple, ItemsOf
    <2>3. Flat(Call("Param")) /\ Leaf(Call("Param")) /\ Item(Call("BEGIN"))
      BY Simple, Kinds DEF Functions, Ordinary
    <2>4. \A ts : Leaves(<<ExpectAny(ts), Call("Param")>>)
      BY <2>3, Kinds, LeavesOf
    <2>5. \A ts : Flat(Loop(ts, <<ExpectAny(ts), Call("Param")>>))
      BY <2>4, Kinds
    <2>6. \A ts : Flats(<<Call("Param"), Loop(ts, <<ExpectAny(ts), Call("Param")>>),
                          Expect(")")>>)
      BY <2>3, <2>5, Simple, FlatsOf
    <2>7. \A ts : Item(Match("(", <<Call("Param"), Loop(ts, <<ExpectAny(ts), Call("Param")>>),
                                    Expect(")")>>))
      BY <2>6, Kinds
    <2>8. \A i, t, ts :
              Listed(<<Expect("x"),
                       Match("(", <<Call("Param"), Loop(ts, <<ExpectAny(ts), Call("Param")>>),
                                    Expect(")")>>),
                       Expect(t), Call("BEGIN"), NodeFrom("Proc", i)>>)
      BY <2>1, <2>3, <2>7, Simple, ItemsOf
    <2> QED BY <2>2, <2>8, Zenon DEF ParseProcRest
  <1>12. Listed(ParseParamDecl)
    <2>1. Item(Call("ParamMode")) /\ Item(Call("TypeSpec"))
      BY Simple DEF Functions, Ordinary
    <2> QED BY <2>1, Simple, ItemsOf DEF ParseParamDecl
  <1>13. Listed(ParseParamMode)
    <2>1. Item(Match("OUT", Nothing))
      BY Lists, Kinds DEF Nothing
    <2>2. /\ Listed(<<Expect("IN"), Match("OUT", Nothing)>>)
          /\ Listed(<<Expect("OUT")>>)
      BY <2>1, Simple, ItemsOf
    <2> QED BY <2>2, Shared DEF ParseParamMode
  <1>14. Listed(ParseTypeSpec)
    <2>1. Flats(<<Expect("n")>>)
      BY Simple, FlatsOf
    <2>2. Item(Match("*", <<Expect("n")>>))
      BY <2>1, Kinds
    <2>3. /\ Listed(<<ExpectAny(TypeKeyword), Match("*", <<Expect("n")>>)>>)
          /\ Listed(<<Expect(Cur)>>)
      BY <2>2, Simple, ItemsOf
    <2> QED BY <2>3 DEF ParseTypeSpec
  <1> QED BY <1>1, <1>2, <1>3, <1>4, <1>5, <1>6, <1>7, <1>8, <1>9, <1>10, <1>11, <1>12,
             <1>13, <1>14

(* Statements.                                                             *)
LEMMA StatementBodies ==
    /\ Listed(ParseStatement) /\ Listed(ParseIfStmt) /\ Listed(ParseWhileStmt)
    /\ Listed(ParseForStmt) /\ Listed(ParseDoStmt) /\ Listed(ParseDoBody)
    /\ Listed(ParseRepeatStmt) /\ Listed(ParseCaseStmt) /\ Listed(ParseCallStmt)
    /\ Listed(ParseReturnStmt) /\ Listed(ParseGotoStmt) /\ Listed(ParseAsmStmt)
    /\ Listed(ParsePrintStmt) /\ Listed(ParsePushStmt) /\ Listed(ParsePopStmt)
  <1>1. Listed(ParseStatement)
    <2>1. Item(Call("ExprStmt"))
      BY Simple DEF Functions, Ordinary
    <2>2. CASE Cur \in KeywordStart
      <3>1. Item(Call(Cur))
        BY <2>2, Simple DEF Functions, Ordinary, KeywordStart
      <3> QED BY <2>2, <3>1, ItemsOf DEF ParseStatement
    <2>3. CASE Cur \notin KeywordStart
      BY <2>1, <2>3, ItemsOf, Shared DEF ParseStatement
    <2> QED BY <2>2, <2>3
  <1>2. ASSUME NEW k \in Clausal
        PROVE  NodeGoal(Node(k)) /\ Node(k).at = 0 /\ Node(k).kind = k
    BY DEF NodeGoal, Node, NodeFrom
  <1>3. Listed(ParseIfStmt)
    <2>1. Flats(<<Stmt>>)
      BY Simple, FlatsOf
    <2>2. Item(Match("ELSE", <<Stmt>>))
      BY <2>1, Kinds
    <2>3. Offers(Match("ELSE", <<Stmt>>), Node("If"))
      BY <1>2 DEF Offers, Match, Clause, Clausal
    <2>4. NodeGoal(Node("If")) /\ Node("If").at = 0 /\ Node("If").kind \in Clausal
      BY <1>2 DEF Clausal
    <2> QED BY <2>2, <2>3, <2>4, Simple, ClauseLast6 DEF ParseIfStmt
  <1>4. /\ Item(UntilClause)
        /\ \A k \in {"While", "For", "Do"} :
              /\ Offers(UntilClause, Node(k)) /\ NodeGoal(Node(k))
              /\ Node(k).at = 0 /\ Node(k).kind \in Clausal
    BY <1>2, Shared DEF Offers, UntilClause, Match, Clause, Clausal
  <1>5. Listed(ParseWhileStmt)
    BY <1>4, Simple, ClauseLast6 DEF ParseWhileStmt
  <1>6. Listed(ParseForStmt)
    <2>1. Flats(<<Expr>>)
      BY Simple, FlatsOf
    <2>2. Item(Match("FROM", <<Expr>>)) /\ Item(Match("STEP", <<Expr>>))
      BY <2>1, Kinds
    <2>3. /\ Item(Expect("FOR")) /\ Item(Expect("x")) /\ Item(Expect("DO"))
          /\ Item(ExpectAny({"DOWNTO", "TO"})) /\ Item(Expr) /\ Item(Stmt)
      BY Simple
    <2>4. /\ Offers(UntilClause, Node("For")) /\ NodeGoal(Node("For"))
          /\ Node("For").at = 0 /\ Node("For").kind \in Clausal
      BY <1>4
    <2>5. \A g : Offers(UntilClause, g) /\ NodeGoal(g) /\ g.at = 0 /\ g.kind \in Clausal
                => Listed(<<Expect("FOR"), Expect("x"), Match("FROM", <<Expr>>),
                            Match("STEP", <<Expr>>), ExpectAny({"DOWNTO", "TO"}), Expr,
                            Expect("DO"), Stmt, UntilClause, g>>)
      BY <1>4, <2>2, <2>3, ClauseLast10, Zenon
    <2> QED BY <2>4, <2>5, Zenon DEF ParseForStmt
  <1>7. Listed(ParseDoStmt)
    <2>1. Item(Call("DoBody")) /\ Item(Expect("DO"))
      BY Simple DEF Functions, Ordinary
    <2> QED BY <1>4, <2>1, ClauseLast4 DEF ParseDoStmt
  <1>8. Listed(ParseDoBody)
    <2>1. Listed(<<Stmt>>) /\ \A t : Listed(<<Expect(t)>>)
      BY Simple, ItemsOf
    <2> QED BY <2>1, Shared, Zenon DEF ParseDoBody
  <1>9. Listed(ParseRepeatStmt)
    <2>1. Flats(<<Stmt, SkipSemi>>)
      BY Simple, Shared, FlatsOf
    <2>2. Item(Loop(Tokens \ {"UNTIL"}, <<Stmt, SkipSemi>>))
      BY <2>1, Kinds, Zenon
    <2>3. Item(Node("Repeat"))
      BY Kinds DEF Clausal
    <2> QED BY <2>2, <2>3, Simple, ItemsOf DEF ParseRepeatStmt
  <1>10. Listed(ParseCaseStmt)
    <2>1. Flats(<<Expect("n"), Expect(":"), Stmt, SkipSemi>>)
      BY Simple, Shared, FlatsOf
    <2>2. Item(Loop(Tokens \ {"END"}, <<Expect("n"), Expect(":"), Stmt, SkipSemi>>))
      BY <2>1, Kinds, Zenon
    <2>3. Item(Node("Case"))
      BY Kinds DEF Clausal
    <2>4. Item(Expect("CASE")) /\ Item(Expect("OF")) /\ Item(Expect("END"))
      BY Simple
    <2>5. \A l : Item(l) => Listed(<<Expect("CASE"), Expr, Expect("OF"), l, Expect("END"),
                                     Node("Case")>>)
      BY <2>3, <2>4, Simple, ItemsOf
    <2> QED BY <2>2, <2>5, Zenon DEF ParseCaseStmt
  <1>11. Listed(ParseCallStmt)
    <2>1. Flats(<<Expect(")")>>)
      BY Simple, FlatsOf
    <2>2. Flats(ArgList \o <<Expect(")")>>)
      BY <2>1, Shared, Joined
    <2>3. Item(Match("(", ArgList \o <<Expect(")")>>))
      BY <2>2, Kinds
    <2>4. Item(Node("CallStmt"))
      BY Kinds DEF Clausal
    <2> QED BY <2>3, <2>4, Simple, ItemsOf DEF ParseCallStmt
  <1>12. Listed(ParseReturnStmt)
    <2>1. Flats(<<Expr, Expect(")")>>)
      BY Simple, FlatsOf
    <2>2. Item(Match("(", <<Expr, Expect(")")>>))
      BY <2>1, Kinds
    <2>3. Item(Node("Return"))
      BY Kinds DEF Clausal
    <2> QED BY <2>2, <2>3, Simple, ItemsOf DEF ParseReturnStmt
  <1>13. Listed(ParseGotoStmt)
    <2>1. Item(Node("Goto"))
      BY Kinds DEF Clausal
    <2> QED BY <2>1, Simple, ItemsOf DEF ParseGotoStmt
  <1>14. ASSUME NEW s, Flats(s), NEW t, NEW g, Item(g)
         PROVE  Listed(<<Expect(t)>> \o InParens(s) \o <<g>>)
    <2>1. Listed(InParens(s))
      BY <1>14, Shared, Lists
    <2>2. Listed(<<Expect(t)>>) /\ Listed(<<g>>)
      BY <1>14, Simple, ItemsOf
    <2>3. Listed(<<Expect(t)>> \o InParens(s))
      BY <2>1, <2>2, Joined
    <2> QED BY <2>2, <2>3, Joined
  <1>15. Listed(ParseAsmStmt)
    <2>1. Flats(<<Expect("s")>>) /\ Item(Node("Asm"))
      BY Simple, Kinds, FlatsOf DEF Clausal
    <2> QED BY <1>14, <2>1, Zenon DEF ParseAsmStmt
  <1>16. Listed(ParsePrintStmt)
    <2>1. Leaves(<<Expect(","), Expr>>)
      BY Kinds, Shared, LeavesOf
    <2>2. Flat(Loop({","}, <<Expect(","), Expr>>))
      BY <2>1, Kinds
    <2>3. Flats(<<Expect("s"), Loop({","}, <<Expect(","), Expr>>)>>)
      BY <2>2, Simple, FlatsOf
    <2>4. Item(Node("Print"))
      BY Kinds DEF Clausal
    <2> QED BY <1>14, <2>3, <2>4, Zenon DEF ParsePrintStmt
  <1>17. Listed(ParsePushStmt)
    <2>1. Item(Node("Push"))
      BY Kinds DEF Clausal
    <2> QED BY <2>1, Simple, ItemsOf DEF ParsePushStmt
  <1>18. Listed(ParsePopStmt)
    <2>1. Item(Node("Pop")) /\ Item(Call("LValue"))
      BY Kinds, Simple DEF Clausal, Functions, Ordinary
    <2> QED BY <2>1, Simple, ItemsOf DEF ParsePopStmt
  <1> QED BY <1>1, <1>3, <1>5, <1>6, <1>7, <1>8, <1>9, <1>10, <1>11, <1>12, <1>13, <1>15,
             <1>16, <1>17, <1>18

(* A labelled statement, and an assignment, once the name or the value has *)
(* been read.                                                              *)
LEMMA Labelled ==
    \A i : /\ Listed(<<Expect(":"), Stmt, NodeFrom("Label", i)>>)
           /\ Listed(<<Expect("=>"), Call("LValue"), NodeFrom("Assign", i)>>)
  <1> TAKE i
  <1>1. Item(NodeFrom("Label", i)) /\ Item(NodeFrom("Assign", i))
    BY Kinds DEF Clausal
  <1>2. Item(Call("LValue")) /\ Item(Expect("=>")) /\ Item(Expect(":")) /\ Item(Stmt)
    BY Simple DEF Functions, Ordinary
  <1> QED BY <1>1, <1>2, ItemsOf

(* Expressions, and the statements that begin like one.                    *)
LEMMA ExpressionBodies ==
    /\ Started(ParseExprStmt) /\ (\A i : Started(ParseAfterName(i)))
    /\ (\A i : Started(ParseAssignment(i))) /\ Listed(ParseLValue) /\ Listed(ParseElement)
    /\ Started(ParseRelExpr) /\ Started(ParseAddExpr) /\ Started(ParseMulExpr)
    /\ Listed(ParseUnaryExpr) /\ (\A i : Listed(ParsePostfixOp(i)))
    /\ Listed(ParsePrimaryExpr) /\ (\A i : Listed(ParseApplied(i)))
    /\ Listed(ParseArguments)
  <1>1. Started(ParseExprStmt)
    <2>1. /\ Part(CallFrom("AfterName", Pos)) /\ Part(CallFrom("Assignment", Pos))
          /\ Part(Expect("x")) /\ Part(Expr)
      BY Simple, Kinds DEF Functions, Item
    <2>2. /\ Started(<<Expect("x"), CallFrom("AfterName", Pos)>>)
          /\ Started(<<Expr, CallFrom("Assignment", Pos)>>)
      BY <2>1, PartsOf
    <2> QED BY <2>2 DEF ParseExprStmt
  <1>2. ASSUME NEW i
        PROVE  Started(ParseAfterName(i))
    <2>1. /\ Part(CallFrom("Applied", i)) /\ Part(CallFrom("Assignment", i))
          /\ Part(Operators(MulOp, "Unary", i)) /\ Part(Operators(AddOp, "Mul", i))
          /\ Part(Operators(RelOp, "Add", i)) /\ Part(PostfixOps(i))
      BY Shared, Kinds DEF Functions, Item
    <2>2. Started(<<CallFrom("Applied", i), PostfixOps(i), Operators(MulOp, "Unary", i),
                    Operators(AddOp, "Mul", i), Operators(RelOp, "Add", i),
                    CallFrom("Assignment", i)>>)
      BY <2>1, PartsOf
    <2>3. Started(<<Expect(":"), Stmt, NodeFrom("Label", i)>>)
      BY Labelled DEF Listed
    <2> QED BY <2>2, <2>3 DEF ParseAfterName
  <1>3. ASSUME NEW i
        PROVE  Started(ParseAssignment(i))
    <2>1. Part(NodeFrom("Modify", i))
      BY Kinds DEF Clausal
    <2>2. Started(<<NodeFrom("Modify", i)>>)
      BY <2>1, PartsOf
    <2> QED BY <2>2, Labelled, Shared DEF ParseAssignment, Listed
  <1>4. Listed(ParseLValue)
    <2> DEFINE target == CASE Cur = "x"   -> Call("Element")
                           [] Cur = "IND" -> Call("Primary")
                           [] OTHER       -> ExpectAny(Registers)
    <2>1. Item(Call("Element")) /\ Item(Call("Primary")) /\ Item(ExpectAny(Registers))
      BY Simple DEF Functions, Ordinary
    <2>2. Item(target)
      BY <2>1
    <2>3. Flats(<<Expect("^")>>)
      BY Simple, FlatsOf
    <2>4. Item(Loop({"^"}, <<Expect("^")>>))
      BY <2>3, Kinds
    <2>5. ParseLValue = <<target, Loop({"^"}, <<Expect("^")>>)>>
      BY DEF ParseLValue
    <2> HIDE DEF target
    <2> QED BY <2>2, <2>4, <2>5, ItemsOf
  <1>5. Listed(ParseElement)
    <2>1. Flats(<<Expect(")")>>)
      BY Simple, FlatsOf
    <2>2. Flats(ArgList \o <<Expect(")")>>)
      BY <2>1, Shared, Joined
    <2>3. Item(Match("(", ArgList \o <<Expect(")")>>))
      BY <2>2, Kinds
    <2> QED BY <2>3, Simple, ItemsOf DEF ParseElement
  <1>6. Started(ParseRelExpr) /\ Started(ParseAddExpr) /\ Started(ParseMulExpr)
    <2>1. Part(Call("Add")) /\ Part(Call("Mul")) /\ Part(Call("Unary"))
      BY Simple DEF Functions, Ordinary, Item
    <2>2. /\ Part(Operators(RelOp, "Add", Pos)) /\ Part(Operators(AddOp, "Mul", Pos))
          /\ Part(Operators(MulOp, "Unary", Pos))
      BY Kinds DEF Functions, Ordinary
    <2> QED BY <2>1, <2>2, PartsOf DEF ParseRelExpr, ParseAddExpr, ParseMulExpr
  <1>7. Listed(ParseUnaryExpr)
    <2>1. Item(Call("Unary")) /\ Item(Call("Primary")) /\ Item(Node("Unary"))
      BY Simple, Kinds DEF Functions, Ordinary, Clausal
    <2>2. /\ Listed(<<Expect(Cur), Call("Unary"), Node("Unary")>>)
          /\ Listed(<<Call("Primary"), PostfixOps(Pos)>>)
      BY <2>1, Simple, Shared, ItemsOf
    <2> QED BY <2>2 DEF ParseUnaryExpr
  <1>8. ASSUME NEW i
        PROVE  Listed(ParsePostfixOp(i))
    <2>1. Item(NodeFrom("Deref", i)) /\ Item(NodeFrom("Index", i))
      BY Kinds DEF Clausal
    <2>2. Listed(<<Expect("^"), NodeFrom("Deref", i)>>) /\ Listed(<<NodeFrom("Index", i)>>)
      BY <2>1, Simple, ItemsOf
    <2>3. Listed(InParens(ArgList))
      BY Shared, Lists
    <2>4. Listed(InParens(ArgList) \o <<NodeFrom("Index", i)>>)
      BY <2>2, <2>3, Joined
    <2> QED BY <2>2, <2>4 DEF ParsePostfixOp
  <1>9. Listed(ParsePrimaryExpr)
    <2>1. Item(CallFrom("Applied", Pos)) /\ Item(Node("AddrOf")) /\ Item(Node("Deref"))
      BY Simple, Kinds DEF Functions, Ordinary, Clausal
    <2>2. Listed(<<Expect("x"), CallFrom("Applied", Pos)>>)
      BY <2>1, Simple, ItemsOf
    <2>3. Listed(InParens(<<Expr>>))
      BY Simple, FlatsOf, Shared, Lists
    <2>4. \A t : Listed(<<Expect(t)>> \o InParens(<<Expr>>))
      BY <2>3, Simple, ItemsOf, Joined
    <2>5. Listed(<<Node("AddrOf")>>) /\ Listed(<<Node("Deref")>>)
      BY <2>1, ItemsOf
    <2>6. \A t : /\ Listed((<<Expect(t)>> \o InParens(<<Expr>>)) \o <<Node("AddrOf")>>)
                 /\ Listed((<<Expect(t)>> \o InParens(<<Expr>>)) \o <<Node("Deref")>>)
      BY <2>4, <2>5, Joined
    <2>7. Cur \in Literals => Listed(<<Expect(Cur), Node(Cur)>>)
      <3>1. Cur \in Literals => Item(Node(Cur))
        BY Kinds DEF Clausal, Literals
      <3> QED BY <3>1, Simple, ItemsOf
    <2>8. Listed(<<Expect(Cur), Node("R")>>)
      <3>1. Item(Node("R"))
        BY Kinds DEF Clausal
      <3> QED BY <3>1, Simple, ItemsOf
    <2> QED BY <2>2, <2>3, <2>6, <2>7, <2>8, Shared DEF ParsePrimaryExpr
  <1>10. ASSUME NEW i
         PROVE  Listed(ParseApplied(i))
    <2>1. Item(NodeFrom("Call", i)) /\ Item(NodeFrom("x", i)) /\ Item(Call("Arguments"))
      BY Kinds, Simple DEF Clausal, Functions, Ordinary
    <2>2. /\ Listed(<<Expect("("), Call("Arguments"), Expect(")"), NodeFrom("Call", i)>>)
          /\ Listed(<<NodeFrom("x", i)>>)
      BY <2>1, Simple, ItemsOf
    <2> QED BY <2>2 DEF ParseApplied
  <1>11. Listed(ParseArguments)
    BY Shared, Lists DEF ParseArguments
  <1> QED BY <1>1, <1>2, <1>3, <1>4, <1>5, <1>6, <1>7, <1>8, <1>9, <1>10, <1>11

(* What a parse function adds.                                             *)
LEMMA BodyStarted ==
    ASSUME NEW f \in Functions, NEW i
    PROVE  /\ Started(Body(f, i))
           /\ f \notin {"ExprStmt", "AfterName", "Assignment", "Rel", "Add", "Mul"}
                => Neutrals(Body(f, i))
  BY DeclarationBodies, StatementBodies, ExpressionBodies DEF Body, Functions, Listed

-----------------------------------------------------------------------------
(***************************************************************************)
(* What is still to be done.                                               *)
(***************************************************************************)
Clauses == {"ELSE", "UNTIL"}

(* Only its first goal may be pending without the match of its clause      *)
(* before it.                                                              *)
Behind(s) == /\ Sequence(s)
             /\ \A i \in DOMAIN s : /\ Plain(s[i])
                                    /\ Pending(s[i]) => i = 1 \/ Offers(s[i - 1], s[i])
Goes(s) == s # <<>> /\ Pending(s[1])
Ends(s) == s # <<>> => s[Len(s)].do = "expect"

(* The clause of a node is at a token that is one, among the tokens w.     *)
Owned(s, w) == \A i \in DOMAIN s :
    s[i].do = "node" /\ s[i].kind # "Binary" /\ s[i].at # 0 =>
        s[i].at \in DOMAIN w /\ w[s[i].at] \in Clauses

(* A sequence without its first part.                                      *)
LEMMA BehindTail ==
    ASSUME NEW s, Behind(s), s # <<>>, Ends(s), NEW w, Owned(s, w)
    PROVE  /\ Behind(Tail(s)) /\ Ends(Tail(s)) /\ Owned(Tail(s), w)
           /\ Plain(s[1]) /\ Head(s) = s[1]
           /\ Goes(Tail(s)) => Offers(s[1], Tail(s)[1])
           /\ s[1].do # "expect" => Tail(s) # <<>>
  <1> DEFINE t == Tail(s)
  <1>1. Sequence(s)
    BY DEF Behind
  <1>2. PICK n \in Nat : n = Len(s) /\ DOMAIN s = 1..n /\ n # 0
    BY <1>1, SequenceLen
  <1>3. /\ Sequence(t) /\ Len(t) = Len(s) - 1 /\ Head(s) = s[1]
        /\ DOMAIN t = 1..Len(s) - 1
        /\ \A i \in DOMAIN t : i + 1 \in DOMAIN s /\ t[i] = s[i + 1]
    BY <1>1, SequenceTail
  <1>4. t = <<>> <=> Len(t) = 0
    BY <1>3, SequenceLen
  <1> HIDE DEF t
  <1>5. DOMAIN t = 1..n - 1 /\ Len(t) = n - 1
    BY <1>2, <1>3
  <1>6. ASSUME NEW i \in DOMAIN t
        PROVE  /\ Plain(t[i])
               /\ Pending(t[i]) => /\ i = 1 => Offers(s[1], t[1])
                                   /\ i = 1 \/ Offers(t[i - 1], t[i])
    <2>1. i \in 1..n - 1 /\ t[i] = s[i + 1] /\ i + 1 \in DOMAIN s
      BY <1>3, <1>5
    <2>2. Plain(t[i])
      BY <2>1 DEF Behind
    <2>3. ASSUME Pending(t[i])
          PROVE  Offers(s[i], t[i])
      <3>1. i + 1 = 1 \/ Offers(s[(i + 1) - 1], s[i + 1])
        BY <2>1, <2>3 DEF Behind
      <3>2. i + 1 # 1 /\ (i + 1) - 1 = i
        BY <2>1
      <3> QED BY <2>1, <3>1, <3>2
    <2>4. ASSUME i # 1
          PROVE  t[i - 1] = s[i]
      <3>1. i - 1 \in DOMAIN t /\ (i - 1) + 1 = i
        BY <1>5, <2>1, <2>4
      <3> QED BY <1>3, <3>1
    <2> QED BY <2>2, <2>3, <2>4
  <1>7. Behind(t)
    BY <1>3, <1>6 DEF Behind
  <1>8. Goes(t) => Offers(s[1], t[1])
    <2>1. t # <<>> => 1 \in DOMAIN t
      BY <1>2, <1>4, <1>5
    <2> QED BY <1>6, <2>1 DEF Goes
  <1>9. t # <<>> => t[Len(t)] = s[Len(s)]
    <2> SUFFICES ASSUME t # <<>>
                 PROVE  t[Len(t)] = s[Len(s)]
      OBVIOUS
    <2>1. n - 1 \in DOMAIN t /\ (n - 1) + 1 = n
      BY <1>2, <1>4, <1>5
    <2> QED BY <1>2, <1>3, <1>5, <2>1
  <1>10. Ends(t)
    BY <1>9 DEF Ends
  <1>11. Owned(t, w)
    BY <1>3 DEF Owned
  <1>12. s[1].do # "expect" => t # <<>>
    <2> SUFFICES ASSUME t = <<>>
                 PROVE  s[1].do = "expect"
      OBVIOUS
    <2>1. n = 1
      BY <1>2, <1>4, <1>5
    <2> QED BY <1>2, <2>1 DEF Ends
  <1>13. Plain(s[1])
    BY <1>2 DEF Behind
  <1> QED BY <1>3, <1>7, <1>8, <1>10, <1>11, <1>12, <1>13 DEF t

LEMMA BehindSub ==
    ASSUME NEW s, Behind(s), Ends(s), NEW w, Owned(s, w), NEW m \in 1..Len(s)
    PROVE  LET t == SubSeq(s, m, Len(s))
           IN  /\ Behind(t) /\ Ends(t) /\ Owned(t, w) /\ t # <<>> /\ t[1] = s[m]
  <1> DEFINE t == SubSeq(s, m, Len(s))
  <1>1. PICK S : s \in Seq(S)
    BY DEF Behind, Sequence
  <1>2. PICK n \in Nat : n = Len(s) /\ DOMAIN s = 1..n
    BY <1>1
  <1>3. /\ t \in Seq(S) /\ Len(t) = n - m + 1
        /\ \A i \in 1..n - m + 1 : t[i] = s[m + i - 1]
    BY <1>1, <1>2, SubSeqProperties
  <1> HIDE DEF t
  <1>4. m \in 1..n
    BY <1>2
  <1>5. Sequence(t) /\ DOMAIN t = 1..n - m + 1 /\ t # <<>>
    <2>1. t # <<>>
      BY <1>3, <1>4
    <2> QED BY <1>3, <2>1 DEF Sequence
  <1>6. ASSUME NEW i \in 1..n - m + 1
        PROVE  m + i - 1 \in DOMAIN s /\ t[i] = s[m + i - 1]
    BY <1>2, <1>3, <1>4
  <1>7. t[1] = s[m]
    <2>1. 1 \in 1..n - m + 1 /\ m + 1 - 1 = m
      BY <1>4
    <2> QED BY <1>6, <2>1
  <1>8. ASSUME NEW i \in DOMAIN t
        PROVE  /\ Plain(t[i])
               /\ Pending(t[i]) => i = 1 \/ Offers(t[i - 1], t[i])
    <2>1. m + i - 1 \in DOMAIN s /\ t[i] = s[m + i - 1]
      BY <1>5, <1>6
    <2>2. ASSUME Pending(t[i]), i # 1
          PROVE  Offers(t[i - 1], t[i])
      <3>1. i - 1 \in 1..n - m + 1 /\ m + (i - 1) - 1 = (m + i - 1) - 1
            /\ m + i - 1 # 1
        BY <1>4, <1>5, <2>2
      <3>2. t[i - 1] = s[m + (i - 1) - 1]
        BY <1>6, <3>1
      <3>3. m + i - 1 = 1 \/ Offers(s[(m + i - 1) - 1], s[m + i - 1])
        BY <2>1, <2>2 DEF Behind
      <3> QED BY <2>1, <3>1, <3>2, <3>3
    <2>3. Plain(t[i])
      BY <2>1 DEF Behind
    <2> QED BY <2>2, <2>3
  <1>9. Behind(t)
    BY <1>5, <1>8 DEF Behind
  <1>10. Ends(t)
    <2>1. n - m + 1 \in 1..n - m + 1 /\ m + (n - m + 1) - 1 = n
      BY <1>4
    <2>2. t[n - m + 1] = s[n]
      BY <1>6, <2>1
    <2>3. s # <<>>
      BY <1>1, <1>2, <1>4
    <2> QED BY <1>2, <1>3, <2>2, <2>3 DEF Ends
  <1>11. Owned(t, w)
    BY <1>5, <1>6 DEF Owned
  <1> QED BY <1>5, <1>7, <1>9, <1>10, <1>11 DEF t

(* Two sequences.                                                          *)
LEMMA JoinedEnds ==
    ASSUME NEW b, Sequence(b), NEW t, Sequence(t), Ends(t), t # <<>>,
           NEW w, Owned(b, w), Owned(t, w)
    PROVE  Ends(b \o t) /\ Owned(b \o t, w)
  <1> DEFINE u == b \o t
  <1>1. /\ Sequence(u) /\ Len(u) = Len(b) + Len(t)
        /\ \A i \in DOMAIN t : Len(b) + i \in DOMAIN u /\ u[Len(b) + i] = t[i]
        /\ \A i \in DOMAIN u : \/ i \in DOMAIN b /\ u[i] = b[i]
                               \/ i - Len(b) \in DOMAIN t /\ u[i] = t[i - Len(b)]
    BY SequenceConcat
  <1>2. Len(t) \in DOMAIN t
    BY SequenceLen
  <1> HIDE DEF u
  <1>3. u[Len(u)] = t[Len(t)]
    BY <1>1, <1>2
  <1>4. Ends(u)
    BY <1>3 DEF Ends
  <1>5. Owned(u, w)
    BY <1>1 DEF Owned
  <1> QED BY <1>4, <1>5 DEF u

LEMMA JoinedGoals ==
    ASSUME NEW b, Goals(b), NEW t, Goals(t)
    PROVE  Goals(b \o t)
  <1> DEFINE u == b \o t
  <1>1. Sequence(b) /\ Sequence(t)
    BY DEF Goals
  <1>2. Sequence(u)
    BY <1>1, SequenceConcat
  <1>3. \A i \in DOMAIN b : i \in DOMAIN u /\ u[i] = b[i]
    BY <1>1, SequenceConcat
  <1>4. \A i \in DOMAIN t : Len(b) + i \in DOMAIN u /\ u[Len(b) + i] = t[i]
    BY <1>1, SequenceConcat
  <1>5. \A i \in DOMAIN u : \/ i \in DOMAIN b /\ u[i] = b[i]
                            \/ i - Len(b) \in DOMAIN t /\ u[i] = t[i - Len(b)]
    BY <1>1, SequenceConcat
  <1>6. PICK m \in Nat : m = Len(b) /\ DOMAIN b = 1..m
    BY <1>1, SequenceLen
  <1>7. PICK n \in Nat : DOMAIN t = 1..n
    BY <1>1, SequenceLen
  <1>8. PICK k \in Nat : DOMAIN u = 1..k
    BY <1>2, SequenceLen
  <1> HIDE DEF u
  <1>9. ASSUME NEW i \in DOMAIN u
        PROVE  Plain(u[i]) /\ (Pending(u[i]) => i > 1 /\ Offers(u[i - 1], u[i]))
    <2>1. CASE i \in DOMAIN b /\ u[i] = b[i]
      <3>1. ASSUME Pending(u[i])
            PROVE  i > 1 /\ Offers(u[i - 1], u[i])
        <4>1. i > 1 /\ Offers(b[i - 1], b[i])
          BY <2>1, <3>1 DEF Goals
        <4>2. i - 1 \in DOMAIN b
          BY <1>6, <2>1, <4>1
        <4>3. u[i - 1] = b[i - 1]
          BY <1>3, <4>2
        <4> QED BY <2>1, <4>1, <4>3
      <3>2. Plain(u[i])
        BY <2>1 DEF Goals
      <3> QED BY <3>1, <3>2
    <2>2. CASE i - Len(b) \in DOMAIN t /\ u[i] = t[i - Len(b)]
      <3>1. PICK j \in 1..n : j = i - m
        BY <1>6, <1>7, <2>2
      <3>2. u[i] = t[j] /\ j \in DOMAIN t
        BY <1>6, <1>7, <2>2, <3>1
      <3>3. ASSUME Pending(u[i])
            PROVE  i > 1 /\ Offers(u[i - 1], u[i])
        <4>1. j > 1 /\ Offers(t[j - 1], t[j])
          BY <3>2, <3>3 DEF Goals
        <4>2. j - 1 \in DOMAIN t
          BY <1>7, <4>1
        <4>3. u[m + (j - 1)] = t[j - 1]
          BY <1>4, <1>6, <4>2
        <4>4. i - 1 = m + (j - 1) /\ i > 1
          BY <1>8, <3>1, <4>1
        <4> QED BY <3>2, <4>1, <4>3, <4>4
      <3>4. Plain(u[i])
        BY <3>2 DEF Goals
      <3> QED BY <3>3, <3>4
    <2> QED BY <1>5, <2>1, <2>2
  <1>10. Goals(u)
    BY <1>2, <1>9 DEF Goals
  <1> QED BY <1>10 DEF u

(* Before the token of a clause is given to the first node: what is        *)
(* pending, other than that node, has its match before it.                 *)
Nearly(q) ==
    /\ Sequence(q)
    /\ \A i \in DOMAIN q :
          /\ Plain(q[i])
          /\ Pending(q[i]) => \/ i > 1 /\ Offers(q[i - 1], q[i])
                              \/ \A j \in DOMAIN q : j < i => q[j].do # "node"

LEMMA JoinedNearly ==
    ASSUME NEW b, Flats(b), NEW t, Behind(t)
    PROVE  Nearly(b \o t)
  <1> DEFINE u == b \o t
  <1>1. Sequence(b) /\ Sequence(t)
    BY DEF Flats, Behind
  <1>2. Sequence(u)
    BY <1>1, SequenceConcat
  <1>3. \A i \in DOMAIN b : i \in DOMAIN u /\ u[i] = b[i]
    BY <1>1, SequenceConcat
  <1>4. \A i \in DOMAIN t : Len(b) + i \in DOMAIN u /\ u[Len(b) + i] = t[i]
    BY <1>1, SequenceConcat
  <1>5. \A i \in DOMAIN u : \/ i \in DOMAIN b /\ u[i] = b[i]
                            \/ i - Len(b) \in DOMAIN t /\ u[i] = t[i - Len(b)]
    BY <1>1, SequenceConcat
  <1>6. PICK m \in Nat : m = Len(b) /\ DOMAIN b = 1..m
    BY <1>1, SequenceLen
  <1>7. PICK n \in Nat : DOMAIN t = 1..n
    BY <1>1, SequenceLen
  <1>8. PICK k \in Nat : DOMAIN u = 1..k
    BY <1>2, SequenceLen
  <1> HIDE DEF u
  <1>9. \A i \in DOMAIN b : Plain(b[i]) /\ b[i].do # "node"
    <2> TAKE i \in DOMAIN b
    <2>1. Flat(b[i])
      BY DEF Flats
    <2>2. b[i].do # "node"
      BY <2>1 DEF Flat, Leaf
    <2>3. Goals(b)
      BY Lists DEF Listed, Started
    <2> QED BY <2>2, <2>3 DEF Goals
  <1>10. ASSUME NEW i \in DOMAIN u
         PROVE  /\ Plain(u[i])
                /\ Pending(u[i]) => \/ i > 1 /\ Offers(u[i - 1], u[i])
                                    \/ \A j \in DOMAIN u : j < i => u[j].do # "node"
    <2>1. CASE i \in DOMAIN b /\ u[i] = b[i]
      BY <1>9, <2>1 DEF Pending
    <2>2. CASE i - Len(b) \in DOMAIN t /\ u[i] = t[i - Len(b)]
      <3>1. PICK j \in 1..n : j = i - m
        BY <1>6, <1>7, <2>2
      <3>2. u[i] = t[j] /\ j \in DOMAIN t
        BY <1>6, <1>7, <2>2, <3>1
      <3>3. CASE j = 1
        <4>1. \A h \in DOMAIN u : h < i => h \in DOMAIN b
          BY <1>6, <1>8, <3>1, <3>3
        <4>2. \A h \in DOMAIN u : h < i => u[h].do # "node"
          BY <1>3, <1>9, <4>1
        <4> QED BY <3>2, <4>2 DEF Behind
      <3>4. CASE j # 1 /\ Pending(u[i])
        <4>1. Offers(t[j - 1], t[j])
          BY <3>2, <3>4 DEF Behind
        <4>2. j - 1 \in DOMAIN t
          BY <1>7, <3>1, <3>4
        <4>3. u[m + (j - 1)] = t[j - 1]
          BY <1>4, <1>6, <4>2
        <4>4. i - 1 = m + (j - 1) /\ i > 1
          BY <1>8, <3>1, <3>4
        <4>5. Offers(u[i - 1], u[i]) /\ i > 1
          BY <3>2, <4>1, <4>3, <4>4
        <4>6. Plain(u[i])
          BY <3>2 DEF Behind
        <4> QED BY <4>5, <4>6
      <3>5. CASE ~Pending(u[i])
        BY <3>2, <3>5 DEF Behind
      <3> QED BY <3>3, <3>4, <3>5
    <2> QED BY <1>5, <2>1, <2>2
  <1>11. Nearly(u)
    BY <1>2, <1>10 DEF Nearly
  <1> QED BY <1>11 DEF u

(* A set of numbers that are not negative has a smallest member.           *)
LEMMA MinProperties ==
    ASSUME NEW S \in SUBSET Nat, S # {}
    PROVE  Min(S) \in S /\ \A x \in S : Min(S) <= x
  <1> DEFINE R == {p \in Nat \X Nat : p[1] < p[2]}
  <1>1. IsWellFoundedOn(R, Nat)
    BY NatLessThanWellFounded DEF OpToRel
  <1>2. S \subseteq Nat
    OBVIOUS
  <1>3. \A x, y \in Nat : y < x => <<y, x>> \in R
    OBVIOUS
  <1> HIDE DEF R
  <1>4. PICK x \in S : \A y \in S : ~(<<y, x>> \in R)
    BY <1>1, <1>2, WFMin
  <1>5. \A y \in S : x <= y
    <2> TAKE y \in S
    <2>1. x \in Nat /\ y \in Nat /\ ~(y < x)
      BY <1>3, <1>4
    <2> QED BY <2>1
  <1> QED BY <1>4, <1>5 DEF Min

(* Given to the first node, a clause is given to the pending one that has  *)
(* no match of its clause before it any more.                              *)
LEMMA OwningClause ==
    ASSUME NEW q, Nearly(q), Ends(q), Owned(q, toks),
           Sequence(toks), toks # <<>>, Cur \in Clauses
    PROVE  /\ Goals(Owning(q)) /\ Ends(Owning(q)) /\ Owned(Owning(q), toks)
           /\ Neutrals(q) => Neutrals(Owning(q))
  <1> DEFINE owners == {i \in DOMAIN q : q[i].do = "node"}
             r      == Owning(q)
  <1>1. PICK o : o = Min(owners)
    OBVIOUS
  <1>2. r = [q EXCEPT ![o].at = Pos]
    BY <1>1 DEF Owning, Clauses
  <1>3. PICK S : q \in Seq(S)
    BY DEF Nearly, Sequence
  <1>4. PICK n \in Nat : n = Len(q) /\ DOMAIN q = 1..n
    BY <1>3
  <1>5. Pos \in Nat /\ Pos # 0 /\ Pos \in DOMAIN toks
    BY SequenceLen DEF Pos
  <1>6. ASSUME owners # {}
        PROVE  o \in owners /\ \A i \in owners : o <= i
    <2>1. owners \in SUBSET Nat
      BY <1>4
    <2> HIDE DEF owners
    <2> QED BY <1>1, <1>6, <2>1, MinProperties
  <1> HIDE DEF r
  <1>7. DOMAIN r = 1..n /\ \A i \in DOMAIN q :
            r[i] = IF i = o THEN [q[i] EXCEPT !.at = Pos] ELSE q[i]
    BY <1>2, <1>3, <1>4
  <1>8. ASSUME NEW i \in DOMAIN q
        PROVE  IF i = o /\ q[i].do = "node"
               THEN r[i] = [q[i] EXCEPT !.at = Pos] ELSE r[i] = q[i]
    <2>1. CASE i = o /\ q[i].do # "node"
      <3>1. Plain(q[i])
        BY DEF Nearly
      <3>2. Unowned(q[i])
        BY <2>1, <3>1 DEF Plain, Neutral, Leaf, NodeGoal
      <3> QED BY <1>7, <2>1, <3>2 DEF Unowned
    <2>2. CASE ~(i = o /\ q[i].do # "node")
      BY <1>7, <2>2
    <2> QED BY <2>1, <2>2
  <1>9. ASSUME NEW i \in DOMAIN q, i = o, q[i].do = "node"
        PROVE  /\ r[i].do = "node" /\ r[i].at = Pos /\ r[i].kind = q[i].kind
               /\ NodeGoal(r[i])
    <2>1. Plain(q[i])
      BY DEF Nearly
    <2>2. NodeGoal(q[i])
      BY <1>9, <2>1 DEF Plain, Neutral, Leaf
    <2>3. PICK k, f, l : \E a \in Nat :
              q[i] = [do |-> "node", kind |-> k, from |-> f, at |-> a, left |-> l]
      BY <2>2 DEF NodeGoal
    <2>4. r[i] = [do |-> "node", kind |-> k, from |-> f, at |-> Pos, left |-> l]
          /\ q[i].kind = k
      BY <1>8, <1>9, <2>3
    <2>5. NodeGoal(r[i])
      BY <1>5, <2>4, Zenon DEF NodeGoal
    <2>6. r[i].do = "node" /\ r[i].at = Pos /\ r[i].kind = k
      BY <2>4
    <2> QED BY <2>4, <2>5, <2>6
  <1>10. Sequence(r) /\ Len(r) = n
    <2>1. PICK T : T = {r[i] : i \in 1..n}
      OBVIOUS
    <2>2. r = [i \in 1..n |-> r[i]]
      BY <1>2, <1>3, <1>4, <1>7
    <2>3. \A i \in 1..n : r[i] \in T
      BY <2>1
    <2>4. r \in [1..n -> T]
      BY <2>2, <2>3
    <2>5. r \in Seq(T) /\ Len(r) = n
      BY <2>4
    <2> QED BY <2>5 DEF Sequence
  <1>11. ASSUME NEW i \in DOMAIN r
         PROVE  Plain(r[i]) /\ (Pending(r[i]) => i > 1 /\ Offers(r[i - 1], r[i]))
    <2>0. i \in DOMAIN q /\ i \in 1..n
      BY <1>4, <1>7
    <2>1. CASE i = o /\ q[i].do = "node"
      BY <1>5, <1>9, <2>0, <2>1 DEF Plain, Pending
    <2>2. CASE ~(i = o /\ q[i].do = "node")
      <3>1. r[i] = q[i] /\ Plain(q[i])
        BY <1>8, <2>0, <2>2 DEF Nearly
      <3>2. ASSUME Pending(r[i])
            PROVE  i > 1 /\ Offers(r[i - 1], r[i])
        <4>1. i \in owners
          BY <2>0, <3>1, <3>2 DEF Pending
        <4>2. o \in owners /\ o <= i /\ o # i
          BY <1>6, <2>2, <4>1
        <4>3. o \in DOMAIN q /\ q[o].do = "node" /\ o < i
          BY <1>4, <2>0, <4>2
        <4>4. i > 1 /\ Offers(q[i - 1], q[i])
          BY <2>0, <3>1, <3>2, <4>3 DEF Nearly
        <4>5. i - 1 \in DOMAIN q /\ q[i - 1].do # "node"
          BY <1>4, <2>0, <4>4 DEF Offers
        <4>6. r[i - 1] = q[i - 1]
          BY <1>8, <4>5
        <4> QED BY <3>1, <4>4, <4>6
      <3> QED BY <3>1, <3>2
    <2> QED BY <2>1, <2>2
  <1>12. Goals(r)
    BY <1>10, <1>11 DEF Goals
  <1>13. Ends(r)
    <2> SUFFICES ASSUME r # <<>>
                 PROVE  r[n].do = "expect"
      BY <1>10 DEF Ends
    <2>1. n \in DOMAIN q
      BY <1>4, <1>10, SequenceLen
    <2>2. q[n].do = "expect"
      BY <1>3, <1>4, <2>1 DEF Ends
    <2> QED BY <1>8, <2>1, <2>2
  <1>14. Owned(r, toks)
    <2> SUFFICES ASSUME NEW i \in DOMAIN r, r[i].do = "node", r[i].kind # "Binary",
                        r[i].at # 0
                 PROVE  r[i].at \in DOMAIN toks /\ toks[r[i].at] \in Clauses
      BY DEF Owned
    <2>0. i \in DOMAIN q
      BY <1>4, <1>7
    <2>1. CASE i = o /\ q[i].do = "node"
      BY <1>5, <1>9, <2>0, <2>1 DEF Cur
    <2>2. CASE ~(i = o /\ q[i].do = "node")
      BY <1>8, <2>0, <2>2 DEF Owned
    <2> QED BY <2>1, <2>2
  <1>15. ASSUME Neutrals(q)
         PROVE  Neutrals(r)
    <2> SUFFICES ASSUME NEW i \in DOMAIN r
                 PROVE  Neutral(r[i])
      BY DEF Neutrals
    <2>1. i \in DOMAIN q
      BY <1>4, <1>7
    <2>2. Neutral(q[i])
      BY <1>15, <2>1 DEF Neutrals
    <2>3. CASE i = o /\ q[i].do = "node"
      <3>1. q[i].kind \notin {"Binary", "Modify"}
        BY <2>2, <2>3 DEF Neutral, Leaf
      <3> QED BY <1>9, <2>1, <2>3, <3>1 DEF Neutral
    <2>4. CASE ~(i = o /\ q[i].do = "node")
      BY <1>8, <2>1, <2>2, <2>4
    <2> QED BY <2>3, <2>4
  <1> QED BY <1>12, <1>13, <1>14, <1>15 DEF r

-----------------------------------------------------------------------------
(***************************************************************************)
(* The invariant.                                                          *)
(***************************************************************************)
Read(w) == Sequence(w) /\ w # <<>>

(* What is to be done next is no node that could still have the current    *)
(* token for its clause.                                                   *)
Ready(s, w) == /\ Behind(s) /\ Ends(s) /\ Owned(s, w)
               /\ Goes(s) => w[Len(w)] # Clause(s[1].kind)

(* A node that could have a clause and has none ends before another token. *)
MadeWell(n, w) ==
    /\ n.to + 1 \in DOMAIN w
    /\ n.kind # "Binary" /\ n.at # 0 => n.at \in DOMAIN w /\ w[n.at] \in Clauses
    /\ n.kind \in Clausal /\ n.at = 0 => w[n.to + 1] # Clause(n.kind)
AllMadeWell(m, w) == Sequence(m) /\ \A i \in DOMAIN m : MadeWell(m[i], w)

ClauseInv == Read(toks) /\ Ready(todo, toks) /\ AllMadeWell(made, toks)

(* More tokens.                                                            *)
Grown(w, v) == Read(v) /\ \A i \in DOMAIN w : i \in DOMAIN v /\ v[i] = w[i]

LEMMA StillTrue ==
    ASSUME NEW w, NEW v, Grown(w, v)
    PROVE  /\ \A s : Owned(s, w) => Owned(s, v)
           /\ \A m : AllMadeWell(m, w) => AllMadeWell(m, v)
  BY DEF Grown, Owned, AllMadeWell, MadeWell

LEMMA Settled ==
    ASSUME NEW s, Goals(s), Ends(s), NEW w, Owned(s, w), NEW v, Grown(w, v)
    PROVE  Ready(s, v)
  <1>1. Behind(s)
    BY DEF Goals, Behind
  <1>2. ~Goes(s)
    <2> SUFFICES ASSUME s # <<>>, Pending(s[1])
                 PROVE  FALSE
      BY DEF Goes
    <2>1. 1 \in DOMAIN s
      BY SequenceLen DEF Goals
    <2> QED BY <2>1 DEF Goals
  <1> QED BY <1>1, <1>2, StillTrue DEF Ready

LEMMA AdvanceGrows ==
    ASSUME Read(toks), Advance
    PROVE  Grown(toks, toks')
  <1>1. toks' = toks \/ \E t : toks' = Append(toks, t)
    BY Zenon DEF Advance
  <1>2. CASE toks' = toks
    BY <1>2 DEF Grown
  <1>3. ASSUME NEW t, toks' = Append(toks, t)
        PROVE  Grown(toks, toks')
    <2>1. PICK S : toks \in Seq(S)
      BY DEF Read, Sequence
    <2>2. PICK T : T = S \cup {t}
      OBVIOUS
    <2>3. toks \in Seq(T) /\ t \in T
      BY <2>1, <2>2
    <2>4. /\ toks' \in Seq(T) /\ toks' # <<>>
          /\ \A i \in DOMAIN toks : i \in DOMAIN toks' /\ toks'[i] = toks[i]
      BY <1>3, <2>3
    <2> QED BY <2>4 DEF Grown, Read, Sequence
  <1> QED BY <1>1, <1>2, <1>3

(* Behind a goal that is no match, what is to be done is settled.          *)
LEMMA GoalsTail ==
    ASSUME NEW s, Behind(s), s # <<>>, Ends(s), s[1].do # "match"
    PROVE  Goals(Tail(s))
  <1> DEFINE t == Tail(s)
  <1>2. Sequence(s)
    BY DEF Behind
  <1>3. PICK n \in Nat : n = Len(s) /\ DOMAIN s = 1..n
    BY <1>2, SequenceLen
  <1>4. /\ Sequence(t) /\ DOMAIN t = 1..n - 1
        /\ \A i \in DOMAIN t : i + 1 \in DOMAIN s /\ t[i] = s[i + 1]
    BY <1>2, <1>3, SequenceTail
  <1> HIDE DEF t
  <1>5. ASSUME NEW i \in DOMAIN t
        PROVE  Plain(t[i]) /\ (Pending(t[i]) => i > 1 /\ Offers(t[i - 1], t[i]))
    <2>1. i \in 1..n - 1 /\ t[i] = s[i + 1] /\ i + 1 \in DOMAIN s
      BY <1>4
    <2>2. Plain(t[i])
      BY <2>1 DEF Behind
    <2>3. ASSUME Pending(t[i])
          PROVE  i > 1 /\ Offers(t[i - 1], t[i])
      <3>1. i + 1 = 1 \/ Offers(s[(i + 1) - 1], s[i + 1])
        BY <2>1, <2>3 DEF Behind
      <3>2. i + 1 # 1 /\ (i + 1) - 1 = i
        BY <2>1
      <3>3. Offers(s[i], t[i])
        BY <2>1, <3>1, <3>2
      <3>4. i # 1
        BY <3>3 DEF Offers
      <3>5. i - 1 \in DOMAIN t /\ (i - 1) + 1 = i /\ i > 1
        BY <1>4, <2>1, <3>4
      <3>6. t[i - 1] = s[i]
        BY <1>4, <3>5
      <3> QED BY <3>3, <3>5, <3>6
    <2> QED BY <2>2, <2>3
  <1>6. Goals(t)
    BY <1>4, <1>5 DEF Goals
  <1> QED BY <1>6 DEF t

(* What the current goal is.                                               *)
LEMMA Current ==
    ASSUME NEW s, Behind(s), s # <<>>
    PROVE  /\ Head(s) = s[1]
           /\ s[1].do = "call" => s[1].fn \in Functions
           /\ s[1].do \in {"match", "loop"} => Flats(s[1].body)
           /\ s[1].do = "operators" => s[1].fn \in Functions
           /\ s[1].do = "node" => NodeGoal(s[1])
           /\ s[1].do # "node" => Goals(s)
  <1>1. Sequence(s)
    BY DEF Behind
  <1>2. Head(s) = s[1] /\ 1 \in DOMAIN s /\ \A i \in DOMAIN s : i = 1 \/ i > 1
    BY <1>1, SequenceTail, SequenceLen
  <1>3. Plain(s[1])
    BY <1>2 DEF Behind
  <1>4. s[1].do # "node" => Goals(s)
    BY <1>1, <1>2 DEF Behind, Goals, Pending
  <1>5. \A g : NodeGoal(g) => g.do = "node"
    BY DEF NodeGoal
  <1> QED BY <1>2, <1>3, <1>4, <1>5 DEF Plain, Neutral, Leaf, Ordinary

LEMMA UnclaimedOwned ==
    ASSUME NEW s, Unclaimed(s), NEW w
    PROVE  Owned(s, w)
  BY DEF Unclaimed, Owned

(* The first goal may also be the next node: put in front of what is       *)
(* settled, what a parse function does is settled.                         *)
LEMMA PutBefore ==
    ASSUME NEW b, Goals(b), NEW t, Goals(t), Ends(t), t # <<>>,
           NEW w, Owned(b, w), Owned(t, w)
    PROVE  Goals(b \o t) /\ Ends(b \o t) /\ Owned(b \o t, w)
  <1>1. Sequence(b) /\ Sequence(t)
    BY DEF Goals
  <1> QED BY <1>1, JoinedGoals, JoinedEnds

LEMMA InitClauseInv == Init => ClauseInv
  <1> SUFFICES ASSUME Init
               PROVE  ClauseInv
    OBVIOUS
  <1>1. Read(toks)
    <2>1. PICK t : toks = <<t>>
      BY DEF Init
    <2>2. Sequence(<<t>>) /\ <<t>> # <<>>
      BY Tuple1
    <2> QED BY <2>1, <2>2 DEF Read
  <1>2. Ready(todo, toks)
    <2>1. Item(Call("BEGIN")) /\ Item(Expect("EOF")) /\ Expect("EOF").do = "expect"
      BY Simple DEF Functions, Ordinary, Expect, ExpectAny
    <2>2. Listed(<<Call("BEGIN"), Expect("EOF")>>)
      BY <2>1, ItemsOf
    <2>3. Ends(<<Call("BEGIN"), Expect("EOF")>>)
      BY <2>1 DEF Ends
    <2>4. todo = <<Call("BEGIN"), Expect("EOF")>>
      BY DEF Init
    <2>5. Goals(todo) /\ Ends(todo) /\ Owned(todo, toks)
      BY <2>2, <2>3, <2>4, UnclaimedOwned DEF Listed, Started
    <2>6. Grown(toks, toks)
      BY <1>1 DEF Grown
    <2> QED BY <2>5, <2>6, Settled
  <1>3. AllMadeWell(made, toks)
    <2>1. made = <<>>
      BY DEF Init
    <2> QED BY <2>1, Lists DEF AllMadeWell, Listed, Started, Goals
  <1> QED BY <1>1, <1>2, <1>3 DEF ClauseInv

(* The node of an operation.                                               *)
LEMMA OperationGoal ==
    ASSUME NEW f, NEW p, NEW l
    PROVE  [NodeFrom("Binary", f) EXCEPT !.at = p, !.left = l]
           = [do |-> "node", kind |-> "Binary", from |-> f, at |-> p, left |-> l]
  <1>1. PICK z, e : z = 0 /\ e = ""
    OBVIOUS
  <1>2. PICK x : x = [do |-> "node", kind |-> "Binary", from |-> f, at |-> z, left |-> e]
    OBVIOUS
  <1>3. [x EXCEPT !.at = p]
        = [do |-> "node", kind |-> "Binary", from |-> f, at |-> p, left |-> e]
    BY <1>2
  <1>4. PICK y : y = [do |-> "node", kind |-> "Binary", from |-> f, at |-> p, left |-> e]
    OBVIOUS
  <1>5. [y EXCEPT !.left = l]
        = [do |-> "node", kind |-> "Binary", from |-> f, at |-> p, left |-> l]
    BY <1>4
  <1>6. [x EXCEPT !.at = p, !.left = l] = [[x EXCEPT !.at = p] EXCEPT !.left = l]
    OBVIOUS
  <1>7. NodeFrom("Binary", f) = x
    BY <1>1, <1>2 DEF NodeFrom
  <1> QED BY <1>3, <1>4, <1>5, <1>6, <1>7, Zenon

LEMMA NextClauseInv == ClauseInv /\ [Next]_vars => ClauseInv'
  <1> SUFFICES ASSUME ClauseInv, [Next]_vars
               PROVE  ClauseInv'
    OBVIOUS
  <1>1. Read(toks) /\ Behind(todo) /\ Ends(todo) /\ Owned(todo, toks)
        /\ AllMadeWell(made, toks)
    BY DEF ClauseInv, Ready
  <1>2. Grown(toks, toks)
    BY <1>1 DEF Grown
  <1>3. ASSUME Goals(todo'), Ends(todo'), Owned(todo', toks), made' = made,
               Grown(toks, toks')
        PROVE  ClauseInv'
    <2>1. Ready(todo', toks') /\ AllMadeWell(made', toks')
      BY <1>1, <1>3, Settled, StillTrue
    <2>2. Read(toks')
      BY <1>3 DEF Grown
    <2> QED BY <2>1, <2>2 DEF ClauseInv
  <1>4. CASE EnterFunction
    <2>1. todo # <<>> /\ Head(todo).do = "call" /\ made' = made /\ toks' = toks
          /\ todo' = Body(Head(todo).fn, Head(todo).from) \o Tail(todo)
      BY <1>4 DEF EnterFunction, Doing, Goal
    <2>2. Head(todo).fn \in Functions /\ todo[1].do = "call"
      BY <1>1, <2>1, Current
    <2>3. /\ Goals(Tail(todo)) /\ Ends(Tail(todo)) /\ Tail(todo) # <<>>
          /\ Owned(Tail(todo), toks)
      BY <1>1, <2>1, <2>2, GoalsTail, BehindTail
    <2> DEFINE b == Body(Head(todo).fn, Head(todo).from)
    <2>4. Goals(b) /\ Owned(b, toks)
      BY <2>2, BodyStarted, UnclaimedOwned DEF Listed, Started
    <2> HIDE DEF b
    <2>5. Goals(b \o Tail(todo)) /\ Ends(b \o Tail(todo)) /\ Owned(b \o Tail(todo), toks)
      BY <2>3, <2>4, PutBefore
    <2>6. todo' = b \o Tail(todo)
      BY <2>1 DEF b
    <2> QED BY <1>2, <1>3, <2>1, <2>5, <2>6
  <1>5. ASSUME NEW q, Nearly(q), Cur \notin Clauses => Goals(q), Ends(q), Owned(q, toks),
               todo' = Owning(q), Advance, made' = made
        PROVE  ClauseInv'
    <2>1. Grown(toks, toks')
      BY <1>1, <1>5, AdvanceGrows
    <2>2. CASE Cur \in Clauses
      <3>1. Goals(todo') /\ Ends(todo') /\ Owned(todo', toks)
        BY <1>1, <1>5, <2>2, OwningClause DEF Read
      <3> QED BY <1>3, <1>5, <2>1, <3>1
    <2>3. CASE Cur \notin Clauses
      <3>1. todo' = q
        BY <1>5, <2>3 DEF Owning, Clauses
      <3> QED BY <1>3, <1>5, <2>1, <2>3, <3>1
    <2> QED BY <2>2, <2>3
  <1>6. CASE ExpectToken
    <2>1. todo # <<>> /\ Head(todo).do = "expect" /\ made' = made
          /\ todo' = Owning(Tail(todo)) /\ Advance
      BY <1>6 DEF ExpectToken, Doing
    <2>2. todo[1].do = "expect"
      BY <1>1, <2>1, Current
    <2>3. Goals(Tail(todo)) /\ Ends(Tail(todo)) /\ Owned(Tail(todo), toks)
      BY <1>1, <2>1, <2>2, GoalsTail, BehindTail
    <2>4. Nearly(Tail(todo))
      BY <2>3 DEF Goals, Nearly
    <2> QED BY <1>5, <2>1, <2>3, <2>4
  <1>7. CASE Error
    <2>1. todo' = todo /\ made' = made /\ toks' = toks
      BY <1>7 DEF Error
    <2> QED BY <2>1 DEF ClauseInv
  <1>8. CASE MatchToken
    <2>1. todo # <<>> /\ Head(todo).do = "match" /\ made' = made /\ Cur \in Head(todo).of
          /\ todo' = Owning(Head(todo).body \o Tail(todo)) /\ Advance
      BY <1>8 DEF MatchToken, Doing, Goal, CurMatches
    <2>2. Head(todo) = todo[1] /\ Flats(todo[1].body) /\ todo[1].do = "match"
      BY <1>1, <2>1, Current
    <2>3. /\ Behind(Tail(todo)) /\ Ends(Tail(todo)) /\ Owned(Tail(todo), toks)
          /\ Tail(todo) # <<>> /\ (Goes(Tail(todo)) => Offers(todo[1], Tail(todo)[1]))
      BY <1>1, <2>1, <2>2, BehindTail
    <2>4. PICK b : b = todo[1].body
      OBVIOUS
    <2>5. PICK t : t = Tail(todo)
      OBVIOUS
    <2>6. /\ Flats(b) /\ Behind(t) /\ Ends(t) /\ Owned(t, toks) /\ t # <<>>
          /\ (Goes(t) => Offers(todo[1], t[1])) /\ todo' = Owning(b \o t)
      BY <2>1, <2>2, <2>3, <2>4, <2>5
    <2>7. Nearly(b \o t)
      BY <2>6, JoinedNearly
    <2>8. Goals(b) /\ Owned(b, toks) /\ Sequence(b) /\ Sequence(t)
      BY <2>6, Lists, UnclaimedOwned DEF Listed, Started, Goals, Behind
    <2>9. Ends(b \o t) /\ Owned(b \o t, toks)
      BY <2>6, <2>8, JoinedEnds
    <2>10. ASSUME Cur \notin Clauses
           PROVE  Goals(b \o t)
      <3>1. ~Goes(t)
        <4> SUFFICES ASSUME Offers(todo[1], t[1])
                     PROVE  FALSE
          BY <2>6
        <4>1. todo[1].of \subseteq Clauses
          BY DEF Offers, Clause, Clauses
        <4> QED BY <2>1, <2>2, <2>10, <4>1
      <3>2. Goals(t)
        <4>1. \A i \in DOMAIN t : i # 1 => i > 1
          BY <2>8, SequenceLen
        <4> QED BY <2>6, <3>1, <4>1 DEF Goals, Behind, Goes
      <3> QED BY <2>8, <3>2, JoinedGoals
    <2> QED BY <1>5, <2>1, <2>6, <2>7, <2>9, <2>10
  <1>9. CASE Iterate
    <2>1. todo # <<>> /\ Head(todo).do = "loop" /\ made' = made /\ toks' = toks
          /\ todo' = Head(todo).body \o todo
      BY <1>9 DEF Iterate, Doing, Goal
    <2>2. Head(todo) = todo[1] /\ Flats(todo[1].body) /\ Goals(todo)
      BY <1>1, <2>1, Current
    <2>3. Goals(todo[1].body) /\ Owned(todo[1].body, toks)
      BY <2>2, Lists, UnclaimedOwned DEF Listed, Started
    <2>4. /\ Goals(todo[1].body \o todo) /\ Ends(todo[1].body \o todo)
          /\ Owned(todo[1].body \o todo, toks)
      BY <1>1, <2>1, <2>2, <2>3, PutBefore
    <2> QED BY <1>2, <1>3, <2>1, <2>2, <2>4
  <1>10. CASE ReadOperator
    <2> DEFINE binary == [NodeFrom("Binary", Goal.from)
                            EXCEPT !.at = Pos, !.left = Last(made).kind]
    <2>1. todo # <<>> /\ Head(todo).do = "operators" /\ made' = made
          /\ todo' = <<Call(Head(todo).fn), binary>> \o todo /\ Advance
      BY <1>10 DEF ReadOperator, Doing, Goal
    <2>2. Head(todo).fn \in Functions /\ Goals(todo)
      BY <1>1, <2>1, Current
    <2>3. Pos \in Nat
      BY <1>1, SequenceLen DEF Read, Pos
    <2>a. binary = [do |-> "node", kind |-> "Binary", from |-> Goal.from, at |-> Pos,
                    left |-> Last(made).kind]
      BY OperationGoal
    <2> HIDE DEF binary
    <2>b. binary.do = "node" /\ binary.kind = "Binary"
      BY <2>a
    <2>5. Plain(binary) /\ ~Pending(binary)
      BY <2>3, <2>a, <2>b DEF Plain, NodeGoal, Pending, Clausal
    <2>6. PICK c : c = Call(Head(todo).fn)
      OBVIOUS
    <2>7. Part(c) /\ c.do = "call"
      BY <2>2, <2>6, Kinds DEF Call, CallFrom
    <2>8. PICK b : b = <<c, binary>>
      OBVIOUS
    <2>9. Sequence(b) /\ DOMAIN b = {1, 2} /\ b[1] = c /\ b[2] = binary
      BY <2>8, Tuple2
    <2>10. Goals(b) /\ Owned(b, toks)
      BY <2>5, <2>7, <2>9, <2>b DEF Goals, Owned, Part
    <2>11. Goals(b \o todo) /\ Ends(b \o todo) /\ Owned(b \o todo, toks)
      BY <1>1, <2>1, <2>2, <2>10, PutBefore
    <2>12. todo' = b \o todo
      BY <2>1, <2>6, <2>8
    <2>13. Grown(toks, toks')
      BY <1>1, <2>1, AdvanceGrows
    <2> QED BY <1>3, <2>1, <2>11, <2>12, <2>13
  <1>11. CASE PassBy
    <2> DEFINE skipped(i) == /\ todo[i].do \in {"match", "loop", "operators"}
                             /\ Cur \notin todo[i].of
               left == {i \in DOMAIN todo : ~skipped(i)}
    <2>1. todo # <<>> /\ skipped(1) /\ made' = made /\ toks' = toks
          /\ todo' = SubSeq(todo, Min(left), Len(todo))
      BY <1>11 DEF PassBy
    <2>2. PICK n \in Nat : n = Len(todo) /\ DOMAIN todo = 1..n /\ n # 0
      BY <1>1, <2>1, SequenceLen DEF Behind
    <2>3. left # {} /\ left \in SUBSET Nat
      <3>1. n \in left
        BY <1>1, <2>1, <2>2 DEF Ends
      <3> QED BY <2>2, <3>1
    <2>4. PICK m : m = Min(left)
      OBVIOUS
    <2>5. m \in left /\ \A i \in left : m <= i
      <3> HIDE DEF left
      <3> QED BY <2>3, <2>4, MinProperties
    <2>6. m \in 1..n /\ m # 1
      BY <2>1, <2>2, <2>5
    <2>7. m - 1 \in 1..n /\ m - 1 \notin left
      <3>1. m - 1 \in 1..n
        BY <2>6
      <3>2. ~(m <= m - 1)
        BY <2>6
      <3> QED BY <2>5, <3>1, <3>2
    <2>8. skipped(m - 1)
      BY <2>2, <2>7
    <2> HIDE DEF left
    <2>9. PICK t : t = SubSeq(todo, m, Len(todo))
      OBVIOUS
    <2>10. Behind(t) /\ Ends(t) /\ Owned(t, toks) /\ t # <<>> /\ t[1] = todo[m]
      BY <1>1, <2>2, <2>6, <2>9, BehindSub
    <2>11. ASSUME Goes(t)
           PROVE  toks[Len(toks)] # Clause(t[1].kind)
      <3>1. Offers(todo[m - 1], todo[m])
        BY <1>1, <2>2, <2>6, <2>10, <2>11 DEF Behind, Goes
      <3>2. Cur # Clause(todo[m].kind)
        BY <2>8, <3>1 DEF Offers
      <3> QED BY <2>10, <3>2 DEF Cur, Pos
    <2>12. Ready(t, toks)
      BY <2>10, <2>11 DEF Ready
    <2>13. todo' = t
      BY <2>1, <2>4, <2>9
    <2> QED BY <1>1, <2>1, <2>12, <2>13 DEF ClauseInv
  <1>12. CASE MakeNode
    <2>1. /\ todo # <<>> /\ Head(todo).do = "node" /\ toks' = toks /\ todo' = Tail(todo)
          /\ made' = Append(made, [kind |-> Goal.kind, from |-> Goal.from, at |-> Goal.at,
                                   to |-> LastRead, left |-> Goal.left])
      BY <1>12 DEF MakeNode, Doing, Goal
    <2>2. Head(todo) = todo[1] /\ todo[1].do = "node" /\ NodeGoal(todo[1])
      BY <1>1, <2>1, Current
    <2>3. Goals(Tail(todo)) /\ Ends(Tail(todo)) /\ Owned(Tail(todo), toks)
      BY <1>1, <2>1, <2>2, GoalsTail, BehindTail
    <2>4. Ready(todo', toks')
      BY <1>2, <2>1, <2>3, Settled
    <2>5. PICK n : n = [kind |-> Goal.kind, from |-> Goal.from, at |-> Goal.at,
                        to |-> LastRead, left |-> Goal.left]
      OBVIOUS
    <2>6. n.kind = todo[1].kind /\ n.at = todo[1].at /\ n.to = LastRead
      BY <2>2, <2>5 DEF Goal
    <2>7. n.to + 1 = Pos /\ Pos \in DOMAIN toks
      <3>1. Pos \in Nat /\ Pos \in DOMAIN toks
        BY <1>1, SequenceLen DEF Read, Pos
      <3> QED BY <2>6, <3>1 DEF LastRead
    <2>8. n.kind # "Binary" /\ n.at # 0 => n.at \in DOMAIN toks /\ toks[n.at] \in Clauses
      <3>1. 1 \in DOMAIN todo
        BY <1>1, <2>1, SequenceLen DEF Behind
      <3> QED BY <1>1, <2>2, <2>6, <3>1 DEF Owned
    <2>9. n.kind \in Clausal /\ n.at = 0 => toks[n.to + 1] # Clause(n.kind)
      BY <2>1, <2>2, <2>6, <2>7 DEF ClauseInv, Ready, Goes, Pending, Pos
    <2>10. MadeWell(n, toks)
      BY <2>7, <2>8, <2>9 DEF MadeWell
    <2>11. PICK S : made \in Seq(S)
      BY <1>1 DEF AllMadeWell, Sequence
    <2>12. PICK T : T = S \cup {n}
      OBVIOUS
    <2>13. made \in Seq(T) /\ n \in T
      BY <2>11, <2>12
    <2>14. /\ Append(made, n) \in Seq(T)
           /\ \A i \in DOMAIN Append(made, n) :
                 \/ i \in DOMAIN made /\ Append(made, n)[i] = made[i]
                 \/ Append(made, n)[i] = n
      BY <2>13
    <2>15. AllMadeWell(Append(made, n), toks)
      BY <1>1, <2>10, <2>14 DEF AllMadeWell, Sequence
    <2>16. AllMadeWell(made', toks')
      BY <2>1, <2>5, <2>15
    <2> QED BY <1>1, <2>1, <2>4, <2>16 DEF ClauseInv
  <1>13. CASE Accept
    <2>1. todo' = todo /\ made' = made /\ toks' = toks
      BY <1>13 DEF Accept
    <2> QED BY <2>1 DEF ClauseInv
  <1>14. CASE UNCHANGED vars
    BY <1>14 DEF vars, ClauseInv
  <1> QED BY <1>4, <1>6, <1>7, <1>8, <1>9, <1>10, <1>11, <1>12, <1>13, <1>14 DEF Next

(* A node with the clause of an IF or of a loop is behind no node of that  *)
(* kind that could have had it and has none.                               *)
LEMMA ClauseInvNearest == ClauseInv => ClausesAreNearest
  <1> SUFFICES ASSUME ClauseInv, NEW outer \in Nodes, NEW inner \in Nodes,
                      outer.kind # "Binary", outer.at # 0, inner.to = outer.at - 1,
                      inner.at = 0
               PROVE  inner.kind \notin (IF toks[outer.at] = "ELSE" THEN {"If"}
                                         ELSE {"While", "For", "Do"})
    BY DEF ClausesAreNearest
  <1>1. \A n \in Nodes : MadeWell(n, toks)
    BY DEF ClauseInv, AllMadeWell, Nodes, ToSet
  <1>2. outer.at \in DOMAIN toks /\ toks[outer.at] \in Clauses
    BY <1>1 DEF MadeWell
  <1>3. inner.to + 1 = outer.at
    <2>1. outer.at \in Nat
      BY <1>2, SequenceLen DEF ClauseInv, Read
    <2> QED BY <2>1
  <1>4. inner.kind \in Clausal => toks[outer.at] # Clause(inner.kind)
    BY <1>1, <1>3 DEF MadeWell
  <1> QED BY <1>2, <1>4 DEF Clause, Clausal, Clauses

(* A statement that was made without an ELSE or UNTIL does not end just    *)
(* before the one of another statement, for then it would have been its    *)
(* own: each function looks for the clause of its statement last           *)
(* (pl11_parser.cpp:574-585, :587-598, :600-634, :636-649).                *)
THEOREM ParserClausesAreNearest == Spec => []ClausesAreNearest
  <1> QED BY InitClauseInv, NextClauseInv, ClauseInvNearest, PTL DEF Spec

-----------------------------------------------------------------------------
(***************************************************************************)
(* Operators and parentheses among the tokens w, whichever they are: what  *)
(* Depth, OperatorsOf and Level say of toks.                               *)
(***************************************************************************)
Places(w, i, p, t) == {q \in i..p : w[q] = t}
Count(w, i, p, t) == Cardinality(Places(w, i, p, t))
DepthIn(w, i, p)  == Count(w, i, p, "(") - Count(w, i, p, ")")
EndsOperand       == {"x", ")", "^"} \cup Literals \cup Registers
OperatorsIn(w, i, j) ==
    {p \in i + 1..j : /\ w[p] \in RelOp \cup ArithmeticOp
                      /\ w[p - 1] \in EndsOperand
                      /\ DepthIn(w, i, p) = 0}
LevelOf(t) == CASE t \in RelOp -> 1 [] t \in AddOp -> 2 [] OTHER -> 3

(* What a token adds to the depth.                                         *)
Turn(t) == CASE t = "(" -> 1 [] t = ")" -> -1 [] OTHER -> 0

LEMMA CountType ==
    ASSUME NEW w, NEW i \in Nat, NEW p \in Nat, NEW t
    PROVE  IsFiniteSet(Places(w, i, p, t)) /\ Count(w, i, p, t) \in Nat
  <1>1. IsFiniteSet(i..p)
    BY FS_Interval
  <1>2. Places(w, i, p, t) \in SUBSET (i..p)
    BY DEF Places
  <1>3. IsFiniteSet(Places(w, i, p, t))
    BY <1>1, <1>2, FS_Subset
  <1> QED BY <1>3, FS_CardinalityType DEF Count

LEMMA CountSplit ==
    ASSUME NEW w, NEW i \in Nat, NEW k \in Nat, NEW p \in Nat, i <= k + 1, k <= p, NEW t
    PROVE  Count(w, i, p, t) = Count(w, i, k, t) + Count(w, k + 1, p, t)
  <1>0. PICK A, B : A = Places(w, i, k, t) /\ B = Places(w, k + 1, p, t)
    OBVIOUS
  <1>1. IsFiniteSet(A) /\ IsFiniteSet(B)
    <2>1. k + 1 \in Nat
      OBVIOUS
    <2> QED BY <1>0, <2>1, CountType
  <1>2. A \cap B = {}
    BY <1>0 DEF Places
  <1>3. A \cup B = Places(w, i, p, t)
    BY <1>0 DEF Places
  <1>4. Cardinality(A) \in Nat /\ Cardinality(B) \in Nat
    BY <1>1, FS_CardinalityType
  <1>5. Cardinality(A \cup B) = Cardinality(A) + Cardinality(B) - Cardinality(A \cap B)
    BY <1>1, FS_Union
  <1>6. Cardinality(A \cap B) = 0
    BY <1>2, FS_EmptySet
  <1>7. Cardinality(A \cup B) = Cardinality(A) + Cardinality(B)
    BY <1>4, <1>5, <1>6
  <1> QED BY <1>0, <1>3, <1>7 DEF Count

LEMMA CountOne ==
    ASSUME NEW w, NEW i \in Nat, NEW t
    PROVE  Count(w, i, i, t) = IF w[i] = t THEN 1 ELSE 0
  <1>1. CASE w[i] = t
    <2>1. Places(w, i, i, t) = {i}
      BY <1>1 DEF Places
    <2> QED BY <1>1, <2>1, FS_Singleton DEF Count
  <1>2. CASE w[i] # t
    <2>1. Places(w, i, i, t) = {}
      BY <1>2 DEF Places
    <2> QED BY <1>2, <2>1, FS_EmptySet DEF Count
  <1> QED BY <1>1, <1>2

LEMMA DepthSplit ==
    ASSUME NEW w, NEW i \in Nat, NEW k \in Nat, NEW p \in Nat, i <= k + 1, k <= p
    PROVE  /\ DepthIn(w, i, p) = DepthIn(w, i, k) + DepthIn(w, k + 1, p)
           /\ DepthIn(w, i, p) \in Int /\ DepthIn(w, i, k) \in Int
           /\ DepthIn(w, k + 1, p) \in Int
  <1> PICK j \in Nat : j = k + 1
    OBVIOUS
  <1>1. ASSUME NEW t
        PROVE  /\ Count(w, i, p, t) = Count(w, i, k, t) + Count(w, j, p, t)
               /\ Count(w, i, p, t) \in Nat /\ Count(w, i, k, t) \in Nat
               /\ Count(w, j, p, t) \in Nat
    <2>1. /\ Count(w, i, p, t) \in Nat /\ Count(w, i, k, t) \in Nat
          /\ Count(w, j, p, t) \in Nat
      BY CountType
    <2>2. Count(w, i, p, t) = Count(w, i, k, t) + Count(w, k + 1, p, t)
      BY CountSplit
    <2>3. PICK c : c = Count(w, j, p, t)
      OBVIOUS
    <2>4. Count(w, k + 1, p, t) = c
      BY <2>3
    <2> QED BY <2>1, <2>2, <2>3, <2>4
  <1>2. PICK J : J = j
    OBVIOUS
  <1>3. /\ DepthIn(w, i, p) = DepthIn(w, i, k) + DepthIn(w, J, p)
        /\ DepthIn(w, i, p) \in Int /\ DepthIn(w, i, k) \in Int
        /\ DepthIn(w, J, p) \in Int
    BY <1>1, <1>2 DEF DepthIn
  <1>4. J = k + 1
    BY <1>2
  <1> QED BY <1>3, <1>4

LEMMA DepthOne ==
    ASSUME NEW w, NEW i \in Nat
    PROVE  DepthIn(w, i, i) = Turn(w[i]) /\ Turn(w[i]) \in {-1, 0, 1}
  <1>1. /\ Count(w, i, i, "(") = IF w[i] = "(" THEN 1 ELSE 0
        /\ Count(w, i, i, ")") = IF w[i] = ")" THEN 1 ELSE 0
    BY CountOne
  <1> QED BY <1>1 DEF DepthIn, Turn

(* They depend on nothing else.                                            *)
LEMMA OperatorsAgree ==
    ASSUME NEW w, NEW v, NEW i \in Nat, NEW e \in Nat, \A q \in i..e : w[q] = v[q]
    PROVE  /\ \A p \in i..e : DepthIn(v, i, p) = DepthIn(w, i, p)
           /\ OperatorsIn(v, i, e) = OperatorsIn(w, i, e)
  <1>1. ASSUME NEW p \in i..e, NEW t
        PROVE  Count(v, i, p, t) = Count(w, i, p, t)
    <2>1. Places(v, i, p, t) = Places(w, i, p, t)
      BY DEF Places
    <2> QED BY <2>1 DEF Count
  <1>2. \A p \in i..e : DepthIn(v, i, p) = DepthIn(w, i, p)
    BY <1>1 DEF DepthIn
  <1>3. \A p \in i + 1..e : /\ p \in i..e /\ p - 1 \in i..e
                            /\ w[p] = v[p] /\ w[p - 1] = v[p - 1]
    OBVIOUS
  <1>4. OperatorsIn(v, i, e) = OperatorsIn(w, i, e)
    BY <1>2, <1>3 DEF OperatorsIn
  <1> QED BY <1>2, <1>4

LEMMA ParserTerms ==
    ASSUME NEW i, NEW j
    PROVE  /\ Depth(i, j) = DepthIn(toks, i, j)
           /\ OperatorsOf(i, j) = OperatorsIn(toks, i, j)
           /\ Level(j) = LevelOf(toks[j])
  BY DEF Depth, DepthIn, Count, Places, OperatorsOf, OperatorsIn, Level, LevelOf, EndsOperand

(* The kinds of tokens.                                                    *)
LEMMA TokenKinds ==
    /\ \A t : t \in RelOp \cup ArithmeticOp => t \notin EndsOperand /\ Turn(t) = 0
    /\ \A t : LevelOf(t) \in 1..3
    /\ \A t \in EndsOperand : t # ")" => Turn(t) = 0
    /\ Turn("(") = 1 /\ Turn(")") = -1 /\ Turn(",") = 0 /\ Turn("^") = 0
    /\ \A t \in {"-", "NOT", "REF", "IND"} : t \notin EndsOperand /\ Turn(t) = 0
    /\ \A t \in {"(", ")", ",", "^"} : t \notin RelOp \cup ArithmeticOp
    /\ {")", "^", "x"} \subseteq EndsOperand /\ Literals \subseteq EndsOperand
    /\ Registers \subseteq EndsOperand
  BY DEF RelOp, ArithmeticOp, AddOp, MulOp, EndsOperand, Literals, Registers, Turn, LevelOf

-----------------------------------------------------------------------------
(***************************************************************************)
(* Parts of the input, from a token i to a token e.                        *)
(***************************************************************************)
(* It closes no parenthesis that it did not open, and leaves d open.       *)
Nesting(w, i, e, d) ==
    /\ i \in Nat /\ e \in Nat /\ 0 < i /\ i <= e /\ i..e \subseteq DOMAIN w
    /\ \A p \in i..e : DepthIn(w, i, p) >= 0
    /\ DepthIn(w, i, e) = d

Done(m, p) == \E k \in DOMAIN m : m[k].kind = "Binary" /\ m[k].at = p

(* It is an operand of an operator looser than the level l: those in it    *)
(* that are in no parentheses have been applied and are of this level or   *)
(* tighter.                                                                *)
Operand(w, m, i, e, l) ==
    /\ Nesting(w, i, e, 0)
    /\ w[e] \in EndsOperand
    /\ \A p \in OperatorsIn(w, i, e) : LevelOf(w[p]) >= l /\ Done(m, p)

(* It is in the parentheses of an operand.                                 *)
Inside(w, i, e) == Nesting(w, i, e, 1) /\ OperatorsIn(w, i, e) = {}

LEMMA NestingOne ==
    ASSUME NEW w, NEW i \in Nat, 0 < i, i \in DOMAIN w, Turn(w[i]) # -1
    PROVE  Nesting(w, i, i, Turn(w[i])) /\ OperatorsIn(w, i, i) = {}
  <1>1. \A p \in i..i : p = i
    OBVIOUS
  <1>2. i + 1..i = {}
    OBVIOUS
  <1>3. DepthIn(w, i, i) = Turn(w[i]) /\ Turn(w[i]) >= 0
    BY DepthOne
  <1>4. Nesting(w, i, i, Turn(w[i]))
    BY <1>1, <1>3 DEF Nesting
  <1> QED BY <1>2, <1>4 DEF OperatorsIn

LEMMA NestingJoin ==
    ASSUME NEW w, NEW i, NEW k, NEW e, NEW d \in Nat, NEW c \in Nat,
           Nesting(w, i, k, d), Nesting(w, k + 1, e, c)
    PROVE  /\ Nesting(w, i, e, d + c)
           /\ \A p \in k + 1..e : DepthIn(w, i, p) = d + DepthIn(w, k + 1, p)
  <1>1. i \in Nat /\ k \in Nat /\ e \in Nat /\ 0 < i /\ i <= k /\ k + 1 <= e
    BY DEF Nesting
  <1>2. PICK j \in Nat : j = k + 1
    BY <1>1
  <1>3. ASSUME NEW p \in j..e
        PROVE  DepthIn(w, i, p) = d + DepthIn(w, j, p) /\ DepthIn(w, j, p) \in Int
    <2>1. i \in Nat /\ k \in Nat /\ p \in Nat /\ i <= k + 1 /\ k <= p
      BY <1>1, <1>2
    <2>2. DepthIn(w, i, p) = DepthIn(w, i, k) + DepthIn(w, k + 1, p)
      BY <2>1, DepthSplit
    <2>3. DepthIn(w, k + 1, p) \in Int
      BY <2>1, DepthSplit
    <2>4. DepthIn(w, i, k) = d
      BY DEF Nesting
    <2> QED BY <1>2, <2>2, <2>3, <2>4
  <1>4. ASSUME NEW p \in i..e
        PROVE  p \in DOMAIN w /\ DepthIn(w, i, p) >= 0
    <2>1. CASE p <= k
      <3>1. p \in i..k
        BY <1>1, <2>1
      <3> QED BY <3>1 DEF Nesting
    <2>2. CASE ~(p <= k)
      <3>1. p \in j..e
        BY <1>1, <1>2, <2>2
      <3>2. p \in DOMAIN w /\ DepthIn(w, j, p) >= 0
        BY <1>2, <3>1 DEF Nesting
      <3> QED BY <1>3, <3>1, <3>2
    <2> QED BY <2>1, <2>2
  <1>5. DepthIn(w, i, e) = d + c
    <2>1. e \in j..e /\ DepthIn(w, j, e) = c
      BY <1>1, <1>2 DEF Nesting
    <2> QED BY <1>3, <2>1
  <1>6. Nesting(w, i, e, d + c)
    BY <1>1, <1>4, <1>5 DEF Nesting
  <1> QED BY <1>2, <1>3, <1>6

LEMMA NestingStep ==
    ASSUME NEW w, NEW i, NEW e, NEW d \in Nat, Nesting(w, i, e, d), e + 1 \in DOMAIN w,
           d + Turn(w[e + 1]) >= 0
    PROVE  Nesting(w, i, e + 1, d + Turn(w[e + 1]))
           /\ DepthIn(w, i, e + 1) = d + Turn(w[e + 1])
  <1>1. i \in Nat /\ e \in Nat /\ 0 < i /\ i <= e
    BY DEF Nesting
  <1>2. PICK f \in Nat : f = e + 1
    BY <1>1
  <1>3. DepthIn(w, i, f) = d + Turn(w[f]) /\ Turn(w[f]) \in Int
    <2>1. DepthIn(w, i, f) = DepthIn(w, i, e) + DepthIn(w, e + 1, f)
      BY <1>1, <1>2, DepthSplit
    <2>2. DepthIn(w, f, f) = Turn(w[f]) /\ Turn(w[f]) \in {-1, 0, 1}
      BY <1>2, DepthOne
    <2>3. DepthIn(w, i, e) = d
      BY DEF Nesting
    <2> QED BY <1>2, <2>1, <2>2, <2>3
  <1>4. ASSUME NEW p \in i..f
        PROVE  p \in DOMAIN w /\ DepthIn(w, i, p) >= 0
    <2>1. CASE p = f
      BY <1>2, <1>3, <2>1
    <2>2. CASE p # f
      <3>1. p \in i..e
        BY <1>1, <1>2, <2>2
      <3> QED BY <3>1 DEF Nesting
    <2> QED BY <2>1, <2>2
  <1>5. Nesting(w, i, f, d + Turn(w[f]))
    BY <1>1, <1>2, <1>3, <1>4 DEF Nesting
  <1> QED BY <1>2, <1>3, <1>5

(* The operators of a longer part.                                         *)
LEMMA OperatorsEarlier ==
    ASSUME NEW w, NEW i \in Nat, NEW e \in Nat, NEW f, NEW p \in OperatorsIn(w, i, f), p <= e
    PROVE  p \in OperatorsIn(w, i, e)
  <1>1. p \in i + 1..f
    BY DEF OperatorsIn
  <1>2. p \in Int /\ i + 1 <= p
    BY <1>1
  <1>3. p \in i + 1..e
    BY <1>2
  <1> QED BY <1>3 DEF OperatorsIn

LEMMA OperatorsJoin ==
    ASSUME NEW w, NEW i, NEW k, NEW e, NEW d \in Nat, NEW c \in Nat,
           Nesting(w, i, k, d), Nesting(w, k + 1, e, c), NEW p \in OperatorsIn(w, i, e)
    PROVE  \/ p \in OperatorsIn(w, i, k)
           \/ d = 0 /\ (p = k + 1 \/ p \in OperatorsIn(w, k + 1, e))
  <1>1. i \in Nat /\ k \in Nat /\ e \in Nat /\ 0 < i /\ i <= k /\ k + 1 <= e
    BY DEF Nesting
  <1>2. PICK j \in Nat : j = k + 1
    BY <1>1
  <1>3. /\ p \in i + 1..e /\ w[p] \in RelOp \cup ArithmeticOp
        /\ w[p - 1] \in EndsOperand /\ DepthIn(w, i, p) = 0
    BY DEF OperatorsIn
  <1>4. p \in Nat
    BY <1>1, <1>3
  <1>5. CASE p <= k
    BY <1>1, <1>5, OperatorsEarlier
  <1>6. CASE ~(p <= k)
    <2>1. p \in j..e
      BY <1>1, <1>2, <1>3, <1>6
    <2>2. DepthIn(w, i, p) = d + DepthIn(w, j, p)
      BY <1>2, <2>1, NestingJoin
    <2>3. DepthIn(w, j, p) >= 0
      BY <1>2, <2>1 DEF Nesting
    <2>4. DepthIn(w, j, p) \in Int
      <3>1. j <= (p - 1) + 1 /\ p - 1 <= p /\ p - 1 \in Nat
        BY <1>1, <1>2, <1>3, <2>1
      <3> QED BY <1>4, <3>1, DepthSplit
    <2>5. d = 0 /\ DepthIn(w, j, p) = 0
      BY <1>3, <2>2, <2>3, <2>4
    <2>6. CASE p = j
      BY <1>2, <2>5, <2>6
    <2>7. CASE p # j
      <3>1. p \in j + 1..e
        BY <1>1, <1>2, <2>1, <2>7
      <3>2. p \in OperatorsIn(w, j, e)
        BY <1>3, <2>5, <3>1 DEF OperatorsIn
      <3> QED BY <1>2, <2>5, <3>2
    <2> QED BY <2>6, <2>7
  <1> QED BY <1>5, <1>6

LEMMA OperatorsStep ==
    ASSUME NEW w, NEW i, NEW e, NEW d, Nesting(w, i, e, d),
           w[e + 1] \notin RelOp \cup ArithmeticOp, NEW p \in OperatorsIn(w, i, e + 1)
    PROVE  p \in OperatorsIn(w, i, e)
  <1>1. i \in Nat /\ e \in Nat
    BY DEF Nesting
  <1>2. p \in i + 1..e + 1 /\ w[p] \in RelOp \cup ArithmeticOp
    BY DEF OperatorsIn
  <1>3. p # e + 1
    BY <1>2
  <1>4. p <= e
    BY <1>1, <1>2, <1>3
  <1> QED BY <1>1, <1>4, OperatorsEarlier

(* Operands.                                                               *)
LEMMA OperandOne ==
    ASSUME NEW w, NEW m, NEW i \in Nat, 0 < i, i \in DOMAIN w,
           w[i] \in EndsOperand, w[i] # ")"
    PROVE  Operand(w, m, i, i, 4)
  <1>1. Turn(w[i]) = 0
    BY TokenKinds
  <1>2. Nesting(w, i, i, 0) /\ OperatorsIn(w, i, i) = {}
    BY <1>1, NestingOne
  <1> QED BY <1>2 DEF Operand

LEMMA OperandPrefix ==
    ASSUME NEW w, NEW m, NEW i \in Nat, NEW e, NEW l, 0 < i, i \in DOMAIN w,
           w[i] \in {"-", "NOT"}, Operand(w, m, i + 1, e, l)
    PROVE  Operand(w, m, i, e, l)
  <1>1. Turn(w[i]) = 0 /\ w[i] \notin EndsOperand
    BY TokenKinds
  <1>2. Nesting(w, i, i, 0) /\ OperatorsIn(w, i, i) = {}
    BY <1>1, NestingOne
  <1>3. Nesting(w, i + 1, e, 0)
    BY DEF Operand
  <1>4. Nesting(w, i, e, 0 + 0)
    BY <1>2, <1>3, NestingJoin
  <1>5. ASSUME NEW p \in OperatorsIn(w, i, e)
        PROVE  p \in OperatorsIn(w, i + 1, e)
    <2>1. p = i + 1 \/ p \in OperatorsIn(w, i + 1, e)
      BY <1>2, <1>3, OperatorsJoin
    <2>2. w[p - 1] \in EndsOperand
      BY DEF OperatorsIn
    <2>3. (i + 1) - 1 = i
      OBVIOUS
    <2> QED BY <1>1, <2>1, <2>2, <2>3
  <1>6. Nesting(w, i, e, 0)
    BY <1>4
  <1> QED BY <1>5, <1>6 DEF Operand

LEMMA OperandLevel ==
    ASSUME NEW w, NEW m, NEW i, NEW e
    PROVE  /\ \A l, h \in 1..4 : h <= l /\ Operand(w, m, i, e, l) => Operand(w, m, i, e, h)
           /\ Operand(w, m, i, e, 4) => OperatorsIn(w, i, e) = {}
  <1>1. \A t : LevelOf(t) \in 1..3
    BY TokenKinds
  <1> QED BY <1>1 DEF Operand

LEMMA OperandDeref ==
    ASSUME NEW w, NEW m, NEW i, NEW e, Operand(w, m, i, e, 4),
           e + 1 \in DOMAIN w, w[e + 1] = "^"
    PROVE  Operand(w, m, i, e + 1, 4)
  <1>1. Turn(w[e + 1]) = 0 /\ w[e + 1] \in EndsOperand
        /\ w[e + 1] \notin RelOp \cup ArithmeticOp
    BY TokenKinds
  <1>2. Nesting(w, i, e, 0)
    BY DEF Operand
  <1>3. Nesting(w, i, e + 1, 0 + Turn(w[e + 1]))
    BY <1>1, <1>2, NestingStep
  <1>4. OperatorsIn(w, i, e + 1) = {}
    BY <1>1, <1>2, OperatorsStep, OperandLevel
  <1> QED BY <1>1, <1>3, <1>4 DEF Operand

(* What is in parentheses.                                                 *)
LEMMA InsideFirst ==
    ASSUME NEW w, NEW i \in Nat, 0 < i, i \in DOMAIN w
    PROVE  /\ w[i] = "(" => Inside(w, i, i)
           /\ Turn(w[i]) = 0 /\ i + 1 \in DOMAIN w /\ w[i + 1] = "(" => Inside(w, i, i + 1)
  <1>1. ASSUME w[i] = "("
        PROVE  Inside(w, i, i)
    <2>1. Turn(w[i]) = 1
      BY <1>1, TokenKinds
    <2>2. Nesting(w, i, i, 1) /\ OperatorsIn(w, i, i) = {}
      BY <2>1, NestingOne
    <2> QED BY <2>2 DEF Inside
  <1>2. ASSUME Turn(w[i]) = 0, i + 1 \in DOMAIN w, w[i + 1] = "("
        PROVE  Inside(w, i, i + 1)
    <2>1. Nesting(w, i, i, 0) /\ OperatorsIn(w, i, i) = {}
      BY <1>2, NestingOne
    <2>2. Turn(w[i + 1]) = 1 /\ w[i + 1] \notin RelOp \cup ArithmeticOp
      BY <1>2, TokenKinds
    <2>3. Nesting(w, i, i + 1, 0 + Turn(w[i + 1]))
      BY <1>2, <2>1, <2>2, NestingStep
    <2>4. OperatorsIn(w, i, i + 1) = {}
      BY <2>1, <2>2, OperatorsStep
    <2> QED BY <2>2, <2>3, <2>4 DEF Inside
  <1> QED BY <1>1, <1>2

LEMMA InsideApplied ==
    ASSUME NEW w, NEW m, NEW i, NEW e, Operand(w, m, i, e, 4),
           e + 1 \in DOMAIN w, w[e + 1] = "("
    PROVE  Inside(w, i, e + 1)
  <1>1. Turn(w[e + 1]) = 1 /\ w[e + 1] \notin RelOp \cup ArithmeticOp
    BY TokenKinds
  <1>2. Nesting(w, i, e, 0)
    BY DEF Operand
  <1>3. Nesting(w, i, e + 1, 0 + Turn(w[e + 1]))
    BY <1>1, <1>2, NestingStep
  <1>4. OperatorsIn(w, i, e + 1) = {}
    BY <1>1, <1>2, OperatorsStep, OperandLevel
  <1> QED BY <1>1, <1>3, <1>4 DEF Inside

LEMMA InsideOperand ==
    ASSUME NEW w, NEW m, NEW i, NEW k, NEW e, NEW l, Inside(w, i, k),
           Operand(w, m, k + 1, e, l)
    PROVE  Inside(w, i, e)
  <1>1. Nesting(w, i, k, 1) /\ OperatorsIn(w, i, k) = {} /\ Nesting(w, k + 1, e, 0)
    BY DEF Inside, Operand
  <1>2. Nesting(w, i, e, 1 + 0)
    BY <1>1, NestingJoin
  <1>3. OperatorsIn(w, i, e) = {}
    BY <1>1, OperatorsJoin
  <1> QED BY <1>2, <1>3 DEF Inside

LEMMA InsideNext ==
    ASSUME NEW w, NEW i, NEW e, Inside(w, i, e), e + 1 \in DOMAIN w,
           Turn(w[e + 1]) = 0, w[e + 1] \notin RelOp \cup ArithmeticOp
    PROVE  Inside(w, i, e + 1)
  <1>1. Nesting(w, i, e, 1) /\ OperatorsIn(w, i, e) = {}
    BY DEF Inside
  <1>2. Nesting(w, i, e + 1, 1 + Turn(w[e + 1]))
    BY <1>1, NestingStep
  <1>3. OperatorsIn(w, i, e + 1) = {}
    BY <1>1, OperatorsStep
  <1> QED BY <1>2, <1>3 DEF Inside

LEMMA InsideComma ==
    ASSUME NEW w, NEW i, NEW e, Inside(w, i, e), e + 1 \in DOMAIN w, w[e + 1] = ","
    PROVE  Inside(w, i, e + 1)
  BY TokenKinds, InsideNext, Zenon

LEMMA InsideClosed ==
    ASSUME NEW w, NEW m, NEW i, NEW e, Inside(w, i, e), e + 1 \in DOMAIN w, w[e + 1] = ")"
    PROVE  Operand(w, m, i, e + 1, 4)
  <1>1. Turn(w[e + 1]) = -1 /\ w[e + 1] \notin RelOp \cup ArithmeticOp
        /\ w[e + 1] \in EndsOperand
    BY TokenKinds
  <1>2. Nesting(w, i, e, 1)
    BY DEF Inside
  <1>3. Nesting(w, i, e + 1, 1 + Turn(w[e + 1]))
    BY <1>1, <1>2, NestingStep
  <1>4. OperatorsIn(w, i, e + 1) = {}
    BY <1>1, <1>2, OperatorsStep DEF Inside
  <1> QED BY <1>1, <1>3, <1>4 DEF Operand

(* An operation applies the last of its loosest operators.                 *)
LooserThanRest(w, i, e, a) ==
    /\ a \in OperatorsIn(w, i, e)
    /\ \A p \in OperatorsIn(w, i, e) :
          \/ LevelOf(w[p]) > LevelOf(w[a])
          \/ LevelOf(w[p]) = LevelOf(w[a]) /\ p <= a

LEMMA Operation ==
    ASSUME NEW w, NEW m, NEW i, NEW a \in Nat, NEW e, NEW l \in 1..3, a \in DOMAIN w,
           Operand(w, m, i, a - 1, l), w[a] \in RelOp \cup ArithmeticOp,
           LevelOf(w[a]) = l, Operand(w, m, a + 1, e, l + 1), Done(m, a)
    PROVE  Operand(w, m, i, e, l) /\ LooserThanRest(w, i, e, a)
  <1>1. PICK k : k = a - 1
    OBVIOUS
  <1>2. /\ Nesting(w, i, k, 0) /\ w[k] \in EndsOperand /\ Nesting(w, a + 1, e, 0)
        /\ w[e] \in EndsOperand
    BY <1>1 DEF Operand
  <1>3. i \in Nat /\ k \in Nat /\ e \in Nat /\ 0 < i /\ i <= k /\ a = k + 1 /\ a + 1 <= e
    BY <1>1, <1>2 DEF Nesting
  <1>4. Turn(w[a]) = 0 /\ w[a] \notin EndsOperand
    BY TokenKinds
  <1>5. Nesting(w, i, a, 0) /\ DepthIn(w, i, a) = 0
    <2>1. Nesting(w, i, k + 1, 0 + Turn(w[k + 1]))
          /\ DepthIn(w, i, k + 1) = 0 + Turn(w[k + 1])
      BY <1>2, <1>3, <1>4, NestingStep
    <2> QED BY <1>3, <1>4, <2>1
  <1>6. Nesting(w, i, e, 0)
    <2>1. Nesting(w, i, e, 0 + 0)
      BY <1>2, <1>5, NestingJoin
    <2> QED BY <2>1
  <1>7. a \in OperatorsIn(w, i, e)
    <2>1. a \in i + 1..e
      BY <1>3
    <2> QED BY <1>1, <1>2, <1>5, <2>1 DEF OperatorsIn
  <1>8. ASSUME NEW p \in OperatorsIn(w, i, e)
        PROVE  /\ Done(m, p)
               /\ \/ LevelOf(w[p]) >= l + 1
                  \/ LevelOf(w[p]) >= l /\ p <= a
    <2>1. \/ p \in OperatorsIn(w, i, a)
          \/ p = a + 1 \/ p \in OperatorsIn(w, a + 1, e)
      BY <1>2, <1>5, OperatorsJoin
    <2>2. CASE p \in OperatorsIn(w, i, a)
      <3>1. p \in i + 1..a
        BY <2>2 DEF OperatorsIn
      <3>2. CASE p = a
        BY <1>3, <3>2
      <3>3. CASE p # a
        <4>1. p <= k /\ p <= a
          BY <1>3, <3>1, <3>3
        <4>2. p \in OperatorsIn(w, i, k)
          BY <1>3, <4>1, OperatorsEarlier
        <4> QED BY <1>1, <4>1, <4>2 DEF Operand
      <3> QED BY <3>2, <3>3
    <2>3. CASE p = a + 1
      <3>1. w[p - 1] \in EndsOperand
        BY DEF OperatorsIn
      <3>2. p - 1 = a
        BY <2>3
      <3> QED BY <1>4, <3>1, <3>2
    <2>4. CASE p \in OperatorsIn(w, a + 1, e)
      BY <2>4 DEF Operand
    <2> QED BY <2>1, <2>2, <2>3, <2>4
  <1>9. \A t : LevelOf(t) \in 1..3
    BY TokenKinds
  <1>10. ASSUME NEW p \in OperatorsIn(w, i, e)
         PROVE  /\ LevelOf(w[p]) >= l /\ Done(m, p)
                /\ \/ LevelOf(w[p]) > l
                   \/ LevelOf(w[p]) = l /\ p <= a
    <2>1. PICK q : q = LevelOf(w[p])
      OBVIOUS
    <2>2. q \in 1..3
      BY <1>9, <2>1
    <2> QED BY <1>8, <2>1, <2>2
  <1>11. Operand(w, m, i, e, l)
    BY <1>2, <1>6, <1>10 DEF Operand
  <1> QED BY <1>7, <1>10, <1>11 DEF LooserThanRest

-----------------------------------------------------------------------------
(***************************************************************************)
(* What is known between two goals, of the tokens w read so far and the    *)
(* nodes m made so far: the last of w is the current token, what has been  *)
(* parsed ends before it.                                                  *)
(***************************************************************************)
Fact(k, i, x) == [is |-> k, from |-> i, of |-> x]

Unknown          == Fact("any", 0, 0)
Begins(i)    == Fact("begins", i, 0)        \* token i is the current one
IsRead(i, t) == Fact("isread", i, t)        \* token i was t, and is the last one read
Whole(i)     == Fact("whole", i, 0)         \* what begins at i is an operand of any operator
Within(i)    == Fact("within", i, 0)        \* it is an operand with an open list
Value(i, l)  == Fact("value", i, l)         \* the last node is that of an operand
Closing(i)   == Fact("closing", i, 0)       \* behind a parenthesis at i there is a value
Right(i, op) == Fact("right", i, op)        \* what begins at i has the right operand of op
Target(i)    == Fact("target", i, 0)        \* what begins at i is a short assignment

(* Tokens of which an operand that is just a variable or a register is     *)
(* made, whatever parentheses it is in.                                    *)
Bare == {"(", ")", "x"} \cup Registers
AllBare(w, i, e) == \A q \in i..e : w[q] \in Bare
AllClose(w, i, e) == \A q \in i..e : w[q] = ")"

(* The last node v made is that of the operand from i to e.                *)
Core(w, i, e, v) ==
    /\ v.from \in Nat /\ i <= v.from /\ v.to \in Nat /\ v.to <= e
    /\ v.kind \in {"x", "R"} => AllBare(w, i, e)
    /\ v.kind = "Binary" =>
          /\ v.at \in DOMAIN w
          /\ AllClose(w, v.to + 1, e)
          /\ v.left \in {"x", "R"} => AllBare(w, i, v.at - 1)

Valued(w, m, i, l) ==
    /\ l \in 1..4 /\ Operand(w, m, i, Len(w) - 1, l)
    /\ m # <<>> /\ Core(w, i, Len(w) - 1, Last(m))

(* The operator op and its left operand, which begins at i.                *)
Operator(a, l, k) == [at |-> a, level |-> l, left |-> k]
HasLeft(w, m, i, op) ==
    /\ op.at \in DOMAIN w /\ w[op.at] \in RelOp \cup ArithmeticOp
    /\ op.level \in 1..3 /\ LevelOf(w[op.at]) = op.level
    /\ Operand(w, m, i, op.at - 1, op.level)
    /\ op.left \in {"x", "R"} => AllBare(w, i, op.at - 1)

(* The node v is that of V op E.                                           *)
ShortForm(w, i, e, v) ==
    /\ i \in Nat /\ 0 < i /\ e \in DOMAIN w
    /\ v.kind = "Binary" /\ v.from \in Nat /\ i <= v.from
    /\ v.to \in Nat /\ v.to <= e /\ v.at \in DOMAIN w
    /\ AllBare(w, i, v.at - 1) /\ AllClose(w, v.to + 1, e)

Holds(A, w, m) ==
    \/ A.is = "any"
    \/ A.is = "begins" /\ A.from = Len(w)
    \/ A.is = "isread" /\ A.from \in DOMAIN w /\ A.from + 1 = Len(w) /\ w[A.from] = A.of
    \/ A.is = "whole"  /\ Operand(w, m, A.from, Len(w) - 1, 4)
    \/ A.is = "within" /\ Inside(w, A.from, Len(w) - 1)
    \/ A.is = "value"  /\ Valued(w, m, A.from, A.of)
    \/ A.is = "closing" /\ A.from \in DOMAIN w /\ w[A.from] = "("
                        /\ Valued(w, m, A.from + 1, 1)
    \/ A.is = "right"  /\ HasLeft(w, m, A.from, A.of)
                       /\ Operand(w, m, A.of.at + 1, Len(w) - 1, A.of.level + 1)
    \/ A.is = "target" /\ m # <<>> /\ ShortForm(w, A.from, Len(w) - 1, Last(m))

(* More nodes.                                                             *)
More(m, n) == Sequence(n) /\ \A i \in DOMAIN m : i \in DOMAIN n /\ n[i] = m[i]

LEMMA NestingGrown ==
    ASSUME NEW w, NEW v, Grown(w, v), NEW i, NEW e
    PROVE  /\ \A d : Nesting(w, i, e, d) => Nesting(v, i, e, d)
           /\ \A d : Nesting(w, i, e, d) => OperatorsIn(v, i, e) = OperatorsIn(w, i, e)
  <1> SUFFICES ASSUME NEW d, Nesting(w, i, e, d)
               PROVE  /\ Nesting(v, i, e, d)
                      /\ OperatorsIn(v, i, e) = OperatorsIn(w, i, e)
    OBVIOUS
  <1>1. i \in Nat /\ e \in Nat /\ 0 < i /\ i <= e /\ i..e \subseteq DOMAIN w
    BY DEF Nesting
  <1>2. \A q \in i..e : w[q] = v[q] /\ q \in DOMAIN v
    BY <1>1 DEF Grown
  <1>3. /\ \A p \in i..e : DepthIn(v, i, p) = DepthIn(w, i, p)
        /\ OperatorsIn(v, i, e) = OperatorsIn(w, i, e)
    BY <1>1, <1>2, OperatorsAgree
  <1>4. e \in i..e
    BY <1>1
  <1>5. Nesting(v, i, e, d)
    BY <1>1, <1>2, <1>3, <1>4 DEF Nesting
  <1> QED BY <1>3, <1>5

LEMMA InsideGrown ==
    ASSUME NEW w, NEW v, Grown(w, v), NEW i, NEW e, Inside(w, i, e)
    PROVE  Inside(v, i, e)
  BY NestingGrown DEF Inside

LEMMA OperandGrown ==
    ASSUME NEW w, NEW v, Grown(w, v), NEW m, NEW n, More(m, n), NEW i, NEW e, NEW l,
           Operand(w, m, i, e, l)
    PROVE  Operand(v, n, i, e, l)
  <1>1. Nesting(w, i, e, 0)
    BY DEF Operand
  <1>2. Nesting(v, i, e, 0) /\ OperatorsIn(v, i, e) = OperatorsIn(w, i, e)
    BY <1>1, NestingGrown
  <1>3. \A q \in i..e : v[q] = w[q]
    BY <1>1 DEF Nesting, Grown
  <1>4. e \in i..e /\ i + 1..e \subseteq i..e
    BY <1>1 DEF Nesting
  <1>5. \A p : Done(m, p) => Done(n, p)
    BY DEF Done, More
  <1>6. \A p \in OperatorsIn(w, i, e) : p \in i..e
    BY <1>4 DEF OperatorsIn
  <1>7. \A p \in OperatorsIn(w, i, e) : LevelOf(v[p]) >= l /\ Done(n, p)
    BY <1>3, <1>5, <1>6 DEF Operand
  <1>8. v[e] \in EndsOperand
    BY <1>3, <1>4 DEF Operand
  <1> QED BY <1>2, <1>7, <1>8 DEF Operand

LEMMA HasLeftGrown ==
    ASSUME NEW w, NEW v, Grown(w, v), NEW m, NEW n, More(m, n), NEW i, NEW op,
           HasLeft(w, m, i, op)
    PROVE  HasLeft(v, n, i, op)
  <1>1. PICK k : k = op.at - 1
    OBVIOUS
  <1>2. Operand(w, m, i, k, op.level) /\ op.at \in DOMAIN w
    BY <1>1 DEF HasLeft
  <1>3. Operand(v, n, i, k, op.level)
    BY <1>2, OperandGrown
  <1>4. i..k \subseteq DOMAIN w
    BY <1>2 DEF Operand, Nesting
  <1>5. op.at \in DOMAIN v /\ v[op.at] = w[op.at]
    BY <1>2 DEF Grown
  <1>6. AllBare(w, i, k) => AllBare(v, i, k)
    BY <1>4 DEF AllBare, Grown
  <1> QED BY <1>1, <1>3, <1>5, <1>6 DEF HasLeft

LEMMA Growing ==
    /\ \A w : Read(w) => Grown(w, w)
    /\ \A w, v, u : Grown(w, v) /\ Grown(v, u) => Grown(w, u)
    /\ \A m : Sequence(m) => More(m, m)
    /\ \A m, n, o : More(m, n) /\ More(n, o) => More(m, o)
  BY DEF Grown, More

(* B is known whenever A is, from the tokens w and the nodes m on.         *)
Weaker(A, B, w, m) ==
    /\ A.is = "any" => B.is = "any"
    /\ \A v, n : Grown(w, v) /\ More(m, n) /\ Holds(A, v, n) => Holds(B, v, n)

LEMMA WeakerBasics ==
    ASSUME NEW w, NEW m
    PROVE  /\ \A A : Weaker(A, A, w, m)
           /\ \A A : Weaker(A, Unknown, w, m)
           /\ \A A, B, C : Weaker(A, B, w, m) /\ Weaker(B, C, w, m) => Weaker(A, C, w, m)
           /\ \A A, B, v, n : Weaker(A, B, w, m) /\ Grown(w, v) /\ More(m, n)
                                => Weaker(A, B, v, n)
  <1>1. \A A : Weaker(A, Unknown, w, m)
    BY DEF Weaker, Unknown, Fact, Holds
  <1>2. \A A, B, v, n : Weaker(A, B, w, m) /\ Grown(w, v) /\ More(m, n)
                          => Weaker(A, B, v, n)
    BY Growing DEF Weaker
  <1>3. /\ \A A : Weaker(A, A, w, m)
        /\ \A A, B, C : Weaker(A, B, w, m) /\ Weaker(B, C, w, m) => Weaker(A, C, w, m)
    BY DEF Weaker
  <1> QED BY <1>1, <1>2, <1>3

LEMMA FactFields ==
    ASSUME NEW k, NEW i, NEW x
    PROVE  Fact(k, i, x).is = k /\ Fact(k, i, x).from = i /\ Fact(k, i, x).of = x
  BY DEF Fact

(* What each of them says.                                                 *)
LEMMA HoldsOf ==
    ASSUME NEW w, NEW m, NEW i
    PROVE  /\ Holds(Unknown, w, m)
           /\ Holds(Begins(i), w, m) <=> i = Len(w)
           /\ \A t : Holds(IsRead(i, t), w, m)
                       <=> i \in DOMAIN w /\ i + 1 = Len(w) /\ w[i] = t
           /\ Holds(Whole(i), w, m) <=> Operand(w, m, i, Len(w) - 1, 4)
           /\ Holds(Within(i), w, m) <=> Inside(w, i, Len(w) - 1)
           /\ \A l : Holds(Value(i, l), w, m) <=> Valued(w, m, i, l)
           /\ Holds(Closing(i), w, m)
                <=> i \in DOMAIN w /\ w[i] = "(" /\ Valued(w, m, i + 1, 1)
           /\ \A op : Holds(Right(i, op), w, m)
                <=> HasLeft(w, m, i, op)
                    /\ Operand(w, m, op.at + 1, Len(w) - 1, op.level + 1)
           /\ Holds(Target(i), w, m) <=> m # <<>> /\ ShortForm(w, i, Len(w) - 1, Last(m))
  <1>1. Holds(Unknown, w, m)
    BY DEF Holds, Unknown, Fact
  <1>2. Holds(Begins(i), w, m) <=> i = Len(w)
    BY FactFields DEF Holds, Begins
  <1>3. ASSUME NEW t
        PROVE  Holds(IsRead(i, t), w, m)
                 <=> i \in DOMAIN w /\ i + 1 = Len(w) /\ w[i] = t
    BY FactFields DEF Holds, IsRead
  <1>4. Holds(Whole(i), w, m) <=> Operand(w, m, i, Len(w) - 1, 4)
    BY FactFields DEF Holds, Whole
  <1>5. Holds(Within(i), w, m) <=> Inside(w, i, Len(w) - 1)
    BY FactFields DEF Holds, Within
  <1>6. ASSUME NEW l
        PROVE  Holds(Value(i, l), w, m) <=> Valued(w, m, i, l)
    BY FactFields DEF Holds, Value
  <1>7. Holds(Closing(i), w, m)
          <=> i \in DOMAIN w /\ w[i] = "(" /\ Valued(w, m, i + 1, 1)
    BY FactFields DEF Holds, Closing
  <1>8. ASSUME NEW op
        PROVE  Holds(Right(i, op), w, m)
                 <=> HasLeft(w, m, i, op)
                     /\ Operand(w, m, op.at + 1, Len(w) - 1, op.level + 1)
    BY FactFields DEF Holds, Right
  <1>9. Holds(Target(i), w, m) <=> m # <<>> /\ ShortForm(w, i, Len(w) - 1, Last(m))
    BY FactFields DEF Holds, Target
  <1> QED BY <1>1, <1>2, <1>3, <1>4, <1>5, <1>6, <1>7, <1>8, <1>9

LEMMA HoldsValue ==
    \A w, m, i, l : Holds(Value(i, l), w, m) <=> Valued(w, m, i, l)
  BY HoldsOf

(* What was read may be the first token of what is to follow, an operand,  *)
(* or a parenthesis of one.                                                *)
LEMMA ReadBegins ==
    ASSUME NEW w, NEW m, NEW i, NEW t
    PROVE  Weaker(IsRead(i, t), Begins(i + 1), w, m)
  <1>1. IsRead(i, t).is # "any"
    BY FactFields DEF IsRead
  <1> QED BY <1>1, HoldsOf DEF Weaker

LEMMA ReadWhole ==
    ASSUME NEW w, NEW m, NEW i, NEW t \in EndsOperand, t # ")"
    PROVE  Weaker(IsRead(i, t), Whole(i), w, m)
  <1>1. IsRead(i, t).is # "any"
    BY FactFields DEF IsRead
  <1>2. ASSUME NEW v, NEW n, Grown(w, v), Holds(IsRead(i, t), v, n)
        PROVE  Holds(Whole(i), v, n)
    <2>1. i \in DOMAIN v /\ i + 1 = Len(v) /\ v[i] = t
      BY <1>2, HoldsOf
    <2>2. i \in Nat /\ 0 < i /\ Len(v) - 1 = i
      <3>1. i \in Nat /\ 0 < i
        BY <1>2, <2>1, SequenceLen DEF Grown, Read
      <3> QED BY <2>1, <3>1
    <2>3. Operand(v, n, i, i, 4)
      BY <2>1, <2>2, OperandOne
    <2> QED BY <2>2, <2>3, HoldsOf
  <1> QED BY <1>1, <1>2 DEF Weaker

LEMMA ReadAfterOperand ==
    ASSUME NEW w, NEW m, NEW i, NEW j, Operand(w, m, i, j - 1, 4), j \in Nat
    PROVE  /\ Weaker(IsRead(j, "^"), Whole(i), w, m)
           /\ Weaker(IsRead(j, "("), Within(i), w, m)
  <1>1. \A t : IsRead(j, t).is # "any"
    BY FactFields DEF IsRead
  <1>2. ASSUME NEW v, NEW n, Grown(w, v), More(m, n), NEW t, Holds(IsRead(j, t), v, n)
        PROVE  (t = "^" => Holds(Whole(i), v, n)) /\ (t = "(" => Holds(Within(i), v, n))
    <2>1. j \in DOMAIN v /\ j + 1 = Len(v) /\ v[j] = t
      BY <1>2, HoldsOf
    <2>2. PICK k : k = j - 1
      OBVIOUS
    <2>3. k + 1 = j /\ Len(v) - 1 = k + 1
      BY <2>1, <2>2
    <2>4. Operand(v, n, i, k, 4)
      BY <1>2, <2>2, OperandGrown
    <2>5. t = "^" => Operand(v, n, i, k + 1, 4)
      BY <2>1, <2>3, <2>4, OperandDeref
    <2>6. t = "(" => Inside(v, i, k + 1)
      BY <2>1, <2>3, <2>4, InsideApplied
    <2> QED BY <2>3, <2>5, <2>6, HoldsOf
  <1> QED BY <1>1, <1>2 DEF Weaker

LEMMA ReadWithin ==
    ASSUME NEW w, NEW m, NEW i, i \in DOMAIN w, Turn(w[i]) = 0
    PROVE  Weaker(IsRead(i + 1, "("), Within(i), w, m)
  <1>1. \A t : IsRead(i + 1, t).is # "any"
    BY FactFields DEF IsRead
  <1>2. ASSUME NEW v, NEW n, Grown(w, v), Holds(IsRead(i + 1, "("), v, n)
        PROVE  Holds(Within(i), v, n)
    <2>1. i + 1 \in DOMAIN v /\ (i + 1) + 1 = Len(v) /\ v[i + 1] = "("
      BY <1>2, HoldsOf
    <2>2. i \in DOMAIN v /\ Turn(v[i]) = 0
      BY <1>2 DEF Grown
    <2>3. i \in Nat /\ 0 < i
      BY <1>2, <2>2, SequenceLen DEF Grown, Read
    <2>4. Inside(v, i, i + 1)
      BY <2>1, <2>2, <2>3, InsideFirst
    <2>5. Len(v) - 1 = i + 1
      BY <2>1, <2>3
    <2> QED BY <2>4, <2>5, HoldsOf
  <1> QED BY <1>1, <1>2 DEF Weaker

(* So may a value.                                                         *)
LEMMA ValueLooser ==
    ASSUME NEW w, NEW m, NEW i, NEW l \in 1..4, NEW h \in 1..4, h <= l
    PROVE  Weaker(Value(i, l), Value(i, h), w, m)
  <1>1. Value(i, l).is # "any"
    BY FactFields DEF Value
  <1>2. ASSUME NEW v, NEW n, Valued(v, n, i, l)
        PROVE  Valued(v, n, i, h)
    BY <1>2, OperandLevel DEF Valued
  <1> QED BY <1>1, <1>2, HoldsOf DEF Weaker

LEMMA ValueWithin ==
    ASSUME NEW w, NEW m, NEW i, NEW j \in Nat, Inside(w, i, j - 1)
    PROVE  Weaker(Value(j, 1), Within(i), w, m)
  <1>1. Value(j, 1).is # "any"
    BY FactFields DEF Value
  <1>2. ASSUME NEW v, NEW n, Grown(w, v), Holds(Value(j, 1), v, n)
        PROVE  Holds(Within(i), v, n)
    <2>1. PICK k : k = j - 1
      OBVIOUS
    <2>2. k + 1 = j
      BY <2>1
    <2>3. Operand(v, n, k + 1, Len(v) - 1, 1)
      BY <1>2, <2>2, HoldsOf DEF Valued
    <2>4. Inside(v, i, k)
      BY <1>2, <2>1, InsideGrown
    <2>5. Inside(v, i, Len(v) - 1)
      BY <2>3, <2>4, InsideOperand
    <2> QED BY <2>5, HoldsOf
  <1> QED BY <1>1, <1>2 DEF Weaker

LEMMA ValuePrefixed ==
    ASSUME NEW w, NEW m, NEW i, i \in DOMAIN w, w[i] \in {"-", "NOT"}
    PROVE  Weaker(Value(i + 1, 4), Whole(i), w, m)
  <1>1. Value(i + 1, 4).is # "any"
    BY FactFields DEF Value
  <1>2. ASSUME NEW v, NEW n, Grown(w, v), Holds(Value(i + 1, 4), v, n)
        PROVE  Holds(Whole(i), v, n)
    <2>1. Operand(v, n, i + 1, Len(v) - 1, 4)
      <3>1. Valued(v, n, i + 1, 4)
        BY <1>2, HoldsValue, Zenon
      <3> QED BY <3>1, Zenon DEF Valued
    <2>2. i \in DOMAIN v /\ v[i] \in {"-", "NOT"}
      BY <1>2 DEF Grown
    <2>3. i \in Nat /\ 0 < i
      BY <1>2, <2>2, SequenceLen DEF Grown, Read
    <2>4. Operand(v, n, i, Len(v) - 1, 4)
      BY <2>1, <2>2, <2>3, OperandPrefix
    <2> QED BY <2>4, HoldsOf
  <1> QED BY <1>1, <1>2 DEF Weaker

LEMMA ValueClosing ==
    ASSUME NEW w, NEW m, NEW i, i \in DOMAIN w, w[i] = "("
    PROVE  Weaker(Value(i + 1, 1), Closing(i), w, m)
  <1>1. Value(i + 1, 1).is # "any"
    BY FactFields DEF Value
  <1>2. ASSUME NEW v, NEW n, Grown(w, v), Holds(Value(i + 1, 1), v, n)
        PROVE  Holds(Closing(i), v, n)
    <2>1. i \in DOMAIN v /\ v[i] = "("
      BY <1>2 DEF Grown
    <2> QED BY <1>2, <2>1, HoldsOf
  <1> QED BY <1>1, <1>2 DEF Weaker

LEMMA ValueRight ==
    ASSUME NEW w, NEW m, NEW i, NEW op, HasLeft(w, m, i, op)
    PROVE  Weaker(Value(op.at + 1, op.level + 1), Right(i, op), w, m)
  <1>1. Value(op.at + 1, op.level + 1).is # "any"
    BY FactFields DEF Value
  <1>2. ASSUME NEW v, NEW n, Grown(w, v), More(m, n),
               Holds(Value(op.at + 1, op.level + 1), v, n)
        PROVE  Holds(Right(i, op), v, n)
    <2>1. HasLeft(v, n, i, op)
      BY <1>2, HasLeftGrown
    <2>2. Operand(v, n, op.at + 1, Len(v) - 1, op.level + 1)
      <3>1. Valued(v, n, op.at + 1, op.level + 1)
        BY <1>2, HoldsValue, Zenon
      <3> QED BY <3>1, Zenon DEF Valued
    <2> QED BY <2>1, <2>2, HoldsOf
  <1> QED BY <1>1, <1>2 DEF Weaker

-----------------------------------------------------------------------------
(***************************************************************************)
(* What a goal makes of what is known: the assertions between the goals of *)
(* the expression functions.  The goals of all others are neutral, nothing *)
(* is known between them, and they keep none from being so.                *)
(***************************************************************************)
Levelled == {"Rel", "Add", "Mul", "Unary", "Primary"}
LevelFor(f) == CASE f = "Rel" -> 1 [] f = "Add" -> 2 [] f = "Mul" -> 3 [] OTHER -> 4

(* It is between the members of a list.                                    *)
Separator(t) == /\ Turn(t) = 0 /\ t \notin RelOp \cup ArithmeticOp
                /\ t \notin {"EOF"} \cup Clauses

CallFollows(A, g, B) ==
    \/ A.is = "begins" /\ g.fn \in Levelled /\ B = Value(A.from, LevelFor(g.fn))
    \/ A.is = "within" /\ g.fn \in {"Rel", "Arguments"} /\ B = A
    \/ /\ A.is = "isread" /\ A.of = "x" /\ g.from = A.from
       /\ \/ g.fn = "Applied" /\ B = Value(A.from, 4)
          \/ g.fn = "AfterName" /\ B = Unknown
    \/ /\ A.is = "value" /\ g.from = A.from
       /\ \/ g.fn = "PostfixOp" /\ A.of = 4 /\ B = A
          \/ g.fn = "Assignment" /\ B = Unknown

ExpectFollows(A, g, B) ==
    \/ g.of = {}
    \/ \E t : /\ g.of = {t}
              /\ \/ A.is = "begins" /\ t \notin {"EOF"} \cup Clauses /\ B = IsRead(A.from, t)
                 \/ A.is = "closing" /\ t = ")" /\ B = Value(A.from, 4)
                 \/ A.is = "within" /\ t = ")" /\ B = Whole(A.from)
                 \/ A.is = "within" /\ Separator(t) /\ B = A

LoopFollows(A, g, B) ==
    /\ B = A
    /\ \/ A.is = "within" /\ \E t : Separator(t) /\ g.body = <<Expect(t), Expr>>
       \/ A.is = "value" /\ A.of = 4 /\ g.body = <<CallFrom("PostfixOp", A.from)>>

OperatorsFollows(A, g, B) ==
    /\ A.is = "value" /\ A.of \in 1..3 /\ g.from = A.from /\ B = A
    /\ g.fn \in Levelled /\ LevelFor(g.fn) = A.of + 1
    /\ \A t \in g.of : t \in RelOp \cup ArithmeticOp /\ LevelOf(t) = A.of

NodeFollows(A, g, B) ==
    /\ g.from = A.from
    /\ \/ /\ A.is = "whole" /\ g.kind \notin {"x", "R", "Binary", "Modify"}
          /\ B = Value(A.from, 4)
       \/ /\ A.is = "isread" /\ A.of \in {"x"} \cup Registers /\ g.kind \in {"x", "R"}
          /\ B = Value(A.from, 4)
       \/ /\ A.is = "right" /\ g.kind = "Binary" /\ g.at = A.of.at /\ g.left = A.of.left
          /\ B = Value(A.from, A.of.level)
       \/ A.is = "target" /\ g.kind = "Modify" /\ B = Unknown

Follows(A, g, B) ==
    \/ A.is = "any" /\ Neutral(g) /\ B = Unknown
    \/ /\ A.is # "any"
       /\ \/ g.do = "call" /\ CallFollows(A, g, B)
          \/ g.do = "expect" /\ ExpectFollows(A, g, B)
          \/ g.do = "loop" /\ LoopFollows(A, g, B)
          \/ g.do = "operators" /\ OperatorsFollows(A, g, B)
          \/ g.do = "node" /\ NodeFollows(A, g, B)

Rule(A, g, B, w, m) == \E C : Follows(A, g, C) /\ Weaker(C, B, w, m)

(* The goals s lead from D to F.                                           *)
Path(D, s, F, w, m) ==
    \E A : /\ A[1] = D /\ A[Len(s) + 1] = F
           /\ \A k \in DOMAIN s : Rule(A[k], s[k], A[k + 1], w, m)

(* They lead to F from something that is known.                            *)
Runs(s, F, w, m) == \E D : Holds(D, w, m) /\ Path(D, s, F, w, m)

LEMMA RuleGrown ==
    ASSUME NEW w, NEW v, Grown(w, v), NEW m, NEW n, More(m, n)
    PROVE  /\ \A A, g, B : Rule(A, g, B, w, m) => Rule(A, g, B, v, n)
           /\ \A D, s, F : Path(D, s, F, w, m) => Path(D, s, F, v, n)
  <1>1. \A A, g, B : Rule(A, g, B, w, m) => Rule(A, g, B, v, n)
    BY WeakerBasics DEF Rule
  <1>2. \A D, s, F : Path(D, s, F, w, m) => Path(D, s, F, v, n)
    BY <1>1 DEF Path
  <1> QED BY <1>1, <1>2

LEMMA RuleWeaker ==
    ASSUME NEW w, NEW m
    PROVE  /\ \A A, g, B : Follows(A, g, B) => Rule(A, g, B, w, m)
           /\ \A A, g, B, C : Follows(A, g, C) /\ Weaker(C, B, w, m) => Rule(A, g, B, w, m)
           /\ \A A, g, B, C : Rule(A, g, B, w, m) /\ Weaker(B, C, w, m)
                                => Rule(A, g, C, w, m)
  BY WeakerBasics DEF Rule

(* Two parts.                                                              *)
LEMMA PathJoin ==
    ASSUME NEW w, NEW m, NEW s, NEW t, Sequence(s), Sequence(t), NEW D, NEW B, NEW F,
           Path(D, s, B, w, m), Path(B, t, F, w, m)
    PROVE  Path(D, s \o t, F, w, m)
  <1>1. PICK A1 : /\ A1[1] = D /\ A1[Len(s) + 1] = B
                  /\ \A k \in DOMAIN s : Rule(A1[k], s[k], A1[k + 1], w, m)
    BY DEF Path
  <1>2. PICK A2 : /\ A2[1] = B /\ A2[Len(t) + 1] = F
                  /\ \A k \in DOMAIN t : Rule(A2[k], t[k], A2[k + 1], w, m)
    BY DEF Path
  <1>3. PICK a \in Nat : a = Len(s) /\ DOMAIN s = 1..a
    BY SequenceLen
  <1>4. PICK b \in Nat : b = Len(t) /\ DOMAIN t = 1..b
    BY SequenceLen
  <1>5. PICK u : u = s \o t
    OBVIOUS
  <1>6. /\ Sequence(u) /\ Len(u) = a + b
        /\ \A i \in DOMAIN u : \/ i \in DOMAIN s /\ u[i] = s[i]
                               \/ i - a \in DOMAIN t /\ u[i] = t[i - a]
    BY <1>3, <1>4, <1>5, SequenceConcat
  <1>7. DOMAIN u = 1..a + b
    BY <1>6, SequenceLen
  <1>8. PICK A : A = [k \in 1..a + b + 1 |-> IF k <= a THEN A1[k] ELSE A2[k - a]]
    OBVIOUS
  <1>9. \A k \in 1..a + 1 : A[k] = A1[k]
    <2> TAKE k \in 1..a + 1
    <2>1. CASE k <= a
      BY <1>8, <2>1
    <2>2. CASE k = a + 1
      <3>1. A[k] = A2[k - a] /\ k - a = 1
        BY <1>8, <2>2
      <3> QED BY <1>1, <1>2, <1>3, <2>2, <3>1
    <2> QED BY <2>1, <2>2
  <1>10. \A k \in 1..b + 1 : A[a + k] = A2[k]
    BY <1>8
  <1>11. A[1] = D /\ A[a + b + 1] = F
    <2>1. A[1] = D
      BY <1>1, <1>9
    <2>2. A[a + (b + 1)] = F
      BY <1>2, <1>4, <1>10
    <2> QED BY <2>1, <2>2
  <1>12. ASSUME NEW k \in DOMAIN u
         PROVE  Rule(A[k], u[k], A[k + 1], w, m)
    <2>1. CASE k \in DOMAIN s /\ u[k] = s[k]
      <3>1. A[k] = A1[k] /\ A[k + 1] = A1[k + 1]
        BY <1>3, <1>9, <2>1
      <3> QED BY <1>1, <2>1, <3>1
    <2>2. CASE k - a \in DOMAIN t /\ u[k] = t[k - a]
      <3>1. PICK j : j = k - a
        OBVIOUS
      <3>2. j \in 1..b /\ k = a + j /\ k + 1 = a + (j + 1)
        BY <1>4, <1>7, <2>2, <3>1
      <3>3. A[a + j] = A2[j] /\ A[a + (j + 1)] = A2[j + 1]
        BY <1>10, <3>2
      <3>4. A[k] = A2[j] /\ A[k + 1] = A2[j + 1]
        BY <3>2, <3>3
      <3>5. Rule(A2[j], t[j], A2[j + 1], w, m) /\ u[k] = t[j]
        BY <1>2, <2>2, <3>1
      <3> QED BY <3>4, <3>5
    <2> QED BY <1>6, <2>1, <2>2
  <1>13. Path(D, u, F, w, m)
    <2>1. Len(u) + 1 = a + b + 1
      BY <1>6
    <2> QED BY <1>11, <1>12, <2>1 DEF Path
  <1> QED BY <1>5, <1>13

LEMMA PathTail ==
    ASSUME NEW w, NEW m, NEW s, Sequence(s), s # <<>>, NEW D, NEW F, Path(D, s, F, w, m)
    PROVE  \E B : Rule(D, s[1], B, w, m) /\ Path(B, Tail(s), F, w, m)
  <1>1. PICK A : /\ A[1] = D /\ A[Len(s) + 1] = F
                 /\ \A k \in DOMAIN s : Rule(A[k], s[k], A[k + 1], w, m)
    BY DEF Path
  <1>2. PICK n \in Nat : n = Len(s) /\ DOMAIN s = 1..n /\ n # 0
    BY SequenceLen
  <1>3. PICK t : t = Tail(s)
    OBVIOUS
  <1>4. /\ Sequence(t) /\ Len(t) = n - 1 /\ DOMAIN t = 1..n - 1
        /\ \A i \in DOMAIN t : i + 1 \in DOMAIN s /\ t[i] = s[i + 1]
    BY <1>2, <1>3, SequenceTail
  <1>5. PICK C : C = [k \in 1..n |-> A[k + 1]]
    OBVIOUS
  <1>6. \A k \in 1..n : C[k] = A[k + 1]
    BY <1>5
  <1>7. C[1] = A[2] /\ C[n] = F
    BY <1>1, <1>2, <1>6
  <1>8. ASSUME NEW k \in DOMAIN t
        PROVE  Rule(C[k], t[k], C[k + 1], w, m)
    <2>1. PICK j : j = k + 1
      OBVIOUS
    <2>2. j \in DOMAIN s /\ t[k] = s[j]
      BY <1>4, <2>1
    <2>3. C[k] = A[j] /\ C[j] = A[j + 1]
      BY <1>2, <1>4, <1>6, <2>1
    <2> QED BY <1>1, <2>1, <2>2, <2>3
  <1>9. Path(A[2], t, F, w, m)
    <2>1. Len(t) + 1 = n
      BY <1>2, <1>4
    <2> QED BY <1>7, <1>8, <2>1 DEF Path
  <1>10. Rule(D, s[1], A[2], w, m)
    <2>1. 1 \in DOMAIN s /\ 1 + 1 = 2
      BY <1>2
    <2> QED BY <1>1, <2>1
  <1> QED BY <1>3, <1>9, <1>10

(* Goals that are written out.                                             *)
LEMMA Path1 ==
    ASSUME NEW w, NEW m, NEW A0, NEW A1,
           NEW g1,
           Rule(A0, g1, A1, w, m)
    PROVE  Path(A0, <<g1>>, A1, w, m)
  <1>1. PICK s : s = <<g1>>
    OBVIOUS
  <1>2. Sequence(s) /\ DOMAIN s = {1} /\ Len(s) = 1
    BY <1>1, Tuple1
  <1>3. s[1] = g1
    BY <1>1
  <1>4. PICK A : A = <<A0, A1>>
    OBVIOUS
  <1>5. A[1] = A0 /\ A[2] = A1
    BY <1>4
  <1>6. \A k \in DOMAIN s : Rule(A[k], s[k], A[k + 1], w, m)
    BY <1>2, <1>3, <1>5
  <1>7. A[Len(s) + 1] = A1
    BY <1>2, <1>5
  <1>8. Path(A0, s, A1, w, m)
    BY <1>5, <1>6, <1>7 DEF Path
  <1> QED BY <1>1, <1>8

LEMMA Path2 ==
    ASSUME NEW w, NEW m, NEW A0, NEW A1, NEW A2,
           NEW g1, NEW g2,
           Rule(A0, g1, A1, w, m), Rule(A1, g2, A2, w, m)
    PROVE  Path(A0, <<g1, g2>>, A2, w, m)
  <1>1. PICK s : s = <<g1, g2>>
    OBVIOUS
  <1>2. Sequence(s) /\ DOMAIN s = {1, 2} /\ Len(s) = 2
    BY <1>1, Tuple2
  <1>3. s[1] = g1 /\ s[2] = g2
    BY <1>1
  <1>4. PICK A : A = <<A0, A1, A2>>
    OBVIOUS
  <1>5. A[1] = A0 /\ A[2] = A1 /\ A[3] = A2
    BY <1>4
  <1>6. \A k \in DOMAIN s : Rule(A[k], s[k], A[k + 1], w, m)
    BY <1>2, <1>3, <1>5
  <1>7. A[Len(s) + 1] = A2
    BY <1>2, <1>5
  <1>8. Path(A0, s, A2, w, m)
    BY <1>5, <1>6, <1>7 DEF Path
  <1> QED BY <1>1, <1>8

LEMMA Path3 ==
    ASSUME NEW w, NEW m, NEW A0, NEW A1, NEW A2, NEW A3,
           NEW g1, NEW g2, NEW g3,
           Rule(A0, g1, A1, w, m), Rule(A1, g2, A2, w, m),
           Rule(A2, g3, A3, w, m)
    PROVE  Path(A0, <<g1, g2, g3>>, A3, w, m)
  <1>1. PICK s : s = <<g1, g2, g3>>
    OBVIOUS
  <1>2. Sequence(s) /\ DOMAIN s = {1, 2, 3} /\ Len(s) = 3
    BY <1>1, Tuple3
  <1>3. s[1] = g1 /\ s[2] = g2 /\ s[3] = g3
    BY <1>1
  <1>4. PICK A : A = <<A0, A1, A2, A3>>
    OBVIOUS
  <1>5. A[1] = A0 /\ A[2] = A1 /\ A[3] = A2 /\ A[4] = A3
    BY <1>4
  <1>6. \A k \in DOMAIN s : Rule(A[k], s[k], A[k + 1], w, m)
    BY <1>2, <1>3, <1>5
  <1>7. A[Len(s) + 1] = A3
    BY <1>2, <1>5
  <1>8. Path(A0, s, A3, w, m)
    BY <1>5, <1>6, <1>7 DEF Path
  <1> QED BY <1>1, <1>8

LEMMA Path4 ==
    ASSUME NEW w, NEW m, NEW A0, NEW A1, NEW A2, NEW A3, NEW A4,
           NEW g1, NEW g2, NEW g3, NEW g4,
           Rule(A0, g1, A1, w, m), Rule(A1, g2, A2, w, m),
           Rule(A2, g3, A3, w, m), Rule(A3, g4, A4, w, m)
    PROVE  Path(A0, <<g1, g2, g3, g4>>, A4, w, m)
  <1>1. PICK s : s = <<g1, g2, g3, g4>>
    OBVIOUS
  <1>2. Sequence(s) /\ DOMAIN s = {1, 2, 3, 4} /\ Len(s) = 4
    BY <1>1, Tuple4
  <1>3. s[1] = g1 /\ s[2] = g2 /\ s[3] = g3 /\ s[4] = g4
    BY <1>1
  <1>4. PICK A : A = <<A0, A1, A2, A3, A4>>
    OBVIOUS
  <1>5. A[1] = A0 /\ A[2] = A1 /\ A[3] = A2 /\ A[4] = A3 /\ A[5] = A4
    BY <1>4
  <1>6. \A k \in DOMAIN s : Rule(A[k], s[k], A[k + 1], w, m)
    BY <1>2, <1>3, <1>5
  <1>7. A[Len(s) + 1] = A4
    BY <1>2, <1>5
  <1>8. Path(A0, s, A4, w, m)
    BY <1>5, <1>6, <1>7 DEF Path
  <1> QED BY <1>1, <1>8

LEMMA Path6 ==
    ASSUME NEW w, NEW m, NEW A0, NEW A1, NEW A2, NEW A3, NEW A4, NEW A5, NEW A6,
           NEW g1, NEW g2, NEW g3, NEW g4, NEW g5, NEW g6,
           Rule(A0, g1, A1, w, m), Rule(A1, g2, A2, w, m),
           Rule(A2, g3, A3, w, m), Rule(A3, g4, A4, w, m),
           Rule(A4, g5, A5, w, m), Rule(A5, g6, A6, w, m)
    PROVE  Path(A0, <<g1, g2, g3, g4, g5, g6>>, A6, w, m)
  <1>1. PICK s : s = <<g1, g2, g3, g4, g5, g6>>
    OBVIOUS
  <1>2. Sequence(s) /\ DOMAIN s = {1, 2, 3, 4, 5, 6} /\ Len(s) = 6
    BY <1>1, Tuple6
  <1>3. s[1] = g1 /\ s[2] = g2 /\ s[3] = g3 /\ s[4] = g4 /\ s[5] = g5 /\ s[6] = g6
    BY <1>1
  <1>4. PICK A : A = <<A0, A1, A2, A3, A4, A5, A6>>
    OBVIOUS
  <1>5. A[1] = A0 /\ A[2] = A1 /\ A[3] = A2 /\ A[4] = A3 /\ A[5] = A4 /\ A[6] = A5 /\ A[7] = A6
    BY <1>4
  <1>6. \A k \in DOMAIN s : Rule(A[k], s[k], A[k + 1], w, m)
    BY <1>2, <1>3, <1>5
  <1>7. A[Len(s) + 1] = A6
    BY <1>2, <1>5
  <1>8. Path(A0, s, A6, w, m)
    BY <1>5, <1>6, <1>7 DEF Path
  <1> QED BY <1>1, <1>8

(* Where nothing is known.                                                 *)
LEMMA PathNone ==
    ASSUME NEW w, NEW m, NEW D
    PROVE  Path(D, <<>>, D, w, m)
  <1>1. PICK s : s = <<>>
    OBVIOUS
  <1>2. DOMAIN s = {} /\ Len(s) = 0
    BY <1>1
  <1>3. PICK A : A = <<D>>
    OBVIOUS
  <1>4. A[1] = D
    BY <1>3
  <1>5. Path(D, s, D, w, m)
    BY <1>2, <1>4 DEF Path
  <1> QED BY <1>1, <1>5

LEMMA PathNeutral ==
    ASSUME NEW w, NEW m, NEW s, Sequence(s), Neutrals(s)
    PROVE  Path(Unknown, s, Unknown, w, m)
  <1>1. \A g : Neutral(g) => Rule(Unknown, g, Unknown, w, m)
    <2>1. Unknown.is = "any"
      BY FactFields DEF Unknown
    <2> QED BY <2>1, RuleWeaker DEF Follows
  <1>2. PICK n \in Nat : n = Len(s) /\ DOMAIN s = 1..n
    BY SequenceLen
  <1>3. PICK A : A = [k \in 1..n + 1 |-> Unknown]
    OBVIOUS
  <1>4. \A k \in 1..n + 1 : A[k] = Unknown
    BY <1>3
  <1>5. \A k \in DOMAIN s : A[k] = Unknown /\ A[k + 1] = Unknown
    BY <1>2, <1>4
  <1>6. A[1] = Unknown /\ A[Len(s) + 1] = Unknown
    BY <1>2, <1>4
  <1> QED BY <1>1, <1>5, <1>6 DEF Path, Neutrals

LEMMA PathAny ==
    ASSUME NEW w, NEW m, NEW s, Sequence(s), NEW D, D.is = "any", NEW F, Path(D, s, F, w, m)
    PROVE  Neutrals(s)
  <1>1. PICK A : /\ A[1] = D
                 /\ \A k \in DOMAIN s : Rule(A[k], s[k], A[k + 1], w, m)
    BY DEF Path
  <1>2. \A k \in DOMAIN s : A[k].is = "any" => Neutral(s[k]) /\ A[k + 1].is = "any"
    <2>1. Unknown.is = "any"
      BY FactFields DEF Unknown
    <2> QED BY <1>1, <2>1 DEF Rule, Follows, Weaker
  <1>3. PICK n \in Nat : DOMAIN s = 1..n
    BY SequenceLen
  <1> DEFINE other == {k \in 1..n : A[k].is # "any"}
  <1>4. other = {}
    <2> SUFFICES ASSUME other # {}
                 PROVE  FALSE
      OBVIOUS
    <2>1. other \in SUBSET Nat
      OBVIOUS
    <2>2. PICK k : k = Min(other)
      OBVIOUS
    <2>3. k \in other /\ \A x \in other : k <= x
      <3> HIDE DEF other
      <3> QED BY <2>1, <2>2, MinProperties
    <2>4. k # 1
      BY <1>1, <2>3
    <2>5. PICK j : j = k - 1
      OBVIOUS
    <2>6. j \in 1..n /\ j + 1 = k /\ ~(k <= j)
      BY <2>3, <2>4, <2>5
    <2>7. A[j].is = "any"
      BY <2>3, <2>6
    <2>8. A[j + 1].is = "any"
      BY <1>2, <1>3, <2>6, <2>7
    <2> QED BY <2>3, <2>6, <2>8
  <1>5. \A k \in 1..n : A[k].is = "any"
    BY <1>4
  <1> QED BY <1>2, <1>3, <1>5 DEF Neutrals

(* What may be passed by changes nothing.                                  *)
LEMMA PathPass ==
    ASSUME NEW w, NEW m, Read(w), Sequence(m), NEW s, Sequence(s), NEW n \in 1..Len(s),
           NEW D, Holds(D, w, m), NEW F, Path(D, s, F, w, m),
           \A k \in DOMAIN s : k < n => s[k].do \in {"match", "loop", "operators"}
    PROVE  Runs(SubSeq(s, n, Len(s)), F, w, m)
  <1>1. PICK A : /\ A[1] = D /\ A[Len(s) + 1] = F
                 /\ \A k \in DOMAIN s : Rule(A[k], s[k], A[k + 1], w, m)
    BY DEF Path
  <1>2. PICK l \in Nat : l = Len(s) /\ DOMAIN s = 1..l
    BY SequenceLen
  <1>3. Grown(w, w) /\ More(m, m)
    BY Growing
  <1>4. ASSUME NEW k \in DOMAIN s, k < n, Holds(A[k], w, m)
        PROVE  Holds(A[k + 1], w, m)
    <2>1. s[k].do \in {"match", "loop", "operators"}
      BY <1>4
    <2>2. PICK C : Follows(A[k], s[k], C) /\ Weaker(C, A[k + 1], w, m)
      BY <1>1 DEF Rule
    <2>3. C = A[k] \/ C = Unknown
      BY <2>1, <2>2 DEF Follows, LoopFollows, OperatorsFollows
    <2>4. Holds(C, w, m)
      BY <1>4, <2>3 DEF Holds, Unknown, Fact
    <2> QED BY <1>3, <2>2, <2>4 DEF Weaker
  <1> DEFINE other == {k \in 1..n : ~Holds(A[k], w, m)}
  <1>5. other = {}
    <2> SUFFICES ASSUME other # {}
                 PROVE  FALSE
      OBVIOUS
    <2>1. other \in SUBSET Nat
      OBVIOUS
    <2>2. PICK k : k = Min(other)
      OBVIOUS
    <2>3. k \in other /\ \A x \in other : k <= x
      <3> HIDE DEF other
      <3> QED BY <2>1, <2>2, MinProperties
    <2>4. k # 1
      BY <1>1, <2>3
    <2>5. PICK j : j = k - 1
      OBVIOUS
    <2>6. j \in 1..n /\ j + 1 = k /\ ~(k <= j) /\ j < n /\ j \in DOMAIN s
      BY <1>2, <2>3, <2>4, <2>5
    <2>7. Holds(A[j], w, m)
      BY <2>3, <2>6
    <2>8. Holds(A[j + 1], w, m)
      BY <1>4, <2>6, <2>7
    <2> QED BY <2>3, <2>6, <2>8
  <1>6. Holds(A[n], w, m)
    BY <1>2, <1>5
  <1>7. PICK S : s \in Seq(S)
    BY DEF Sequence
  <1>8. PICK t : t = SubSeq(s, n, Len(s))
    OBVIOUS
  <1>9. /\ Len(t) = l - n + 1 /\ DOMAIN t = 1..l - n + 1
        /\ \A i \in 1..l - n + 1 : t[i] = s[n + i - 1]
    <2>1. t \in Seq(S) /\ Len(t) = l - n + 1
      BY <1>2, <1>7, <1>8, SubSeqProperties
    <2>2. \A i \in 1..l - n + 1 : t[i] = s[n + i - 1]
      BY <1>2, <1>7, <1>8, SubSeqProperties
    <2> QED BY <2>1, <2>2
  <1>10. PICK C : C = [k \in 1..l - n + 2 |-> A[n + k - 1]]
    OBVIOUS
  <1>11. \A k \in 1..l - n + 2 : C[k] = A[n + k - 1]
    BY <1>10
  <1>12. C[1] = A[n] /\ C[l - n + 2] = F
    <2>1. 1 \in 1..l - n + 2 /\ n + 1 - 1 = n
      BY <1>2
    <2>2. l - n + 2 \in 1..l - n + 2 /\ n + (l - n + 2) - 1 = l + 1
      BY <1>2
    <2> QED BY <1>1, <1>2, <1>11, <2>1, <2>2
  <1>13. ASSUME NEW k \in DOMAIN t
         PROVE  Rule(C[k], t[k], C[k + 1], w, m)
    <2>1. PICK j : j = n + k - 1
      OBVIOUS
    <2>2. k \in 1..l - n + 1 /\ k \in 1..l - n + 2 /\ k + 1 \in 1..l - n + 2
          /\ n + (k + 1) - 1 = j + 1
      BY <1>2, <1>9, <2>1
    <2>3. C[k] = A[j] /\ C[k + 1] = A[j + 1] /\ t[k] = s[j]
      BY <1>9, <1>11, <2>1, <2>2
    <2>4. j \in DOMAIN s
      BY <1>2, <2>1, <2>2
    <2> QED BY <1>1, <2>3, <2>4
  <1>14. Path(C[1], t, F, w, m)
    <2>1. Len(t) + 1 = l - n + 2
      BY <1>2, <1>9
    <2> QED BY <1>12, <1>13, <2>1 DEF Path
  <1>15. Holds(C[1], w, m)
    BY <1>6, <1>12
  <1> QED BY <1>8, <1>14, <1>15 DEF Runs

(* What a body does, and then the rest.                                    *)
LEMMA RunsJoin ==
    ASSUME NEW w, NEW m, Read(w), Sequence(m), NEW s, NEW t, Sequence(s), Sequence(t),
           NEW C, Runs(s, C, w, m), NEW B, Weaker(C, B, w, m), NEW F, Path(B, t, F, w, m)
    PROVE  Runs(s \o t, F, w, m)
  <1>1. PICK D : Holds(D, w, m) /\ Path(D, s, C, w, m)
    BY DEF Runs
  <1>2. CASE s = <<>>
    <2>1. D = C
      <3>1. Len(s) = 0
        BY <1>2
      <3> QED BY <1>1, <3>1 DEF Path
    <2>2. Holds(B, w, m)
      BY <1>1, <2>1, Growing DEF Weaker
    <2>3. Path(B, s, B, w, m)
      BY <1>2, PathNone
    <2>4. Path(B, s \o t, F, w, m)
      BY <2>3, PathJoin
    <2> QED BY <2>2, <2>4 DEF Runs
  <1>3. CASE s # <<>>
    <2>1. PICK A : /\ A[1] = D /\ A[Len(s) + 1] = C
                   /\ \A k \in DOMAIN s : Rule(A[k], s[k], A[k + 1], w, m)
      BY <1>1 DEF Path
    <2>2. PICK n \in Nat : n = Len(s) /\ DOMAIN s = 1..n /\ n # 0
      BY <1>3, SequenceLen
    <2>3. PICK Z : Z = [k \in 1..n + 1 |-> IF k = n + 1 THEN B ELSE A[k]]
      OBVIOUS
    <2>4. Z[n + 1] = B /\ \A k \in 1..n : Z[k] = A[k]
      BY <2>3
    <2>5. ASSUME NEW k \in DOMAIN s
          PROVE  Rule(Z[k], s[k], Z[k + 1], w, m)
      <3>1. Rule(Z[k], s[k], A[k + 1], w, m)
        BY <2>1, <2>2, <2>4
      <3>2. CASE k = n
        <4>1. Rule(Z[k], s[k], C, w, m)
          BY <2>1, <2>2, <3>1, <3>2
        <4>2. Rule(Z[k], s[k], B, w, m)
          BY <4>1, RuleWeaker
        <4> QED BY <2>4, <3>2, <4>2
      <3>3. CASE k # n
        <4>1. k + 1 \in 1..n
          BY <2>2, <3>3
        <4>2. Z[k + 1] = A[k + 1]
          BY <2>4, <4>1
        <4> QED BY <3>1, <4>2
      <3> QED BY <3>2, <3>3
    <2>6. Z[1] = D /\ Z[Len(s) + 1] = B
      BY <2>1, <2>2, <2>4
    <2>7. Path(D, s, B, w, m)
      BY <2>5, <2>6 DEF Path
    <2>8. Path(D, s \o t, F, w, m)
      BY <2>7, PathJoin
    <2> QED BY <1>1, <2>8 DEF Runs
  <1> QED BY <1>2, <1>3

LEMMA RunsFirst ==
    ASSUME NEW w, NEW m, NEW s, Sequence(s), s # <<>>, NEW F, Runs(s, F, w, m)
    PROVE  \E D, C, B : /\ Holds(D, w, m) /\ Follows(D, s[1], C) /\ Weaker(C, B, w, m)
                        /\ Path(B, Tail(s), F, w, m)
  <1>1. PICK D : Holds(D, w, m) /\ Path(D, s, F, w, m)
    BY DEF Runs
  <1>2. PICK B : Rule(D, s[1], B, w, m) /\ Path(B, Tail(s), F, w, m)
    BY <1>1, PathTail
  <1> QED BY <1>1, <1>2 DEF Rule

-----------------------------------------------------------------------------
(***************************************************************************)
(* The expression functions lead from what is known when they are entered  *)
(* to what is known of an operand.                                         *)
(***************************************************************************)
LEMMA FollowsCall ==
    ASSUME NEW i
    PROVE  /\ \A f \in Levelled : Follows(Begins(i), Call(f), Value(i, LevelFor(f)))
           /\ Follows(Within(i), Expr, Within(i))
           /\ Follows(Within(i), Call("Arguments"), Within(i))
           /\ Follows(IsRead(i, "x"), CallFrom("Applied", i), Value(i, 4))
           /\ Follows(IsRead(i, "x"), CallFrom("AfterName", i), Unknown)
           /\ Follows(Value(i, 4), CallFrom("PostfixOp", i), Value(i, 4))
           /\ \A l : Follows(Value(i, l), CallFrom("Assignment", i), Unknown)
  <1>1. \A f, j : /\ CallFrom(f, j).do = "call" /\ CallFrom(f, j).fn = f
                  /\ CallFrom(f, j).from = j
    BY DEF CallFrom
  <1>2. ASSUME NEW f \in Levelled
        PROVE  Follows(Begins(i), Call(f), Value(i, LevelFor(f)))
    BY <1>1, FactFields DEF Follows, CallFollows, Begins, Call
  <1>3. ASSUME NEW f \in {"Rel", "Arguments"}
        PROVE  Follows(Within(i), Call(f), Within(i))
    BY <1>1, FactFields DEF Follows, CallFollows, Within, Call
  <1>4. ASSUME NEW l
        PROVE  Follows(Value(i, l), CallFrom("Assignment", i), Unknown)
    BY <1>1, FactFields DEF Follows, CallFollows, Value
  <1>5. Follows(Value(i, 4), CallFrom("PostfixOp", i), Value(i, 4))
    BY <1>1, FactFields DEF Follows, CallFollows, Value
  <1>6. /\ Follows(IsRead(i, "x"), CallFrom("Applied", i), Value(i, 4))
        /\ Follows(IsRead(i, "x"), CallFrom("AfterName", i), Unknown)
    BY <1>1, FactFields DEF Follows, CallFollows, IsRead
  <1> QED BY <1>2, <1>3, <1>4, <1>5, <1>6 DEF Expr

LEMMA FollowsExpect ==
    ASSUME NEW i
    PROVE  /\ \A t : t \notin {"EOF"} \cup Clauses
                       => Follows(Begins(i), Expect(t), IsRead(i, t))
           /\ Follows(Closing(i), Expect(")"), Value(i, 4))
           /\ Follows(Within(i), Expect(")"), Whole(i))
           /\ \A t : Separator(t) => Follows(Within(i), Expect(t), Within(i))
           /\ \A A, B : A.is # "any" => Follows(A, ExpectAny({}), B)
  <1>1. \A ts : ExpectAny(ts).do = "expect" /\ ExpectAny(ts).of = ts
    BY DEF ExpectAny
  <1>2. ASSUME NEW t, t \notin {"EOF"} \cup Clauses
        PROVE  Follows(Begins(i), Expect(t), IsRead(i, t))
    BY <1>1, <1>2, FactFields DEF Follows, ExpectFollows, Begins, Expect
  <1>3. Follows(Closing(i), Expect(")"), Value(i, 4))
    BY <1>1, FactFields DEF Follows, ExpectFollows, Closing, Expect
  <1>4. Follows(Within(i), Expect(")"), Whole(i))
    BY <1>1, FactFields DEF Follows, ExpectFollows, Within, Expect
  <1>5. ASSUME NEW t, Separator(t)
        PROVE  Follows(Within(i), Expect(t), Within(i))
    BY <1>1, <1>5, FactFields DEF Follows, ExpectFollows, Within, Expect
  <1>6. ASSUME NEW A, NEW B, A.is # "any"
        PROVE  Follows(A, ExpectAny({}), B)
    BY <1>1, <1>6 DEF Follows, ExpectFollows
  <1> QED BY <1>2, <1>3, <1>4, <1>5, <1>6

LEMMA FollowsLoop ==
    ASSUME NEW i
    PROVE  /\ \A t, ts : Separator(t)
                => Follows(Within(i), Loop(ts, <<Expect(t), Expr>>), Within(i))
           /\ Follows(Value(i, 4), PostfixOps(i), Value(i, 4))
           /\ Follows(Value(i, 1), Operators(RelOp, "Add", i), Value(i, 1))
           /\ Follows(Value(i, 2), Operators(AddOp, "Mul", i), Value(i, 2))
           /\ Follows(Value(i, 3), Operators(MulOp, "Unary", i), Value(i, 3))
  <1>1. \A ts, b : Loop(ts, b).do = "loop" /\ Loop(ts, b).body = b
    BY DEF Loop
  <1>2. ASSUME NEW t, NEW ts, Separator(t)
        PROVE  Follows(Within(i), Loop(ts, <<Expect(t), Expr>>), Within(i))
    <2>1. PICK b : b = <<Expect(t), Expr>>
      OBVIOUS
    <2>2. LoopFollows(Within(i), Loop(ts, b), Within(i))
      BY <1>1, <1>2, <2>1, FactFields DEF LoopFollows, Within
    <2> QED BY <1>1, <2>1, <2>2, FactFields DEF Follows, Within
  <1>3. Follows(Value(i, 4), PostfixOps(i), Value(i, 4))
    BY <1>1, FactFields DEF Follows, LoopFollows, Value, PostfixOps
  <1>4. ASSUME NEW ts, NEW f \in Levelled, NEW l \in 1..3, LevelFor(f) = l + 1,
               \A t \in ts : t \in RelOp \cup ArithmeticOp /\ LevelOf(t) = l
        PROVE  Follows(Value(i, l), Operators(ts, f, i), Value(i, l))
    <2>1. /\ Operators(ts, f, i).do = "operators" /\ Operators(ts, f, i).fn = f
          /\ Operators(ts, f, i).from = i /\ Operators(ts, f, i).of = ts
      BY DEF Operators
    <2>2. OperatorsFollows(Value(i, l), Operators(ts, f, i), Value(i, l))
      BY <1>4, <2>1, FactFields DEF OperatorsFollows, Value
    <2> QED BY <2>1, <2>2, FactFields DEF Follows, Value
  <1>5. /\ "Add" \in Levelled /\ LevelFor("Add") = 1 + 1
        /\ "Mul" \in Levelled /\ LevelFor("Mul") = 2 + 1
        /\ "Unary" \in Levelled /\ LevelFor("Unary") = 3 + 1
    BY DEF Levelled, LevelFor
  <1>6. /\ \A t \in RelOp : t \in RelOp \cup ArithmeticOp /\ LevelOf(t) = 1
        /\ \A t \in AddOp : t \in RelOp \cup ArithmeticOp /\ LevelOf(t) = 2
        /\ \A t \in MulOp : t \in RelOp \cup ArithmeticOp /\ LevelOf(t) = 3
    BY DEF RelOp, ArithmeticOp, AddOp, MulOp, LevelOf
  <1>7. 1 \in 1..3 /\ 2 \in 1..3 /\ 3 \in 1..3
    OBVIOUS
  <1>8. Follows(Value(i, 1), Operators(RelOp, "Add", i), Value(i, 1))
    BY <1>4, <1>5, <1>6, <1>7
  <1>9. Follows(Value(i, 2), Operators(AddOp, "Mul", i), Value(i, 2))
    BY <1>4, <1>5, <1>6, <1>7
  <1>10. Follows(Value(i, 3), Operators(MulOp, "Unary", i), Value(i, 3))
    BY <1>4, <1>5, <1>6, <1>7
  <1> QED BY <1>2, <1>3, <1>8, <1>9, <1>10

LEMMA FollowsNode ==
    ASSUME NEW i
    PROVE  /\ \A k : k \notin {"x", "R", "Binary", "Modify"}
                       => Follows(Whole(i), NodeFrom(k, i), Value(i, 4))
           /\ \A t \in {"x"} \cup Registers : \A k \in {"x", "R"} :
                  Follows(IsRead(i, t), NodeFrom(k, i), Value(i, 4))
           /\ Follows(Target(i), NodeFrom("Modify", i), Unknown)
           /\ \A op : Follows(Right(i, op), [do |-> "node", kind |-> "Binary", from |-> i,
                                             at |-> op.at, left |-> op.left],
                              Value(i, op.level))
  <1>1. \A k : /\ NodeFrom(k, i).do = "node" /\ NodeFrom(k, i).kind = k
               /\ NodeFrom(k, i).from = i
    BY DEF NodeFrom
  <1>2. ASSUME NEW k, k \notin {"x", "R", "Binary", "Modify"}
        PROVE  Follows(Whole(i), NodeFrom(k, i), Value(i, 4))
    BY <1>1, <1>2, FactFields DEF Follows, NodeFollows, Whole
  <1>3. ASSUME NEW t \in {"x"} \cup Registers, NEW k \in {"x", "R"}
        PROVE  Follows(IsRead(i, t), NodeFrom(k, i), Value(i, 4))
    BY <1>1, <1>3, FactFields DEF Follows, NodeFollows, IsRead
  <1>4. Follows(Target(i), NodeFrom("Modify", i), Unknown)
    BY <1>1, FactFields DEF Follows, NodeFollows, Target
  <1>5. ASSUME NEW op
        PROVE  Follows(Right(i, op), [do |-> "node", kind |-> "Binary", from |-> i,
                                      at |-> op.at, left |-> op.left],
                       Value(i, op.level))
    <2>1. PICK g : g = [do |-> "node", kind |-> "Binary", from |-> i,
                        at |-> op.at, left |-> op.left]
      OBVIOUS
    <2>2. /\ g.do = "node" /\ g.kind = "Binary" /\ g.from = i /\ g.at = op.at
          /\ g.left = op.left
      BY <2>1
    <2>3. NodeFollows(Right(i, op), g, Value(i, op.level))
      BY <2>2, FactFields DEF NodeFollows, Right
    <2>4. Follows(Right(i, op), g, Value(i, op.level))
      BY <2>2, <2>3, FactFields DEF Follows, Right
    <2> QED BY <2>1, <2>4
  <1> QED BY <1>2, <1>3, <1>4, <1>5

LEMMA CurrentToken ==
    ASSUME Read(toks)
    PROVE  Pos \in DOMAIN toks /\ Pos \in Nat /\ Pos # 0 /\ Pos = Len(toks) /\ Cur = toks[Pos]
  <1>1. Pos = Len(toks)
    BY DEF Pos
  <1> QED BY <1>1, SequenceLen DEF Read, Cur

(* Operands of operators.                                                  *)
LEMMA OperandBodies ==
    ASSUME Read(toks)
    PROVE  /\ Path(Begins(Pos), ParseRelExpr, Value(Pos, 1), toks, made)
           /\ Path(Begins(Pos), ParseAddExpr, Value(Pos, 2), toks, made)
           /\ Path(Begins(Pos), ParseMulExpr, Value(Pos, 3), toks, made)
  <1>1. ASSUME NEW f \in Levelled, NEW l \in 1..3, LevelFor(f) = l + 1, NEW ts,
               Follows(Value(Pos, l), Operators(ts, f, Pos), Value(Pos, l))
        PROVE  Path(Begins(Pos), <<Call(f), Operators(ts, f, Pos)>>, Value(Pos, l),
                    toks, made)
    <2>1. Follows(Begins(Pos), Call(f), Value(Pos, l + 1))
      BY <1>1, FollowsCall
    <2>2. Weaker(Value(Pos, l + 1), Value(Pos, l), toks, made)
      <3>1. l + 1 \in 1..4 /\ l \in 1..4 /\ l <= l + 1
        OBVIOUS
      <3> QED BY <3>1, ValueLooser
    <2>3. Rule(Begins(Pos), Call(f), Value(Pos, l), toks, made)
      BY <2>1, <2>2, RuleWeaker
    <2>4. Rule(Value(Pos, l), Operators(ts, f, Pos), Value(Pos, l), toks, made)
      BY <1>1, RuleWeaker
    <2> QED BY <2>3, <2>4, Path2
  <1>2. /\ "Add" \in Levelled /\ LevelFor("Add") = 1 + 1
        /\ "Mul" \in Levelled /\ LevelFor("Mul") = 2 + 1
        /\ "Unary" \in Levelled /\ LevelFor("Unary") = 3 + 1
        /\ 1 \in 1..3 /\ 2 \in 1..3 /\ 3 \in 1..3
    BY DEF Levelled, LevelFor
  <1>3. Path(Begins(Pos), ParseRelExpr, Value(Pos, 1), toks, made)
    BY <1>1, <1>2, FollowsLoop DEF ParseRelExpr
  <1>4. Path(Begins(Pos), ParseAddExpr, Value(Pos, 2), toks, made)
    BY <1>1, <1>2, FollowsLoop DEF ParseAddExpr
  <1>5. Path(Begins(Pos), ParseMulExpr, Value(Pos, 3), toks, made)
    BY <1>1, <1>2, FollowsLoop DEF ParseMulExpr
  <1> QED BY <1>3, <1>4, <1>5

LEMMA UnaryBody ==
    ASSUME Read(toks)
    PROVE  Path(Begins(Pos), ParseUnaryExpr, Value(Pos, 4), toks, made)
  <1>1. "Unary" \in Levelled /\ LevelFor("Unary") = 4
        /\ "Primary" \in Levelled /\ LevelFor("Primary") = 4
    BY DEF Levelled, LevelFor
  <1>2. CASE Cur \in {"-", "NOT"}
    <2>1. Rule(Begins(Pos), Expect(Cur), Begins(Pos + 1), toks, made)
      <3>1. Cur \notin {"EOF"} \cup Clauses
        BY <1>2 DEF Clauses
      <3>2. Follows(Begins(Pos), Expect(Cur), IsRead(Pos, Cur))
        BY <3>1, FollowsExpect
      <3> QED BY <3>2, ReadBegins, RuleWeaker
    <2>2. Rule(Begins(Pos + 1), Call("Unary"), Whole(Pos), toks, made)
      <3>1. Follows(Begins(Pos + 1), Call("Unary"), Value(Pos + 1, 4))
        BY <1>1, FollowsCall
      <3>2. Weaker(Value(Pos + 1, 4), Whole(Pos), toks, made)
        BY <1>2, CurrentToken, ValuePrefixed
      <3> QED BY <3>1, <3>2, RuleWeaker
    <2>3. Rule(Whole(Pos), Node("Unary"), Value(Pos, 4), toks, made)
      BY FollowsNode, RuleWeaker DEF Node
    <2>4. Path(Begins(Pos), <<Expect(Cur), Call("Unary"), Node("Unary")>>, Value(Pos, 4),
               toks, made)
      BY <2>1, <2>2, <2>3, Path3
    <2> QED BY <1>2, <2>4 DEF ParseUnaryExpr
  <1>3. CASE Cur \notin {"-", "NOT"}
    <2>1. Rule(Begins(Pos), Call("Primary"), Value(Pos, 4), toks, made)
      BY <1>1, FollowsCall, RuleWeaker
    <2>2. Rule(Value(Pos, 4), PostfixOps(Pos), Value(Pos, 4), toks, made)
      BY FollowsLoop, RuleWeaker
    <2>3. Path(Begins(Pos), <<Call("Primary"), PostfixOps(Pos)>>, Value(Pos, 4), toks, made)
      BY <2>1, <2>2, Path2
    <2> QED BY <1>3, <2>3 DEF ParseUnaryExpr
  <1> QED BY <1>2, <1>3

(* An expression in parentheses, and a list of arguments.                  *)
LEMMA WithinRules ==
    ASSUME NEW w, NEW m, NEW i
    PROVE  /\ Rule(Within(i), Expr, Within(i), w, m)
           /\ Rule(Within(i), Call("Arguments"), Within(i), w, m)
           /\ Rule(Within(i), Expect(")"), Whole(i), w, m)
           /\ Path(Within(i), ArgList, Within(i), w, m)
  <1>1. /\ Rule(Within(i), Expr, Within(i), w, m)
        /\ Rule(Within(i), Call("Arguments"), Within(i), w, m)
    BY FollowsCall, RuleWeaker
  <1>2. Rule(Within(i), Expect(")"), Whole(i), w, m)
    BY FollowsExpect, RuleWeaker
  <1>3. Separator(",")
    <2>1. "," \notin RelOp \cup ArithmeticOp
      BY Zenon, TokenKinds
    <2>2. Turn(",") = 0
      BY Zenon, TokenKinds
    <2>3. "," \notin {"EOF"} \cup Clauses
      BY DEF Clauses
    <2> QED BY <2>1, <2>2, <2>3, Zenon DEF Separator
  <1>4. ASSUME NEW t, NEW ts, Separator(t)
        PROVE  Path(Within(i), <<Expr, Loop(ts, <<Expect(t), Expr>>)>>, Within(i), w, m)
    <2>1. Rule(Within(i), Loop(ts, <<Expect(t), Expr>>), Within(i), w, m)
      BY <1>4, FollowsLoop, RuleWeaker
    <2> QED BY <1>1, <2>1, Path2
  <1>5. Path(Within(i), ArgList, Within(i), w, m)
    BY <1>3, <1>4, Zenon DEF ArgList, CommaSeparated
  <1> QED BY <1>1, <1>2, <1>5

LEMMA ParensPath ==
    ASSUME NEW w, NEW m, NEW s, Sequence(s), NEW A, NEW B, NEW C, NEW D,
           Rule(A, Expect("("), B, w, m), Path(B, s, C, w, m), Rule(C, Expect(")"), D, w, m)
    PROVE  Path(A, InParens(s), D, w, m) /\ Sequence(InParens(s))
  <1>1. /\ Path(A, <<Expect("(")>>, B, w, m) /\ Path(C, <<Expect(")")>>, D, w, m)
        /\ Sequence(<<Expect("(")>>) /\ Sequence(<<Expect(")")>>)
    BY Path1, Tuple1
  <1>2. Path(A, <<Expect("(")>> \o s, C, w, m) /\ Sequence(<<Expect("(")>> \o s)
    BY <1>1, PathJoin, SequenceConcat
  <1>3. /\ Path(A, (<<Expect("(")>> \o s) \o <<Expect(")")>>, D, w, m)
        /\ Sequence((<<Expect("(")>> \o s) \o <<Expect(")")>>)
    BY <1>1, <1>2, PathJoin, SequenceConcat
  <1> QED BY <1>3, Zenon DEF InParens

LEMMA PrimaryBody ==
    ASSUME Read(toks)
    PROVE  Path(Begins(Pos), ParsePrimaryExpr, Value(Pos, 4), toks, made)
  <1> DEFINE name     == <<Expect("x"), CallFrom("Applied", Pos)>>
             parens   == InParens(<<Expr>>)
             ref      == <<Expect("REF")>> \o InParens(<<Expr>>) \o <<Node("AddrOf")>>
             ind      == <<Expect("IND")>> \o InParens(<<Expr>>) \o <<Node("Deref")>>
             literal  == <<Expect(Cur), Node(Cur)>>
             register == <<Expect(Cur), Node("R")>>
  <1>0. ParsePrimaryExpr = CASE Cur = "x"         -> name
                             [] Cur = "("         -> parens
                             [] Cur = "REF"       -> ref
                             [] Cur = "IND"       -> ind
                             [] Cur \in Literals  -> literal
                             [] Cur \in Registers -> register
                             [] OTHER             -> Throw
    BY DEF ParsePrimaryExpr
  <1>1. "Rel" \in Levelled /\ LevelFor("Rel") = 1
    BY DEF Levelled, LevelFor
  <1>2. ASSUME NEW i, NEW t, t \notin {"EOF"} \cup Clauses
        PROVE  Rule(Begins(i), Expect(t), IsRead(i, t), toks, made)
               /\ Rule(Begins(i), Expect(t), Begins(i + 1), toks, made)
    <2>1. Follows(Begins(i), Expect(t), IsRead(i, t))
      BY <1>2, FollowsExpect
    <2> QED BY <2>1, ReadBegins, RuleWeaker
  <1>3. ASSUME NEW t \in EndsOperand, t # ")"
        PROVE  Rule(Begins(Pos), Expect(t), Whole(Pos), toks, made)
    <2>1. t \notin {"EOF"} \cup Clauses
      BY DEF EndsOperand, Literals, Registers, Clauses
    <2>2. Follows(Begins(Pos), Expect(t), IsRead(Pos, t))
      BY <2>1, FollowsExpect
    <2> QED BY <1>3, <2>2, ReadWhole, RuleWeaker
  <1>4. CASE Cur = "x"
    <2>1. Rule(Begins(Pos), Expect("x"), IsRead(Pos, "x"), toks, made)
      BY <1>2 DEF Clauses
    <2>2. Rule(IsRead(Pos, "x"), CallFrom("Applied", Pos), Value(Pos, 4), toks, made)
      BY FollowsCall, RuleWeaker
    <2>3. Path(Begins(Pos), <<Expect("x"), CallFrom("Applied", Pos)>>, Value(Pos, 4),
               toks, made)
      BY <2>1, <2>2, Path2
    <2>a. Path(Begins(Pos), name, Value(Pos, 4), toks, made)
      BY <2>3
    <2> HIDE DEF name, parens, ref, ind, literal, register
    <2> QED BY <1>0, <1>4, <2>a DEF Literals, Registers
  <1>5. CASE Cur = "("
    <2>1. Rule(Begins(Pos), Expect("("), Begins(Pos + 1), toks, made)
      BY <1>2 DEF Clauses
    <2>2. Rule(Begins(Pos + 1), Expr, Closing(Pos), toks, made)
      <3>1. Follows(Begins(Pos + 1), Call("Rel"), Value(Pos + 1, 1))
        BY <1>1, FollowsCall
      <3>2. Weaker(Value(Pos + 1, 1), Closing(Pos), toks, made)
        BY <1>5, CurrentToken, ValueClosing
      <3> QED BY <3>1, <3>2, RuleWeaker DEF Expr
    <2>3. Rule(Closing(Pos), Expect(")"), Value(Pos, 4), toks, made)
      BY FollowsExpect, RuleWeaker
    <2>4. Path(Begins(Pos + 1), <<Expr>>, Closing(Pos), toks, made) /\ Sequence(<<Expr>>)
      BY <2>2, Path1, Tuple1
    <2>5. Path(Begins(Pos), InParens(<<Expr>>), Value(Pos, 4), toks, made)
      BY <2>1, <2>3, <2>4, ParensPath
    <2>a. Path(Begins(Pos), parens, Value(Pos, 4), toks, made)
      BY <2>5
    <2> HIDE DEF name, parens, ref, ind, literal, register
    <2> QED BY <1>0, <1>5, <2>a DEF Literals, Registers
  <1>6. ASSUME NEW t, t \in {"REF", "IND"}, Cur = t, NEW k, k \in {"AddrOf", "Deref"}
        PROVE  Path(Begins(Pos), <<Expect(t)>> \o InParens(<<Expr>>) \o <<Node(k)>>,
                    Value(Pos, 4), toks, made)
    <2>1. Rule(Begins(Pos), Expect(t), Begins(Pos + 1), toks, made)
      BY <1>2, <1>6 DEF Clauses
    <2>2. Rule(Begins(Pos + 1), Expect("("), Within(Pos), toks, made)
      <3>1. "(" \notin {"EOF"} \cup Clauses
        BY DEF Clauses
      <3>2. Follows(Begins(Pos + 1), Expect("("), IsRead(Pos + 1, "("))
        BY <3>1, FollowsExpect
      <3>3. Turn(toks[Pos]) = 0
        BY <1>6, TokenKinds, CurrentToken
      <3>4. Weaker(IsRead(Pos + 1, "("), Within(Pos), toks, made)
        BY <3>3, CurrentToken, ReadWithin
      <3> QED BY <3>2, <3>4, RuleWeaker
    <2>3. Path(Within(Pos), <<Expr>>, Within(Pos), toks, made) /\ Sequence(<<Expr>>)
      BY WithinRules, Path1, Tuple1
    <2>4. Path(Begins(Pos + 1), InParens(<<Expr>>), Whole(Pos), toks, made)
          /\ Sequence(InParens(<<Expr>>))
      BY <2>2, <2>3, WithinRules, ParensPath
    <2>5. Rule(Whole(Pos), Node(k), Value(Pos, 4), toks, made)
      BY <1>6, FollowsNode, RuleWeaker DEF Node
    <2>6. /\ Path(Begins(Pos), <<Expect(t)>>, Begins(Pos + 1), toks, made)
          /\ Path(Whole(Pos), <<Node(k)>>, Value(Pos, 4), toks, made)
          /\ Sequence(<<Expect(t)>>) /\ Sequence(<<Node(k)>>)
      BY <2>1, <2>5, Path1, Tuple1
    <2>7. /\ Path(Begins(Pos), <<Expect(t)>> \o InParens(<<Expr>>), Whole(Pos), toks, made)
          /\ Sequence(<<Expect(t)>> \o InParens(<<Expr>>))
      BY <2>4, <2>6, PathJoin, SequenceConcat
    <2> QED BY <2>6, <2>7, PathJoin
  <1>7. CASE Cur = "REF"
    <2>1. Path(Begins(Pos), <<Expect("REF")>> \o InParens(<<Expr>>) \o <<Node("AddrOf")>>,
               Value(Pos, 4), toks, made)
      BY <1>6, <1>7
    <2>a. Path(Begins(Pos), ref, Value(Pos, 4), toks, made)
      BY <2>1
    <2> HIDE DEF name, parens, ref, ind, literal, register
    <2> QED BY <1>0, <1>7, <2>a DEF Literals, Registers
  <1>8. CASE Cur = "IND"
    <2>1. Path(Begins(Pos), <<Expect("IND")>> \o InParens(<<Expr>>) \o <<Node("Deref")>>,
               Value(Pos, 4), toks, made)
      BY <1>6, <1>8
    <2>a. Path(Begins(Pos), ind, Value(Pos, 4), toks, made)
      BY <2>1
    <2> HIDE DEF name, parens, ref, ind, literal, register
    <2> QED BY <1>0, <1>8, <2>a DEF Literals, Registers
  <1>9. CASE Cur \in Literals
    <2>1. Cur \in EndsOperand /\ Cur # ")" /\ Cur \notin {"x", "R", "Binary", "Modify"}
      BY <1>9 DEF EndsOperand, Literals
    <2>2. Rule(Whole(Pos), Node(Cur), Value(Pos, 4), toks, made)
      BY <2>1, FollowsNode, RuleWeaker DEF Node
    <2>3. Path(Begins(Pos), <<Expect(Cur), Node(Cur)>>, Value(Pos, 4), toks, made)
      BY <1>3, <2>1, <2>2, Path2
    <2>4. Cur \notin {"x", "(", "REF", "IND"}
      BY <1>9 DEF Literals
    <2>a. Path(Begins(Pos), literal, Value(Pos, 4), toks, made)
      BY <2>3
    <2> HIDE DEF name, parens, ref, ind, literal, register
    <2> QED BY <1>0, <1>9, <2>4, <2>a DEF Literals, Registers
  <1>10. CASE Cur \in Registers
    <2>1. Cur \notin {"EOF"} \cup Clauses 
          /\ Cur \notin {"x", "(", "REF", "IND"} \cup Literals
      BY <1>10 DEF Registers, Clauses, Literals
    <2>2. Rule(Begins(Pos), Expect(Cur), IsRead(Pos, Cur), toks, made)
      BY <1>2, <2>1
    <2>3. Rule(IsRead(Pos, Cur), Node("R"), Value(Pos, 4), toks, made)
      BY <1>10, FollowsNode, RuleWeaker DEF Node
    <2>4. Path(Begins(Pos), <<Expect(Cur), Node("R")>>, Value(Pos, 4), toks, made)
      BY <2>2, <2>3, Path2
    <2>a. Path(Begins(Pos), register, Value(Pos, 4), toks, made)
      BY <2>4
    <2> HIDE DEF name, parens, ref, ind, literal, register
    <2> QED BY <1>0, <1>10, <2>1, <2>a DEF Literals, Registers
  <1>11. CASE Cur \notin {"x", "(", "REF", "IND"} \cup Literals \cup Registers
    <2>1. Rule(Begins(Pos), ExpectAny({}), Value(Pos, 4), toks, made)
      <3>1. Begins(Pos).is # "any"
        BY FactFields DEF Begins
      <3> QED BY <3>1, FollowsExpect, RuleWeaker
    <2>2. Path(Begins(Pos), Throw, Value(Pos, 4), toks, made)
      BY <2>1, Path1 DEF Throw
    <2>a. Path(Begins(Pos), Throw, Value(Pos, 4), toks, made)
      BY <2>2
    <2> HIDE DEF name, parens, ref, ind, literal, register
    <2> QED BY <1>0, <1>11, <2>a DEF Literals, Registers
  <1> QED BY <1>4, <1>5, <1>7, <1>8, <1>9, <1>10, <1>11

(* What is called when something has been read before.                     *)
LEMMA AppliedBody ==
    ASSUME Read(toks), NEW i, Holds(IsRead(i, "x"), toks, made)
    PROVE  Runs(ParseApplied(i), Value(i, 4), toks, made)
  <1>1. i \in DOMAIN toks /\ i + 1 = Pos /\ toks[i] = "x"
    BY HoldsOf DEF Pos
  <1>2. CASE Cur = "("
    <2>1. Rule(Begins(Pos), Expect("("), Within(i), toks, made)
      <3>1. "(" \notin {"EOF"} \cup Clauses
        BY DEF Clauses
      <3>2. Follows(Begins(Pos), Expect("("), IsRead(Pos, "("))
        BY <3>1, FollowsExpect
      <3>3. Turn(toks[i]) = 0
        BY <1>1, TokenKinds DEF Turn
      <3>4. Weaker(IsRead(i + 1, "("), Within(i), toks, made)
        BY <1>1, <3>3, ReadWithin
      <3> QED BY <1>1, <3>2, <3>4, RuleWeaker
    <2>2. Rule(Whole(i), NodeFrom("Call", i), Value(i, 4), toks, made)
      BY FollowsNode, RuleWeaker
    <2>3. Path(Begins(Pos), <<Expect("("), Call("Arguments"), Expect(")"),
                              NodeFrom("Call", i)>>, Value(i, 4), toks, made)
      BY <2>1, <2>2, WithinRules, Path4
    <2>4. Holds(Begins(Pos), toks, made)
      BY HoldsOf DEF Pos
    <2> QED BY <1>2, <2>3, <2>4 DEF ParseApplied, Runs
  <1>3. CASE Cur # "("
    <2>1. Rule(IsRead(i, "x"), NodeFrom("x", i), Value(i, 4), toks, made)
      BY FollowsNode, RuleWeaker
    <2>2. Path(IsRead(i, "x"), <<NodeFrom("x", i)>>, Value(i, 4), toks, made)
      BY <2>1, Path1
    <2> QED BY <1>3, <2>2 DEF ParseApplied, Runs
  <1> QED BY <1>2, <1>3

LEMMA ArgumentsBody ==
    ASSUME NEW i, Holds(Within(i), toks, made)
    PROVE  Runs(ParseArguments, Within(i), toks, made)
  <1>1. Path(Within(i), ArgList, Within(i), toks, made)
    BY WithinRules
  <1>2. Path(Within(i), Nothing, Within(i), toks, made)
    BY PathNone, Zenon DEF Nothing
  <1>3. ParseArguments = ArgList \/ ParseArguments = Nothing
    BY Zenon DEF ParseArguments
  <1> QED BY <1>1, <1>2, <1>3, Zenon DEF Runs

LEMMA PostfixBody ==
    ASSUME Read(toks), NEW i, Holds(Value(i, 4), toks, made)
    PROVE  Runs(ParsePostfixOp(i), Value(i, 4), toks, made)
  <1>1. Operand(toks, made, i, Pos - 1, 4) /\ Pos \in Nat
    BY HoldsValue, CurrentToken DEF Valued, Pos
  <1>2. ASSUME NEW t \in {"^", "("}
        PROVE  Follows(Begins(Pos), Expect(t), IsRead(Pos, t))
    <2>1. t \notin {"EOF"} \cup Clauses
      BY DEF Clauses
    <2> QED BY <2>1, FollowsExpect
  <1>3. Rule(Begins(Pos), Expect("^"), Whole(i), toks, made)
    BY <1>1, <1>2, ReadAfterOperand, RuleWeaker
  <1>4. Rule(Begins(Pos), Expect("("), Within(i), toks, made)
    BY <1>1, <1>2, ReadAfterOperand, RuleWeaker
  <1>5. /\ Rule(Whole(i), NodeFrom("Deref", i), Value(i, 4), toks, made)
        /\ Rule(Whole(i), NodeFrom("Index", i), Value(i, 4), toks, made)
    BY FollowsNode, RuleWeaker
  <1>6. Path(Begins(Pos), <<Expect("^"), NodeFrom("Deref", i)>>, Value(i, 4), toks, made)
    BY <1>3, <1>5, Path2
  <1>7. Path(Begins(Pos), InParens(ArgList) \o <<NodeFrom("Index", i)>>, Value(i, 4),
             toks, made)
    <2>1. Sequence(ArgList)
      BY Shared DEF Flats
    <2>2. Path(Begins(Pos), InParens(ArgList), Whole(i), toks, made)
          /\ Sequence(InParens(ArgList))
      BY <1>4, <2>1, WithinRules, ParensPath
    <2>3. Path(Whole(i), <<NodeFrom("Index", i)>>, Value(i, 4), toks, made)
          /\ Sequence(<<NodeFrom("Index", i)>>)
      BY <1>5, Path1, Tuple1
    <2> QED BY <2>2, <2>3, PathJoin
  <1>8. Path(Begins(Pos), ParsePostfixOp(i), Value(i, 4), toks, made)
    BY <1>6, <1>7, Zenon DEF ParsePostfixOp
  <1>9. Holds(Begins(Pos), toks, made)
    BY HoldsOf DEF Pos
  <1> QED BY <1>8, <1>9 DEF Runs

(* What may be any statement.                                              *)
LEMMA NeutralRuns ==
    ASSUME NEW w, NEW m, NEW s, Listed(s)
    PROVE  Runs(s, Unknown, w, m)
  <1>1. Sequence(s) /\ Neutrals(s)
    BY DEF Listed, Started, Goals
  <1>2. Holds(Unknown, w, m)
    BY DEF Holds, Unknown, Fact
  <1> QED BY <1>1, <1>2, PathNeutral DEF Runs

LEMMA AfterNameBody ==
    ASSUME NEW i, Holds(IsRead(i, "x"), toks, made)
    PROVE  Runs(ParseAfterName(i), Unknown, toks, made)
  <1>1. Runs(<<Expect(":"), Stmt, NodeFrom("Label", i)>>, Unknown, toks, made)
    BY Labelled, NeutralRuns
  <1>2. Rule(IsRead(i, "x"), CallFrom("Applied", i), Value(i, 4), toks, made)
    BY FollowsCall, RuleWeaker
  <1>3. /\ Weaker(Value(i, 4), Value(i, 3), toks, made)
        /\ Weaker(Value(i, 3), Value(i, 2), toks, made)
        /\ Weaker(Value(i, 2), Value(i, 1), toks, made)
    BY ValueLooser
  <1>4. Rule(Value(i, 4), PostfixOps(i), Value(i, 3), toks, made)
    BY <1>3, FollowsLoop, RuleWeaker
  <1>5. Rule(Value(i, 3), Operators(MulOp, "Unary", i), Value(i, 2), toks, made)
    BY <1>3, FollowsLoop, RuleWeaker
  <1>6. Rule(Value(i, 2), Operators(AddOp, "Mul", i), Value(i, 1), toks, made)
    BY <1>3, FollowsLoop, RuleWeaker
  <1>7. Rule(Value(i, 1), Operators(RelOp, "Add", i), Value(i, 1), toks, made)
    BY FollowsLoop, RuleWeaker
  <1>8. Rule(Value(i, 1), CallFrom("Assignment", i), Unknown, toks, made)
    BY FollowsCall, RuleWeaker
  <1>9. Path(IsRead(i, "x"),
             <<CallFrom("Applied", i), PostfixOps(i), Operators(MulOp, "Unary", i),
               Operators(AddOp, "Mul", i), Operators(RelOp, "Add", i),
               CallFrom("Assignment", i)>>, Unknown, toks, made)
    BY <1>2, <1>4, <1>5, <1>6, <1>7, <1>8, Path6
  <1>10. Runs(<<CallFrom("Applied", i), PostfixOps(i), Operators(MulOp, "Unary", i),
                Operators(AddOp, "Mul", i), Operators(RelOp, "Add", i),
                CallFrom("Assignment", i)>>, Unknown, toks, made)
    BY <1>9, Zenon DEF Runs
  <1> QED BY <1>1, <1>10, Zenon DEF ParseAfterName

LEMMA AssignmentBody ==
    ASSUME NEW i, NEW l, Holds(Value(i, l), toks, made)
    PROVE  Runs(ParseAssignment(i), Unknown, toks, made)
  <1>1. Runs(<<Expect("=>"), Call("LValue"), NodeFrom("Assign", i)>>, Unknown, toks, made)
    BY Labelled, NeutralRuns
  <1>2. ASSUME Modifies(i)
        PROVE  Runs(<<NodeFrom("Modify", i)>>, Unknown, toks, made)
    <2>1. Holds(Target(i), toks, made)
      <3>1. PICK v : v = Last(made)
        OBVIOUS
      <3>2. v.kind = "Binary" /\ v.left \in {"x", "R"}
        BY <1>2, <3>1 DEF Modifies
      <3>3. /\ made # <<>> /\ Core(toks, i, Len(toks) - 1, v)
            /\ Operand(toks, made, i, Len(toks) - 1, l)
        BY <3>1, HoldsValue DEF Valued
      <3>4. i \in Nat /\ 0 < i /\ Len(toks) - 1 \in DOMAIN toks
        BY <3>3 DEF Operand, Nesting
      <3>5. ShortForm(toks, i, Len(toks) - 1, v)
        BY <3>2, <3>3, <3>4 DEF Core, ShortForm
      <3> QED BY <3>1, <3>3, <3>5, HoldsOf
    <2>2. Rule(Target(i), NodeFrom("Modify", i), Unknown, toks, made)
      BY FollowsNode, RuleWeaker
    <2>3. Path(Target(i), <<NodeFrom("Modify", i)>>, Unknown, toks, made)
      BY <2>2, Path1
    <2> QED BY <2>1, <2>3 DEF Runs
  <1>3. Runs(Throw, Unknown, toks, made)
    <2>1. Value(i, l).is # "any"
      BY FactFields DEF Value
    <2>2. Rule(Value(i, l), ExpectAny({}), Unknown, toks, made)
      BY <2>1, FollowsExpect, RuleWeaker
    <2>3. Path(Value(i, l), Throw, Unknown, toks, made)
      BY <2>2, Path1 DEF Throw
    <2> QED BY <2>3 DEF Runs
  <1> QED BY <1>1, <1>2, <1>3, Zenon DEF ParseAssignment

LEMMA ExprStmtBody ==
    ASSUME Read(toks)
    PROVE  Runs(ParseExprStmt, Unknown, toks, made)
  <1>1. Rule(Begins(Pos), Expect("x"), IsRead(Pos, "x"), toks, made)
    <2>1. "x" \notin {"EOF"} \cup Clauses
      BY DEF Clauses
    <2> QED BY <2>1, FollowsExpect, RuleWeaker
  <1>2. Rule(IsRead(Pos, "x"), CallFrom("AfterName", Pos), Unknown, toks, made)
    BY FollowsCall, RuleWeaker
  <1>3. Path(Begins(Pos), <<Expect("x"), CallFrom("AfterName", Pos)>>, Unknown, toks, made)
    BY <1>1, <1>2, Path2
  <1>4. Rule(Begins(Pos), Expr, Value(Pos, 1), toks, made)
    <2>1. "Rel" \in Levelled /\ LevelFor("Rel") = 1
      BY DEF Levelled, LevelFor
    <2> QED BY <2>1, FollowsCall, RuleWeaker DEF Expr
  <1>5. Rule(Value(Pos, 1), CallFrom("Assignment", Pos), Unknown, toks, made)
    BY FollowsCall, RuleWeaker
  <1>6. Path(Begins(Pos), <<Expr, CallFrom("Assignment", Pos)>>, Unknown, toks, made)
    BY <1>4, <1>5, Path2
  <1>7. Path(Begins(Pos), ParseExprStmt, Unknown, toks, made)
    BY <1>3, <1>6, Zenon DEF ParseExprStmt
  <1>8. Holds(Begins(Pos), toks, made)
    BY HoldsOf DEF Pos
  <1> QED BY <1>7, <1>8 DEF Runs

LEMMA HoldsIs ==
    ASSUME NEW A, NEW w, NEW m
    PROVE  /\ A.is = "begins" => (Holds(A, w, m) <=> Holds(Begins(A.from), w, m))
           /\ A.is = "isread" => (Holds(A, w, m) <=> Holds(IsRead(A.from, A.of), w, m))
           /\ A.is = "whole"  => (Holds(A, w, m) <=> Holds(Whole(A.from), w, m))
           /\ A.is = "within" => (Holds(A, w, m) <=> Holds(Within(A.from), w, m))
           /\ A.is = "value"  => (Holds(A, w, m) <=> Holds(Value(A.from, A.of), w, m))
           /\ A.is = "closing" => (Holds(A, w, m) <=> Holds(Closing(A.from), w, m))
           /\ A.is = "right"  => (Holds(A, w, m) <=> Holds(Right(A.from, A.of), w, m))
           /\ A.is = "target" => (Holds(A, w, m) <=> Holds(Target(A.from), w, m))
  <1>1. A.is = "begins" => (Holds(A, w, m) <=> Holds(Begins(A.from), w, m))
    BY FactFields DEF Holds, Begins
  <1>2. A.is = "isread" => (Holds(A, w, m) <=> Holds(IsRead(A.from, A.of), w, m))
    BY FactFields DEF Holds, IsRead
  <1>3. A.is = "whole"  => (Holds(A, w, m) <=> Holds(Whole(A.from), w, m))
    BY FactFields DEF Holds, Whole
  <1>4. A.is = "within" => (Holds(A, w, m) <=> Holds(Within(A.from), w, m))
    BY FactFields DEF Holds, Within
  <1>5. A.is = "value"  => (Holds(A, w, m) <=> Holds(Value(A.from, A.of), w, m))
    BY FactFields DEF Holds, Value
  <1>6. A.is = "closing" => (Holds(A, w, m) <=> Holds(Closing(A.from), w, m))
    BY FactFields DEF Holds, Closing
  <1>7. A.is = "right"  => (Holds(A, w, m) <=> Holds(Right(A.from, A.of), w, m))
    BY FactFields DEF Holds, Right
  <1>8. A.is = "target" => (Holds(A, w, m) <=> Holds(Target(A.from), w, m))
    BY FactFields DEF Holds, Target
  <1> QED BY <1>1, <1>2, <1>3, <1>4, <1>5, <1>6, <1>7, <1>8

(* Facts that say the same.                                                *)
LEMMA WeakerSame ==
    ASSUME NEW A, NEW B, NEW w, NEW m, A.is # "any",
           \A v, n : Holds(A, v, n) <=> Holds(B, v, n)
    PROVE  Weaker(A, B, w, m)
  BY DEF Weaker

(* What is called does what its caller expects.                            *)
LEMMA CallRuns ==
    ASSUME Read(toks), NEW g, Plain(g), g.do = "call",
           NEW D, Holds(D, toks, made), NEW C, Follows(D, g, C)
    PROVE  \E S : Runs(Body(g.fn, g.from), S, toks, made) /\ Weaker(S, C, toks, made)
  <1>1. g.fn \in Functions
    BY DEF Plain, Neutral, Leaf, Ordinary, NodeGoal
  <1>2. /\ Body("Rel", g.from) = ParseRelExpr /\ Body("Add", g.from) = ParseAddExpr
        /\ Body("Mul", g.from) = ParseMulExpr /\ Body("Unary", g.from) = ParseUnaryExpr
        /\ Body("Primary", g.from) = ParsePrimaryExpr
        /\ Body("Arguments", g.from) = ParseArguments
        /\ Body("Applied", g.from) = ParseApplied(g.from)
        /\ Body("PostfixOp", g.from) = ParsePostfixOp(g.from)
        /\ Body("AfterName", g.from) = ParseAfterName(g.from)
        /\ Body("Assignment", g.from) = ParseAssignment(g.from)
        /\ Body("ExprStmt", g.from) = ParseExprStmt
    BY DEF Body
  <1>3. ASSUME NEW f \in Levelled
        PROVE  Runs(Body(f, g.from), Value(Pos, LevelFor(f)), toks, made)
    <2>1. Holds(Begins(Pos), toks, made)
      BY HoldsOf DEF Pos
    <2>2. Path(Begins(Pos), Body(f, g.from), Value(Pos, LevelFor(f)), toks, made)
      BY <1>2, OperandBodies, UnaryBody, PrimaryBody DEF Levelled, LevelFor
    <2> QED BY <2>1, <2>2 DEF Runs
  <1>4. CASE D.is = "any"
    <2>1. Leaf(g) /\ C = Unknown
      BY <1>4 DEF Follows, Neutral, NodeGoal
    <2>2. g.fn \in Ordinary
      BY <2>1 DEF Leaf
    <2>3. CASE g.fn = "ExprStmt"
      BY <1>2, <2>1, <2>3, ExprStmtBody, WeakerBasics
    <2>4. CASE g.fn \in Levelled
      BY <1>3, <2>1, <2>4, WeakerBasics
    <2>5. CASE g.fn # "ExprStmt" /\ g.fn \notin Levelled
      <3>1. Listed(Body(g.fn, g.from))
        BY <1>1, <2>2, <2>5, BodyStarted DEF Listed, Levelled, Ordinary
      <3>2. Runs(Body(g.fn, g.from), Unknown, toks, made)
        BY <3>1, NeutralRuns
      <3> QED BY <2>1, <3>2, WeakerBasics
    <2> QED BY <2>3, <2>4, <2>5
  <1>5. CASE D.is # "any"
    <2>1. CallFollows(D, g, C)
      BY <1>5 DEF Follows
    <2>2. CASE D.is = "begins"
      <3>1. D.from = Pos
        BY <2>2, HoldsIs, HoldsOf DEF Pos
      <3>2. g.fn \in Levelled /\ C = Value(Pos, LevelFor(g.fn))
        BY <2>1, <2>2, <3>1 DEF CallFollows
      <3> QED BY <1>3, <3>2, WeakerBasics
    <2>3. CASE D.is = "within"
      <3>1. Holds(Within(D.from), toks, made) /\ C = D /\ g.fn \in {"Rel", "Arguments"}
        BY <2>1, <2>3, HoldsIs DEF CallFollows
      <3>2. Weaker(Within(D.from), C, toks, made)
        <4>1. Within(D.from).is # "any"
          BY FactFields DEF Within
        <4> QED BY <2>3, <3>1, <4>1, HoldsIs, WeakerSame
      <3>3. CASE g.fn = "Arguments"
        BY <1>2, <3>1, <3>2, <3>3, ArgumentsBody
      <3>4. CASE g.fn = "Rel"
        <4>1. "Rel" \in Levelled /\ LevelFor("Rel") = 1
          BY DEF Levelled, LevelFor
        <4>2. Runs(Body(g.fn, g.from), Value(Pos, 1), toks, made)
          BY <1>3, <3>4, <4>1
        <4>3. Inside(toks, D.from, Pos - 1) /\ Pos \in Nat
          BY <3>1, HoldsOf, CurrentToken DEF Pos
        <4>4. Weaker(Value(Pos, 1), Within(D.from), toks, made)
          BY <4>3, ValueWithin
        <4>5. Weaker(Value(Pos, 1), C, toks, made)
          BY <3>2, <4>4, WeakerBasics
        <4> QED BY <4>2, <4>5
      <3> QED BY <3>1, <3>3, <3>4
    <2>4. CASE D.is = "isread"
      <3>1. /\ Holds(IsRead(g.from, "x"), toks, made)
            /\ \/ g.fn = "Applied" /\ C = Value(g.from, 4)
               \/ g.fn = "AfterName" /\ C = Unknown
        BY <2>1, <2>4, HoldsIs DEF CallFollows
      <3> QED BY <1>2, <3>1, AppliedBody, AfterNameBody, WeakerBasics
    <2>5. CASE D.is = "value"
      <3>1. Holds(Value(g.from, D.of), toks, made)
        BY <2>1, <2>5, HoldsIs DEF CallFollows
      <3>2. CASE g.fn = "PostfixOp"
        <4>1. D.of = 4 /\ C = D /\ D.from = g.from
          BY <2>1, <2>5, <3>2 DEF CallFollows
        <4>2. Weaker(Value(g.from, 4), C, toks, made)
          <5>1. Value(g.from, 4).is # "any"
            BY FactFields DEF Value
          <5> QED BY <2>5, <4>1, <5>1, HoldsIs, WeakerSame
        <4> QED BY <1>2, <3>1, <3>2, <4>1, <4>2, PostfixBody
      <3>3. CASE g.fn # "PostfixOp"
        <4>1. g.fn = "Assignment" /\ C = Unknown
          BY <2>1, <2>5, <3>3 DEF CallFollows
        <4> QED BY <1>2, <3>1, <4>1, AssignmentBody, WeakerBasics
      <3> QED BY <3>2, <3>3
    <2> QED BY <2>1, <2>2, <2>3, <2>4, <2>5 DEF CallFollows
  <1> QED BY <1>4, <1>5

-----------------------------------------------------------------------------
(***************************************************************************)
(* One step: what was to follow the goal that was carried out is now known.*)
(***************************************************************************)
(* No ELSE or UNTIL, nor the end of the input, is expected in expressions. *)
LEMMA ExpectedInside ==
    ASSUME NEW D, D.is # "any", NEW g, g.do = "expect", NEW S, Follows(D, g, S),
           NEW t \in g.of
    PROVE  t \notin {"EOF"} \cup Clauses
  <1>1. ExpectFollows(D, g, S)
    BY DEF Follows
  <1>2. ")" \notin {"EOF"} \cup Clauses
    BY DEF Clauses
  <1> QED BY <1>1, <1>2 DEF ExpectFollows, Separator

LEMMA CoreClosed ==
    ASSUME NEW w, NEW i \in Nat, NEW e \in Nat, NEW n, i \in DOMAIN w, w[i] = "(",
           w[e + 1] = ")", Core(w, i + 1, e, n), NEW v, Grown(w, v), DOMAIN w = 1..e + 1,
           0 < i
    PROVE  Core(v, i, e + 1, n)
  <1>1. \A q \in 1..e + 1 : v[q] = w[q]
    BY DEF Grown
  <1>2. "(" \in Bare /\ ")" \in Bare
    BY DEF Bare
  <1>3. ASSUME NEW f, f \in Int, f <= e + 1, AllBare(w, i + 1, f)
        PROVE  AllBare(v, i, f)
    <2>1. ASSUME NEW q \in i..f
          PROVE  v[q] \in Bare
      <3>1. v[q] = w[q]
        <4>1. q \in 1..e + 1
          BY <1>3
        <4> QED BY <1>1, <4>1
      <3>2. q = i \/ q \in i + 1..f
        BY <1>3
      <3> QED BY <1>2, <1>3, <3>1, <3>2 DEF AllBare
    <2> QED BY <2>1 DEF AllBare
  <1>4. /\ n.from \in Nat /\ i + 1 <= n.from /\ n.to \in Nat /\ n.to <= e
        /\ n.kind \in {"x", "R"} => AllBare(w, i + 1, e)
        /\ n.kind = "Binary" =>
              /\ n.at \in DOMAIN w
              /\ AllClose(w, n.to + 1, e)
              /\ n.left \in {"x", "R"} => AllBare(w, i + 1, n.at - 1)
    BY DEF Core
  <1>5. i <= n.from /\ n.to <= e + 1
    BY <1>4
  <1>6. ASSUME n.kind \in {"x", "R"}
        PROVE  AllBare(v, i, e + 1)
    <2>1. AllBare(w, i + 1, e + 1)
      <3>1. ASSUME NEW q \in i + 1..e + 1
            PROVE  w[q] \in Bare
        <4>1. q = e + 1 \/ q \in i + 1..e
          OBVIOUS
        <4> QED BY <1>2, <1>4, <1>6, <4>1 DEF AllBare
      <3> QED BY <3>1 DEF AllBare
    <2> QED BY <1>3, <2>1
  <1>7. ASSUME n.kind = "Binary"
        PROVE  AllClose(v, n.to + 1, e + 1)
    <2>1. ASSUME NEW q \in n.to + 1..e + 1
          PROVE  v[q] = ")"
      <3>1. q = e + 1 \/ q \in n.to + 1..e
        BY <1>4
      <3>2. q \in 1..e + 1
        BY <1>4
      <3>3. w[q] = ")"
        BY <1>4, <1>7, <3>1 DEF AllClose
      <3> QED BY <1>1, <3>2, <3>3
    <2> QED BY <2>1 DEF AllClose
  <1>8. ASSUME n.kind = "Binary"
        PROVE  n.at \in DOMAIN v
    BY <1>4, <1>8 DEF Grown
  <1>9. ASSUME n.kind = "Binary", n.left \in {"x", "R"}
        PROVE  AllBare(v, i, n.at - 1)
    <2>1. n.at - 1 \in Int /\ n.at - 1 <= e + 1
      BY <1>4, <1>9
    <2> QED BY <1>3, <1>4, <1>9, <2>1
  <1> QED BY <1>4, <1>5, <1>6, <1>7, <1>8, <1>9 DEF Core

LEMMA ExpectRun ==
    ASSUME NEW w, NEW m, Sequence(m), NEW D, D.is # "any", Holds(D, w, m),
           NEW g, g.do = "expect", NEW S, Follows(D, g, S),
           Read(w), w[Len(w)] \in g.of,
           NEW v, Grown(w, v), Len(v) = Len(w) + 1
    PROVE  Holds(S, v, m)
  <1>1. ExpectFollows(D, g, S) /\ g.of # {}
    BY DEF Follows
  <1>2. PICK e \in Nat : e + 1 = Len(w) /\ DOMAIN w = 1..e + 1 /\ e + 1 \in DOMAIN w
    <2>1. PICK n \in Nat : n = Len(w) /\ DOMAIN w = 1..n /\ n # 0
      BY SequenceLen DEF Read
    <2>2. PICK e : e = n - 1
      OBVIOUS
    <2>3. e \in Nat /\ e + 1 = n
      BY <2>1, <2>2
    <2>4. n \in DOMAIN w
      BY <2>1
    <2> QED BY <2>1, <2>3, <2>4
  <1>3. /\ e + 1 \in DOMAIN v /\ v[e + 1] = w[e + 1] /\ Len(v) - 1 = e + 1
        /\ Len(v) = (e + 1) + 1 /\ Len(w) - 1 = e /\ More(m, m)
    BY <1>2, Growing DEF Grown
  <1>4. PICK t : t = w[e + 1]
    OBVIOUS
  <1>5. w[e + 1] \in g.of
    BY <1>2
  <1>6. CASE D.is = "begins" /\ S = IsRead(D.from, t)
    <2>1. D.from = e + 1
      BY <1>2, <1>6, HoldsIs, HoldsOf
    <2>2. PICK p : p = e + 1
      OBVIOUS
    <2>3. p \in DOMAIN v /\ v[p] = t /\ p + 1 = Len(v)
      BY <1>3, <1>4, <2>2
    <2>4. Holds(IsRead(p, t), v, m)
      BY <2>3, HoldsOf
    <2> QED BY <1>6, <2>1, <2>2, <2>4
  <1>7. CASE D.is = "closing" /\ t = ")" /\ S = Value(D.from, 4)
    <2>1. PICK i : i = D.from
      OBVIOUS
    <2>2. i \in DOMAIN w /\ w[i] = "(" /\ Valued(w, m, i + 1, 1)
      <3>1. Holds(Closing(i), w, m)
        BY <1>7, <2>1, HoldsIs
      <3> QED BY <3>1, HoldsOf
    <2>3. i \in Nat /\ 0 < i
      BY <1>2, <2>2
    <2>4. Inside(w, i, i)
      BY <2>2, <2>3, InsideFirst
    <2>5. Operand(w, m, i + 1, e, 1) /\ m # <<>> /\ Core(w, i + 1, e, Last(m))
      BY <1>3, <2>2 DEF Valued
    <2>6. Inside(w, i, e)
      BY <2>4, <2>5, InsideOperand
    <2>7. Operand(w, m, i, e + 1, 4)
      BY <1>2, <1>4, <1>7, <2>6, InsideClosed
    <2>8. Operand(v, m, i, e + 1, 4)
      BY <1>3, <2>7, OperandGrown
    <2>9. Core(v, i, e + 1, Last(m))
      BY <1>2, <1>4, <1>7, <2>2, <2>3, <2>5, CoreClosed
    <2>10. 4 \in 1..4
      OBVIOUS
    <2>11. Valued(v, m, i, 4)
      BY <1>3, <2>5, <2>8, <2>9, <2>10 DEF Valued
    <2> QED BY <1>7, <2>1, <2>11, HoldsValue, Zenon
  <1>8. CASE D.is = "within" /\ t = ")" /\ S = Whole(D.from)
    <2>1. Inside(w, D.from, e)
      BY <1>3, <1>8, HoldsIs, HoldsOf
    <2>2. Operand(w, m, D.from, e + 1, 4)
      BY <1>2, <1>4, <1>8, <2>1, InsideClosed
    <2>3. Operand(v, m, D.from, e + 1, 4)
      BY <1>3, <2>2, OperandGrown
    <2> QED BY <1>3, <1>8, <2>3, HoldsOf
  <1>9. CASE D.is = "within" /\ Separator(t) /\ S = D
    <2>1. Inside(w, D.from, e)
      BY <1>3, <1>9, HoldsIs, HoldsOf
    <2>2. Inside(w, D.from, e + 1)
      BY <1>2, <1>4, <1>9, <2>1, InsideNext DEF Separator
    <2>3. Inside(v, D.from, e + 1)
      BY <2>2, InsideGrown
    <2>4. Holds(Within(D.from), v, m)
      BY <1>3, <2>3, HoldsOf
    <2> QED BY <1>9, <2>4, HoldsIs
  <1>10. \E u : /\ g.of = {u}
                /\ \/ D.is = "begins" /\ S = IsRead(D.from, u)
                   \/ D.is = "closing" /\ u = ")" /\ S = Value(D.from, 4)
                   \/ D.is = "within" /\ u = ")" /\ S = Whole(D.from)
                   \/ D.is = "within" /\ Separator(u) /\ S = D
    BY <1>1, Zenon DEF ExpectFollows
  <1>11. \A u : g.of = {u} => u = t
    BY <1>4, <1>5
  <1> QED BY <1>6, <1>7, <1>8, <1>9, <1>10, <1>11

(* The node n is that of an operation that applies the last of its loosest *)
(* operators, all of which have been applied.                              *)
Operated(n, w, m) ==
    \E l : Operand(w, m, n.from, n.to, l) /\ LooserThanRest(w, n.from, n.to, n.at)

(* The node n is that of a short assignment that reads as it is written.   *)
Written(n, w, m) == \E k \in DOMAIN m : ShortForm(w, n.from, n.to, m[k])

Added(m, n, o) == o = Append(m, n)

LEMMA OneMore ==
    ASSUME NEW m, Sequence(m), NEW n, NEW o, Added(m, n, o)
    PROVE  /\ More(m, o) /\ o # <<>> /\ Last(o) = n /\ Len(o) \in DOMAIN o /\ o[Len(o)] = n
           /\ \A i \in DOMAIN o : i \notin DOMAIN m => o[i] = n /\ i = Len(o)
  <1>1. PICK S : m \in Seq(S)
    BY DEF Sequence
  <1>2. PICK T : T = S \cup {n}
    OBVIOUS
  <1>3. m \in Seq(T) /\ n \in T
    BY <1>1, <1>2
  <1>4. /\ o \in Seq(T) /\ o # <<>> /\ Len(o) \in DOMAIN o /\ o[Len(o)] = n
        /\ \A i \in DOMAIN m : i \in DOMAIN o /\ o[i] = m[i]
        /\ \A i \in DOMAIN o : i \notin DOMAIN m => o[i] = n /\ i = Len(o)
    BY <1>3 DEF Added
  <1> QED BY <1>4 DEF More, Sequence, Last

LEMMA NodeRun ==
    ASSUME NEW w, Read(w), NEW m, Sequence(m), NEW D, D.is # "any", Holds(D, w, m),
           NEW g, g.do = "node", NEW S, Follows(D, g, S),
           NEW n, n.kind = g.kind, n.from = g.from, n.at = g.at, n.to = Len(w) - 1,
           n.left = g.left, NEW o, Added(m, n, o)
    PROVE  /\ Holds(S, w, o)
           /\ g.kind = "Binary" => Operated(n, w, o)
           /\ g.kind = "Modify" => Written(n, w, m)
  <1>1. NodeFollows(D, g, S)
    BY DEF Follows
  <1>2. More(m, o) /\ o # <<>> /\ Last(o) = n /\ Len(o) \in DOMAIN o /\ o[Len(o)] = n
    <2>1. More(m, o) /\ o # <<>>
      BY OneMore
    <2>2. Last(o) = n
      BY OneMore
    <2>3. Len(o) \in DOMAIN o /\ o[Len(o)] = n
      BY OneMore
    <2> QED BY <2>1, <2>2, <2>3
  <1>3. PICK i, e : i = g.from /\ e = Len(w) - 1
    OBVIOUS
  <1>4. n.from = i /\ n.to = e /\ D.from = i /\ Grown(w, w)
    BY <1>1, <1>3, Growing DEF NodeFollows
  <1>5. CASE D.is = "whole" /\ g.kind \notin {"x", "R", "Binary", "Modify"} /\ S = Value(i, 4)
    <2>1. Operand(w, m, i, e, 4)
      BY <1>3, <1>4, <1>5, HoldsIs, HoldsOf
    <2>2. Operand(w, o, i, e, 4)
      BY <1>2, <1>4, <2>1, OperandGrown
    <2>3. i \in Nat /\ e \in Nat
      BY <2>1 DEF Operand, Nesting
    <2>4. Core(w, i, e, n)
      BY <1>4, <1>5, <2>3 DEF Core
    <2>5. 4 \in 1..4
      OBVIOUS
    <2>6. Valued(w, o, i, 4)
      BY <1>2, <1>3, <2>2, <2>4, <2>5 DEF Valued
    <2> QED BY <1>5, <2>6, HoldsValue, Zenon
  <1>6. CASE D.is = "isread" /\ D.of \in {"x"} \cup Registers /\ g.kind \in {"x", "R"}
             /\ S = Value(i, 4)
    <2>1. i \in DOMAIN w /\ i + 1 = Len(w) /\ w[i] = D.of
      BY <1>4, <1>6, Zenon DEF Holds
    <2>2. i \in Nat /\ 0 < i
      BY <2>1, SequenceLen DEF Read
    <2>3. e = i
      BY <1>3, <2>1, <2>2
    <2>4. w[i] \in EndsOperand /\ w[i] # ")" /\ w[i] \in Bare
      BY <1>6, <2>1, TokenKinds DEF Bare, Registers
    <2>5. Operand(w, o, i, i, 4)
      BY <2>1, <2>2, <2>4, OperandOne
    <2>6. AllBare(w, i, i)
      BY <2>2, <2>4 DEF AllBare
    <2>7. Core(w, i, i, n)
      BY <1>4, <1>6, <2>2, <2>3, <2>6 DEF Core
    <2>8. 4 \in 1..4
      OBVIOUS
    <2>9. Valued(w, o, i, 4)
      BY <1>2, <1>3, <2>3, <2>5, <2>7, <2>8 DEF Valued
    <2> QED BY <1>6, <2>9, HoldsValue, Zenon
  <1>7. CASE D.is = "right" /\ g.kind = "Binary" /\ g.at = D.of.at /\ g.left = D.of.left
             /\ S = Value(i, D.of.level)
    <2>1. PICK op : op = D.of
      OBVIOUS
    <2>2. HasLeft(w, m, i, op) /\ Operand(w, m, op.at + 1, e, op.level + 1)
      BY <1>3, <1>4, <1>7, <2>1, Zenon DEF Holds
    <2>3. HasLeft(w, o, i, op)
      BY <1>2, <1>4, <2>2, HasLeftGrown
    <2>4. Operand(w, o, op.at + 1, e, op.level + 1)
      BY <1>2, <1>4, <2>2, OperandGrown
    <2>5. PICK a, l : a = op.at /\ l = op.level
      OBVIOUS
    <2>6. Done(o, a)
      BY <1>2, <1>7, <2>1, <2>5 DEF Done
    <2>7. /\ a \in DOMAIN w /\ w[a] \in RelOp \cup ArithmeticOp /\ l \in 1..3
          /\ LevelOf(w[a]) = l /\ Operand(w, o, i, a - 1, l)
          /\ op.left \in {"x", "R"} => AllBare(w, i, a - 1)
      BY <2>3, <2>5 DEF HasLeft
    <2>8. a \in Nat
      BY <2>7, SequenceLen DEF Read
    <2>9. Operand(w, o, a + 1, e, l + 1)
      BY <2>4, <2>5
    <2>10. Operand(w, o, i, e, l) /\ LooserThanRest(w, i, e, a)
      BY <2>6, <2>7, <2>8, <2>9, Operation
    <2>11. i \in Nat /\ e \in Nat
      BY <2>10 DEF Operand, Nesting
    <2>12. AllClose(w, e + 1, e)
      BY <2>11 DEF AllClose
    <2>13. Core(w, i, e, n)
      BY <1>4, <1>7, <2>1, <2>5, <2>7, <2>11, <2>12 DEF Core
    <2>14. l \in 1..4
      BY <2>7
    <2>15. Valued(w, o, i, l)
      BY <1>2, <1>3, <2>10, <2>13, <2>14 DEF Valued
    <2>16. Holds(S, w, o)
      BY <1>7, <2>1, <2>5, <2>15, HoldsValue, Zenon
    <2>17. Operated(n, w, o)
      BY <1>4, <1>7, <2>1, <2>5, <2>10 DEF Operated
    <2> QED BY <1>7, <2>16, <2>17
  <1>8. CASE D.is = "target" /\ g.kind = "Modify" /\ S = Unknown
    <2>1. m # <<>> /\ ShortForm(w, i, e, Last(m))
      BY <1>3, <1>4, <1>8, HoldsIs, HoldsOf
    <2>2. Len(m) \in DOMAIN m /\ Last(m) = m[Len(m)]
      BY <2>1, SequenceLen DEF Last
    <2>3. Written(n, w, m)
      BY <1>4, <2>1, <2>2 DEF Written
    <2> QED BY <1>8, <2>3, HoldsOf
  <1> QED BY <1>1, <1>4, <1>5, <1>6, <1>7, <1>8 DEF NodeFollows

LEMMA LoopRun ==
    ASSUME NEW w, NEW m, NEW D, D.is # "any", NEW g, g.do = "loop", NEW S, Follows(D, g, S)
    PROVE  S = D /\ Path(D, g.body, D, w, m)
  <1>1. LoopFollows(D, g, S)
    BY DEF Follows
  <1>2. CASE D.is = "within" /\ \E t : Separator(t) /\ g.body = <<Expect(t), Expr>>
    <2>1. PICK t : Separator(t) /\ g.body = <<Expect(t), Expr>>
      BY <1>2
    <2>2. /\ Expect(t).do = "expect" /\ Expect(t).of = {t}
          /\ Expr.do = "call" /\ Expr.fn = "Rel"
      BY DEF Expect, ExpectAny, Expr, Call, CallFrom
    <2>3. Follows(D, Expect(t), D)
      BY <1>2, <2>1, <2>2 DEF Follows, ExpectFollows
    <2>4. Follows(D, Expr, D)
      BY <1>2, <2>2 DEF Follows, CallFollows
    <2>5. Path(D, <<Expect(t), Expr>>, D, w, m)
      BY <2>3, <2>4, RuleWeaker, Path2
    <2> QED BY <1>1, <2>1, <2>5 DEF LoopFollows
  <1>3. CASE D.is = "value" /\ D.of = 4 /\ g.body = <<CallFrom("PostfixOp", D.from)>>
    <2>1. PICK c : c = CallFrom("PostfixOp", D.from)
      OBVIOUS
    <2>2. c.do = "call" /\ c.fn = "PostfixOp" /\ c.from = D.from
      BY <2>1 DEF CallFrom
    <2>3. Follows(D, c, D)
      BY <1>3, <2>2 DEF Follows, CallFollows
    <2>4. Path(D, <<c>>, D, w, m)
      BY <2>3, RuleWeaker, Path1
    <2> QED BY <1>1, <1>3, <2>1, <2>4 DEF LoopFollows
  <1> QED BY <1>1, <1>2, <1>3 DEF LoopFollows

LEMMA OperatorsRun ==
    ASSUME Read(toks), Sequence(made), NEW D, D.is # "any", Holds(D, toks, made),
           NEW g, g.do = "operators", NEW S, Follows(D, g, S), Cur \in g.of,
           NEW v, Grown(toks, v), Len(v) = Len(toks) + 1,
           NEW b, b = [do |-> "node", kind |-> "Binary", from |-> g.from, at |-> Pos,
                       left |-> Last(made).kind]
    PROVE  S = D /\ \E C : Runs(<<Call(g.fn), b>>, C, v, made) /\ Weaker(C, D, v, made)
  <1>1. OperatorsFollows(D, g, S)
    BY DEF Follows
  <1>2. PICK i, l : i = D.from /\ l = D.of
    OBVIOUS
  <1>3. PICK op : op = Operator(Pos, l, Last(made).kind)
    OBVIOUS
  <1>4. op.at = Pos /\ op.level = l /\ op.left = Last(made).kind
    BY <1>3 DEF Operator
  <1>5. /\ D.is = "value" /\ S = D /\ l \in 1..3 /\ g.from = i /\ g.fn \in Levelled
        /\ LevelFor(g.fn) = l + 1
        /\ Cur \in RelOp \cup ArithmeticOp /\ LevelOf(Cur) = l
    BY <1>1, <1>2 DEF OperatorsFollows
  <1>6. Pos \in DOMAIN toks /\ Pos \in Nat /\ Pos # 0 /\ Pos = Len(toks) /\ Cur = toks[Pos]
    BY CurrentToken
  <1>7. Valued(toks, made, i, l)
    BY <1>2, <1>5, Zenon DEF Holds
  <1>8. Operand(toks, made, i, Pos - 1, l) /\ Core(toks, i, Pos - 1, Last(made))
    BY <1>6, <1>7 DEF Valued
  <1>9. op.left \in {"x", "R"} => AllBare(toks, i, Pos - 1)
    BY <1>4, <1>8 DEF Core
  <1>10. HasLeft(toks, made, i, op)
    BY <1>4, <1>5, <1>6, <1>8, <1>9 DEF HasLeft
  <1>11. HasLeft(v, made, i, op)
    BY <1>10, Growing, HasLeftGrown
  <1>12. PICK k : k = Pos + 1
    OBVIOUS
  <1>13. Holds(Begins(k), v, made)
    BY <1>6, <1>12, HoldsOf
  <1>14. Follows(Begins(k), Call(g.fn), Value(k, l + 1))
    BY <1>5, FollowsCall
  <1>15. Weaker(Value(k, l + 1), Right(i, op), v, made)
    BY <1>4, <1>11, <1>12, ValueRight
  <1>16. Follows(Right(i, op), b, Value(i, l))
    <2>1. b = [do |-> "node", kind |-> "Binary", from |-> i, at |-> op.at, left |-> op.left]
      BY <1>4, <1>5
    <2>2. Follows(Right(i, op), b, Value(i, op.level))
      BY <2>1, FollowsNode
    <2> QED BY <1>4, <2>2
  <1>17. /\ Rule(Begins(k), Call(g.fn), Right(i, op), v, made)
         /\ Rule(Right(i, op), b, Value(i, l), v, made)
    BY <1>14, <1>15, <1>16, RuleWeaker
  <1>18. Path(Begins(k), <<Call(g.fn), b>>, Value(i, l), v, made)
    BY <1>17, Path2
  <1>19. Weaker(Value(i, l), D, v, made)
    <2>1. Value(i, l).is # "any"
      BY FactFields DEF Value
    <2> QED BY <1>2, <1>5, <2>1, HoldsIs, WeakerSame
  <1> QED BY <1>5, <1>13, <1>18, <1>19 DEF Runs

-----------------------------------------------------------------------------
(***************************************************************************)
(* Each operator is applied once: the operations still to be made and      *)
(* those made are those of different operators, before the current token.  *)
(***************************************************************************)
Operating(g) == g.do = "node" /\ g.kind = "Binary" /\ g.at # 0

Distinct(s, m, w) ==
    /\ \A i \in DOMAIN s : Operating(s[i]) => s[i].at \in Nat /\ s[i].at < Len(w)
    /\ \A i, j \in DOMAIN s :
          Operating(s[i]) /\ Operating(s[j]) /\ s[i].at = s[j].at => i = j
    /\ \A k \in DOMAIN m : m[k].kind = "Binary" => m[k].at \in Nat /\ m[k].at < Len(w)
    /\ \A k, l \in DOMAIN m :
          m[k].kind = "Binary" /\ m[l].kind = "Binary" /\ m[k].at = m[l].at => k = l
    /\ \A i \in DOMAIN s, k \in DOMAIN m :
          Operating(s[i]) /\ m[k].kind = "Binary" => s[i].at # m[k].at

(* The operations of u are those of s, d goals further.                    *)
Moved(s, u, d) ==
    \A i \in DOMAIN u : i \in Int /\ (Operating(u[i]) => i + d \in DOMAIN s /\ s[i + d] = u[i])

LEMMA MovedDistinct ==
    ASSUME NEW s, NEW u, NEW d \in Int, Moved(s, u, d), NEW w, NEW v,
           Len(w) \in Nat, Len(v) \in Nat, Len(w) <= Len(v), NEW m, Distinct(s, m, w)
    PROVE  Distinct(u, m, v)
  <1>1. \A a : a \in Nat /\ a < Len(w) => a < Len(v)
    OBVIOUS
  <1>2. ASSUME NEW i \in DOMAIN u, Operating(u[i])
        PROVE  /\ u[i].at \in Nat /\ u[i].at < Len(v)
               /\ \A k \in DOMAIN m : m[k].kind = "Binary" => u[i].at # m[k].at
    <2>1. PICK p : p = i + d
      OBVIOUS
    <2>2. p \in DOMAIN s /\ s[p] = u[i]
      BY <1>2, <2>1 DEF Moved
    <2> QED BY <1>1, <1>2, <2>2 DEF Distinct
  <1>3. ASSUME NEW i \in DOMAIN u, NEW j \in DOMAIN u, Operating(u[i]), Operating(u[j]),
               u[i].at = u[j].at
        PROVE  i = j
    <2>1. PICK p, q : p = i + d /\ q = j + d
      OBVIOUS
    <2>2. p \in DOMAIN s /\ s[p] = u[i] /\ q \in DOMAIN s /\ s[q] = u[j]
      BY <1>3, <2>1 DEF Moved
    <2>3. p = q
      BY <1>3, <2>2 DEF Distinct
    <2>4. i \in Int /\ j \in Int
      BY DEF Moved
    <2> QED BY <2>1, <2>3, <2>4
  <1>4. \A k \in DOMAIN m : m[k].kind = "Binary" => m[k].at \in Nat /\ m[k].at < Len(v)
    BY <1>1 DEF Distinct
  <1> QED BY <1>2, <1>3, <1>4 DEF Distinct

LEMMA MovedTail ==
    ASSUME NEW s, Sequence(s), s # <<>>
    PROVE  Moved(s, Tail(s), 1)
  BY SequenceTail, SequenceLen DEF Moved

(* Goals without an operation, before the goals t.                         *)
LEMMA MovedJoined ==
    ASSUME NEW b, Sequence(b), \A i \in DOMAIN b : ~Operating(b[i]), NEW t, Sequence(t)
    PROVE  Moved(t, b \o t, -Len(b))
  <1>1. PICK n \in Nat : n = Len(b) /\ DOMAIN b = 1..n
    BY SequenceLen
  <1>2. PICK u : u = b \o t
    OBVIOUS
  <1>3. /\ Sequence(u)
        /\ \A i \in DOMAIN u : \/ i \in DOMAIN b /\ u[i] = b[i]
                               \/ i - n \in DOMAIN t /\ u[i] = t[i - n]
    BY <1>1, <1>2, SequenceConcat
  <1>4. DOMAIN u \subseteq Int
    BY <1>3, SequenceLen
  <1>5. ASSUME NEW i \in DOMAIN u, Operating(u[i])
        PROVE  i + (-n) \in DOMAIN t /\ t[i + (-n)] = u[i]
    <2>1. i - n \in DOMAIN t /\ u[i] = t[i - n]
      BY <1>3, <1>5
    <2>2. i + (-n) = i - n
      BY <1>4
    <2> QED BY <2>1, <2>2
  <1>6. Moved(t, u, -n)
    BY <1>4, <1>5 DEF Moved
  <1> QED BY <1>1, <1>2, <1>6

LEMMA MovedOn ==
    ASSUME NEW s, NEW t, NEW u, NEW d \in Int, NEW f \in Int, Moved(s, t, d), Moved(t, u, f)
    PROVE  Moved(s, u, f + d)
  <1> SUFFICES ASSUME NEW i \in DOMAIN u, Operating(u[i])
               PROVE  i + (f + d) \in DOMAIN s /\ s[i + (f + d)] = u[i]
    BY DEF Moved
  <1>1. PICK j : j = i + f
    OBVIOUS
  <1>2. i \in Int /\ j \in DOMAIN t /\ t[j] = u[i]
    BY <1>1 DEF Moved
  <1>3. PICK k : k = j + d
    OBVIOUS
  <1>4. k \in DOMAIN s /\ s[k] = u[i]
    BY <1>2, <1>3 DEF Moved
  <1>5. k = i + (f + d)
    BY <1>1, <1>2, <1>3
  <1> QED BY <1>4, <1>5

LEMMA MovedSub ==
    ASSUME NEW s, Sequence(s), NEW n \in 1..Len(s)
    PROVE  Moved(s, SubSeq(s, n, Len(s)), n - 1)
  <1>1. PICK S : s \in Seq(S)
    BY DEF Sequence
  <1>2. PICK l \in Nat : l = Len(s) /\ DOMAIN s = 1..l
    BY <1>1
  <1>3. PICK u : u = SubSeq(s, n, l)
    OBVIOUS
  <1>4. \A i \in DOMAIN u : i \in 1..l - n + 1 /\ u[i] = s[n + i - 1]
    BY <1>1, <1>2, <1>3
  <1>5. ASSUME NEW i \in DOMAIN u
        PROVE  i \in Int /\ i + (n - 1) \in DOMAIN s /\ s[i + (n - 1)] = u[i]
    <2>1. i \in 1..l - n + 1 /\ u[i] = s[n + i - 1] /\ n \in 1..l
      BY <1>2, <1>4
    <2>2. PICK j : j = n + i - 1
      OBVIOUS
    <2>3. j \in 1..l /\ j = i + (n - 1) /\ i \in Int
      BY <2>1, <2>2
    <2> QED BY <1>2, <2>1, <2>2, <2>3
  <1>6. Moved(s, u, n - 1)
    BY <1>5 DEF Moved
  <1> QED BY <1>2, <1>3, <1>6

(* A node is made of the first goal.                                       *)
LEMMA MadeDistinct ==
    ASSUME NEW s, Sequence(s), s # <<>>, NEW m, Sequence(m), NEW w, Len(w) \in Nat,
           Distinct(s, m, w), NEW n, NEW o, Added(m, n, o),
           n.kind = "Binary" => Operating(s[1]) /\ n.at = s[1].at
    PROVE  Distinct(Tail(s), o, w)
  <1>1. Distinct(Tail(s), m, w)
    BY MovedTail, MovedDistinct
  <1>2. \A i \in DOMAIN o : i \notin DOMAIN m => o[i] = n /\ i = Len(o)
    BY OneMore
  <1>3. \A i \in DOMAIN m : i \in DOMAIN o /\ o[i] = m[i]
    <2>1. More(m, o)
      BY OneMore
    <2> QED BY <2>1 DEF More
  <1>4. CASE n.kind # "Binary"
    <2>1. \A k \in DOMAIN o : o[k].kind = "Binary" => k \in DOMAIN m /\ o[k] = m[k]
      BY <1>2, <1>3, <1>4
    <2> QED BY <1>1, <2>1 DEF Distinct
  <1>5. CASE n.kind = "Binary"
    <2>1. PICK t : t = Tail(s)
      OBVIOUS
    <2>2. 1 \in DOMAIN s /\ \A i \in DOMAIN t : i + 1 \in DOMAIN s /\ t[i] = s[i + 1] /\ i + 1 # 1
      <3>1. \A i \in DOMAIN t : i + 1 \in DOMAIN s /\ t[i] = s[i + 1] /\ i \in 1..Len(s) - 1
        BY <2>1, SequenceTail
      <3>2. Len(s) \in Nat /\ DOMAIN s = 1..Len(s) /\ Len(s) # 0
        BY SequenceLen
      <3> QED BY <3>1, <3>2
    <2>3. Operating(s[1]) /\ n.at = s[1].at
      BY <1>5
    <2>4. /\ n.at \in Nat /\ n.at < Len(w)
          /\ \A k \in DOMAIN m : m[k].kind = "Binary" => n.at # m[k].at
      BY <2>2, <2>3 DEF Distinct
    <2>5. ASSUME NEW i \in DOMAIN t, Operating(t[i])
          PROVE  t[i].at # n.at
      <3>1. PICK j : j = i + 1
        OBVIOUS
      <3>2. j \in DOMAIN s /\ s[j] = t[i] /\ j # 1
        BY <2>2, <3>1
      <3> QED BY <2>2, <2>3, <2>5, <3>2 DEF Distinct
    <2>6. \A k \in DOMAIN o : \/ k \in DOMAIN m /\ o[k] = m[k]
                              \/ k \notin DOMAIN m /\ o[k] = n /\ k = Len(o)
      BY <1>2, <1>3
    <2>7. \A k \in DOMAIN o : o[k].kind = "Binary" => o[k].at \in Nat /\ o[k].at < Len(w)
      BY <1>1, <2>4, <2>6 DEF Distinct
    <2>8. \A k, l \in DOMAIN o :
             o[k].kind = "Binary" /\ o[l].kind = "Binary" /\ o[k].at = o[l].at => k = l
      BY <1>1, <2>4, <2>6 DEF Distinct
    <2>9. \A i \in DOMAIN t, k \in DOMAIN o :
             Operating(t[i]) /\ o[k].kind = "Binary" => t[i].at # o[k].at
      BY <1>1, <2>1, <2>5, <2>6 DEF Distinct
    <2> QED BY <1>1, <2>1, <2>7, <2>8, <2>9 DEF Distinct
  <1> QED BY <1>4, <1>5

-----------------------------------------------------------------------------
(***************************************************************************)
(* The inductive invariant.                                                *)
(***************************************************************************)
AllRead(m, w) == \A k \in DOMAIN m : /\ m[k].kind = "Binary" => Operated(m[k], w, m)
                                     /\ m[k].kind = "Modify" => Written(m[k], w, m)

PrecInv == /\ ClauseInv
           /\ Runs(todo, Unknown, toks, made)
           /\ AllRead(made, toks)
           /\ Distinct(todo, made, toks)

LEMMA GrownLen ==
    ASSUME NEW w, Read(w), NEW v, Grown(w, v)
    PROVE  Len(w) \in Nat /\ Len(v) \in Nat /\ Len(w) <= Len(v)
  <1>1. PICK a \in Nat : a = Len(w) /\ DOMAIN w = 1..a /\ a # 0
    BY SequenceLen DEF Read
  <1>2. PICK b \in Nat : b = Len(v) /\ DOMAIN v = 1..b
    BY SequenceLen DEF Grown, Read
  <1>3. a \in 1..b
    BY <1>1, <1>2 DEF Grown
  <1> QED BY <1>1, <1>2, <1>3

LEMMA ReadGrown ==
    ASSUME NEW w, Read(w), NEW v, Grown(w, v), NEW m, NEW n, More(m, n), NEW x
    PROVE  /\ Operated(x, w, m) => Operated(x, v, n)
           /\ Written(x, w, m) => Written(x, v, n)
  <1>1. ASSUME NEW l, Operand(w, m, x.from, x.to, l), LooserThanRest(w, x.from, x.to, x.at)
        PROVE  Operated(x, v, n)
    <2>1. PICK i, e : i = x.from /\ e = x.to
      OBVIOUS
    <2>2. Operand(v, n, i, e, l)
      BY <1>1, <2>1, OperandGrown
    <2>3. Nesting(w, i, e, 0)
      BY <1>1, <2>1 DEF Operand
    <2>4. OperatorsIn(v, i, e) = OperatorsIn(w, i, e)
      BY <2>3, NestingGrown
    <2>5. \A p \in OperatorsIn(w, i, e) : v[p] = w[p]
      <3>1. \A p \in OperatorsIn(w, i, e) : p \in i..e
        BY <2>3 DEF OperatorsIn, Nesting
      <3> QED BY <2>3, <3>1 DEF Nesting, Grown
    <2>6. LooserThanRest(v, i, e, x.at)
      BY <1>1, <2>1, <2>4, <2>5 DEF LooserThanRest
    <2> QED BY <2>1, <2>2, <2>6 DEF Operated
  <1>2. ASSUME NEW k \in DOMAIN m, ShortForm(w, x.from, x.to, m[k])
        PROVE  Written(x, v, n)
    <2>1. PICK i, e, y : i = x.from /\ e = x.to /\ y = m[k]
      OBVIOUS
    <2>2. /\ i \in Nat /\ 0 < i /\ e \in DOMAIN w
          /\ y.kind = "Binary" /\ y.from \in Nat /\ i <= y.from
          /\ y.to \in Nat /\ y.to <= e /\ y.at \in DOMAIN w
          /\ AllBare(w, i, y.at - 1) /\ AllClose(w, y.to + 1, e)
      BY <1>2, <2>1 DEF ShortForm
    <2>3. PICK a \in Nat : DOMAIN w = 1..a
      BY SequenceLen DEF Read
    <2>4. i..y.at - 1 \subseteq DOMAIN w /\ y.to + 1..e \subseteq DOMAIN w
      BY <2>2, <2>3
    <2>5. AllBare(v, i, y.at - 1) /\ AllClose(v, y.to + 1, e)
      BY <2>2, <2>4 DEF AllBare, AllClose, Grown
    <2>6. e \in DOMAIN v /\ y.at \in DOMAIN v
      BY <2>2 DEF Grown
    <2>7. ShortForm(v, i, e, y)
      BY <2>2, <2>5, <2>6 DEF ShortForm
    <2>8. k \in DOMAIN n /\ n[k] = y
      BY <2>1 DEF More
    <2> QED BY <2>1, <2>7, <2>8 DEF Written
  <1> QED BY <1>1, <1>2 DEF Operated, Written

LEMMA InitPrecInv == Init => PrecInv
  <1> SUFFICES ASSUME Init
               PROVE  PrecInv
    OBVIOUS
  <1>1. ClauseInv
    BY InitClauseInv
  <1>2. made = <<>> /\ DOMAIN made = {}
    BY DEF Init
  <1>3. Listed(todo)
    <2>1. Item(Call("BEGIN")) /\ Item(Expect("EOF"))
      BY Simple DEF Functions, Ordinary
    <2>2. todo = <<Call("BEGIN"), Expect("EOF")>>
      BY DEF Init
    <2> QED BY <2>1, <2>2, ItemsOf
  <1>4. Runs(todo, Unknown, toks, made)
    BY <1>3, NeutralRuns
  <1>5. \A i \in DOMAIN todo : ~Operating(todo[i])
    BY <1>3 DEF Listed, Started, Unclaimed, Operating
  <1>6. AllRead(made, toks) /\ Distinct(todo, made, toks)
    BY <1>2, <1>5 DEF AllRead, Distinct
  <1> QED BY <1>1, <1>4, <1>6 DEF PrecInv

(* What is known when nothing is.                                          *)
LEMMA RunsUnknown ==
    ASSUME NEW w, NEW m, NEW s, Sequence(s), NEW D, NEW F, Path(D, s, F, w, m)
    PROVE  /\ D.is = "any" => Neutrals(s)
           /\ \A u, v, n : Sequence(u) /\ Neutrals(u) => Runs(u, Unknown, v, n)
           /\ \A u : Sequence(u) /\ Neutrals(u) => Moved(s, u, 0)
           /\ \A g : Neutral(g) => g.do # "operators"
           /\ \A g : Neutral(g) /\ g.do = "node" => g.kind \notin {"Binary", "Modify"}
  <1>1. D.is = "any" => Neutrals(s)
    BY PathAny
  <1>2. ASSUME NEW u, NEW v, NEW n, Sequence(u), Neutrals(u)
        PROVE  Runs(u, Unknown, v, n)
    <2>1. Path(Unknown, u, Unknown, v, n)
      BY <1>2, PathNeutral
    <2>2. Holds(Unknown, v, n)
      BY HoldsOf
    <2> QED BY <2>1, <2>2 DEF Runs
  <1>3. /\ \A g : Neutral(g) => g.do # "operators"
        /\ \A g : Neutral(g) /\ g.do = "node" => g.kind \notin {"Binary", "Modify"}
    BY DEF Neutral, Leaf, NodeGoal
  <1>4. ASSUME NEW u, Sequence(u), Neutrals(u)
        PROVE  Moved(s, u, 0)
    <2>1. DOMAIN u \subseteq Int
      BY <1>4, SequenceLen
    <2> QED BY <1>3, <1>4, <2>1 DEF Moved, Neutrals, Operating
  <1> QED BY <1>1, <1>2, <1>3, <1>4

LEMMA EnterPrec ==
    ASSUME PrecInv, EnterFunction
    PROVE  Runs(todo', Unknown, toks, made) /\ \E d \in Int : Moved(todo, todo', d)
  <1>1. /\ todo # <<>> /\ Head(todo).do = "call"
        /\ todo' = Body(Head(todo).fn, Head(todo).from) \o Tail(todo)
    BY DEF EnterFunction, Doing, Goal
  <1>2. /\ Read(toks) /\ Behind(todo) /\ Ends(todo) /\ Owned(todo, toks)
        /\ Sequence(made) /\ Sequence(todo) /\ Runs(todo, Unknown, toks, made)
    BY DEF PrecInv, ClauseInv, Ready, AllMadeWell, Behind
  <1>3. PICK g, t, b : g = todo[1] /\ t = Tail(todo) /\ b = Body(g.fn, g.from)
    OBVIOUS
  <1>4. Head(todo) = g /\ g.fn \in Functions /\ Plain(g)
    BY <1>1, <1>2, <1>3, Current, BehindTail
  <1>5. g.do = "call" /\ todo' = b \o t
    BY <1>1, <1>3, <1>4
  <1>6. Sequence(t) /\ Moved(todo, t, 1)
    BY <1>1, <1>2, <1>3, SequenceTail, MovedTail
  <1>7. Sequence(b) /\ \A i \in DOMAIN b : ~Operating(b[i])
    BY <1>3, <1>4, BodyStarted DEF Started, Goals, Unclaimed, Operating
  <1>8. PICK D, C, B : /\ Holds(D, toks, made) /\ Follows(D, g, C) /\ Weaker(C, B, toks, made)
                       /\ Path(B, t, Unknown, toks, made)
    BY <1>1, <1>2, <1>3, RunsFirst
  <1>9. PICK S : Runs(b, S, toks, made) /\ Weaker(S, C, toks, made)
    BY <1>2, <1>3, <1>4, <1>5, <1>8, CallRuns
  <1>10. Weaker(S, B, toks, made)
    BY <1>8, <1>9, WeakerBasics
  <1>11. Runs(b \o t, Unknown, toks, made)
    BY <1>2, <1>6, <1>7, <1>8, <1>9, <1>10, RunsJoin
  <1>12. Len(b) \in Nat
    BY <1>7, SequenceLen
  <1>13. Moved(t, b \o t, -Len(b))
    BY <1>6, <1>7, MovedJoined
  <1>14. -Len(b) \in Int /\ 1 \in Int
    BY <1>12
  <1>15. Moved(todo, b \o t, -Len(b) + 1)
    BY <1>6, <1>13, <1>14, MovedOn
  <1>16. -Len(b) + 1 \in Int
    BY <1>12
  <1> QED BY <1>5, <1>11, <1>15, <1>16

(* The current token is read.                                              *)
LEMMA AdvanceLen ==
    ASSUME Read(toks), Advance
    PROVE  Cur # "EOF" => Len(toks') = Len(toks) + 1
  <1> SUFFICES ASSUME Cur # "EOF"
               PROVE  Len(toks') = Len(toks) + 1
    OBVIOUS
  <1>1. PICK t : toks' = Append(toks, t)
    BY Zenon DEF Advance
  <1>2. PICK S : toks \in Seq(S)
    BY DEF Read, Sequence
  <1>3. PICK T : T = S \cup {t}
    OBVIOUS
  <1>4. toks \in Seq(T) /\ t \in T
    BY <1>2, <1>3
  <1> QED BY <1>1, <1>4

LEMMA ExpectPrec ==
    ASSUME PrecInv, ExpectToken, Sequence(todo')
    PROVE  Runs(todo', Unknown, toks', made) /\ \E d \in Int : Moved(todo, todo', d)
  <1>1. /\ todo # <<>> /\ Head(todo).do = "expect" /\ Cur \in Head(todo).of
        /\ todo' = Owning(Tail(todo)) /\ Advance
    BY DEF ExpectToken, Doing, Goal, CurMatches
  <1>2. /\ Read(toks) /\ Behind(todo) /\ Ends(todo) /\ Owned(todo, toks)
        /\ Sequence(made) /\ Sequence(todo) /\ Runs(todo, Unknown, toks, made)
    BY DEF PrecInv, ClauseInv, Ready, AllMadeWell, Behind
  <1>3. PICK g, t : g = todo[1] /\ t = Tail(todo)
    OBVIOUS
  <1>4. Head(todo) = g /\ g.do = "expect" /\ Cur \in g.of /\ todo' = Owning(t)
    BY <1>1, <1>2, <1>3, Current
  <1>5. Sequence(t) /\ Moved(todo, t, 1)
    BY <1>1, <1>2, <1>3, SequenceTail, MovedTail
  <1>6. PICK D, C, B : /\ Holds(D, toks, made) /\ Follows(D, g, C) /\ Weaker(C, B, toks, made)
                       /\ Path(B, t, Unknown, toks, made)
    BY <1>1, <1>2, <1>3, RunsFirst
  <1>7. Cur \notin Clauses => todo' = t
    BY <1>4 DEF Owning, Clauses
  <1>8. Grown(toks, toks') /\ Cur = toks[Len(toks)]
    BY <1>1, <1>2, AdvanceGrows DEF Cur, Pos
  <1>9. CASE D.is = "any"
    <2>1. B.is = "any"
      BY <1>6, <1>9, FactFields DEF Follows, Weaker, Unknown
    <2>2. Neutrals(t)
      BY <1>5, <1>6, <2>1, RunsUnknown
    <2>3. Neutrals(todo')
      <3>1. CASE Cur \notin Clauses
        BY <1>7, <2>2, <3>1
      <3>2. CASE Cur \in Clauses
        <4>1. Goals(t) /\ Ends(t) /\ Owned(t, toks)
          BY <1>1, <1>2, <1>3, <1>4, GoalsTail, BehindTail
        <4>2. Nearly(t)
          BY <4>1 DEF Goals, Nearly
        <4> QED BY <1>2, <1>4, <2>2, <3>2, <4>1, <4>2, OwningClause DEF Read
      <3> QED BY <3>1, <3>2
    <2>4. Runs(todo', Unknown, toks', made)
      BY <1>5, <1>6, <2>3, RunsUnknown
    <2>5. Moved(t, todo', 0)
      BY <1>5, <1>6, <2>3, RunsUnknown
    <2>6. Moved(todo, todo', 0 + 1)
      BY <1>5, <2>5, MovedOn
    <2> QED BY <2>4, <2>6
  <1>10. CASE D.is # "any"
    <2>1. Cur \notin {"EOF"} \cup Clauses
      BY <1>4, <1>6, <1>10, ExpectedInside
    <2>2. Len(toks') = Len(toks) + 1
      BY <1>1, <1>2, <2>1, AdvanceLen
    <2>3. Holds(C, toks', made)
      BY <1>2, <1>4, <1>6, <1>8, <1>10, <2>2, ExpectRun
    <2>4. More(made, made)
      BY <1>2, Growing
    <2>5. Holds(B, toks', made)
      BY <1>6, <1>8, <2>3, <2>4 DEF Weaker
    <2>6. Path(B, t, Unknown, toks', made)
      BY <1>6, <1>8, <2>4, RuleGrown
    <2>7. Runs(t, Unknown, toks', made)
      BY <2>5, <2>6 DEF Runs
    <2> QED BY <1>5, <1>7, <2>1, <2>7
  <1> QED BY <1>9, <1>10

(* An optional part is no part of an expression.                           *)
LEMMA MatchPrec ==
    ASSUME PrecInv, MatchToken, Sequence(todo')
    PROVE  Runs(todo', Unknown, toks', made) /\ \E d \in Int : Moved(todo, todo', d)
  <1>1. /\ todo # <<>> /\ Head(todo).do = "match" /\ Advance
        /\ todo' = Owning(Head(todo).body \o Tail(todo))
    BY DEF MatchToken, Doing, Goal, CurMatches
  <1>2. /\ Read(toks) /\ Behind(todo) /\ Ends(todo) /\ Owned(todo, toks)
        /\ Sequence(todo) /\ Runs(todo, Unknown, toks, made)
    BY DEF PrecInv, ClauseInv, Ready, Behind
  <1>3. PICK g, t, b : g = todo[1] /\ t = Tail(todo) /\ b = g.body
    OBVIOUS
  <1>4. Head(todo) = g /\ g.do = "match" /\ Flats(b) /\ todo' = Owning(b \o t)
    BY <1>1, <1>2, <1>3, Current
  <1>5. PICK D, C, B : /\ Holds(D, toks, made) /\ Follows(D, g, C) /\ Weaker(C, B, toks, made)
                       /\ Path(B, t, Unknown, toks, made)
    BY <1>1, <1>2, <1>3, RunsFirst
  <1>6. B.is = "any"
    BY <1>4, <1>5, FactFields DEF Follows, Weaker, Unknown
  <1>7. Sequence(t)
    BY <1>1, <1>2, <1>3, SequenceTail
  <1>8. Neutrals(t)
    BY <1>5, <1>6, <1>7, RunsUnknown
  <1>9. Sequence(b) /\ Neutrals(b) /\ Goals(b) /\ Owned(b, toks)
    BY <1>4, Lists, UnclaimedOwned DEF Listed, Started, Goals
  <1>10. PICK q : q = b \o t
    OBVIOUS
  <1>11. Neutrals(q)
    BY <1>7, <1>8, <1>9, <1>10, SequenceConcat DEF Neutrals
  <1>12. Neutrals(todo')
    <2>1. CASE Cur \notin Clauses
      BY <1>4, <1>10, <1>11, <2>1 DEF Owning, Clauses
    <2>2. CASE Cur \in Clauses
      <3>1. /\ Behind(t) /\ Ends(t) /\ Owned(t, toks) /\ t # <<>>
            /\ (Goes(t) => Offers(g, t[1]))
        BY <1>1, <1>2, <1>3, <1>4, BehindTail
      <3>2. Nearly(q)
        BY <1>4, <1>10, <3>1, JoinedNearly
      <3>3. Ends(q) /\ Owned(q, toks)
        BY <1>7, <1>9, <1>10, <3>1, JoinedEnds
      <3> QED BY <1>2, <1>4, <1>10, <1>11, <2>2, <3>2, <3>3, OwningClause DEF Read
    <2> QED BY <2>1, <2>2
  <1>13. Runs(todo', Unknown, toks', made)
    BY <1>5, <1>7, <1>12, RunsUnknown
  <1>14. Moved(todo, todo', 0)
    <2>1. PICK E : Path(E, todo, Unknown, toks, made)
      BY <1>2 DEF Runs
    <2> QED BY <1>2, <1>12, <2>1, RunsUnknown
  <1> QED BY <1>13, <1>14

LEMMA IteratePrec ==
    ASSUME PrecInv, Iterate
    PROVE  Runs(todo', Unknown, toks, made) /\ \E d \in Int : Moved(todo, todo', d)
  <1>1. todo # <<>> /\ Head(todo).do = "loop" /\ todo' = Head(todo).body \o todo
    BY DEF Iterate, Doing, Goal
  <1>2. /\ Read(toks) /\ Behind(todo) /\ Sequence(todo) /\ Runs(todo, Unknown, toks, made)
    BY DEF PrecInv, ClauseInv, Ready, Behind
  <1>3. PICK g, b : g = todo[1] /\ b = g.body
    OBVIOUS
  <1>4. Head(todo) = g /\ g.do = "loop" /\ Flats(b) /\ todo' = b \o todo
    BY <1>1, <1>2, <1>3, Current
  <1>5. Sequence(b) /\ Neutrals(b) /\ \A i \in DOMAIN b : ~Operating(b[i])
    BY <1>4, Lists DEF Listed, Started, Goals, Unclaimed, Operating
  <1>6. Moved(todo, b \o todo, -Len(b)) /\ -Len(b) \in Int
    BY <1>2, <1>5, MovedJoined, SequenceLen
  <1>7. PICK D : Holds(D, toks, made) /\ Path(D, todo, Unknown, toks, made)
    BY <1>2 DEF Runs
  <1>8. CASE D.is = "any"
    <2>1. Neutrals(todo)
      BY <1>2, <1>7, <1>8, RunsUnknown
    <2>2. Sequence(b \o todo) /\ Neutrals(b \o todo)
      BY <1>2, <1>5, <2>1, SequenceConcat DEF Neutrals
    <2> QED BY <1>2, <1>4, <1>6, <1>7, <2>2, RunsUnknown
  <1>9. CASE D.is # "any"
    <2>1. PICK B : Rule(D, g, B, toks, made)
      BY <1>1, <1>2, <1>3, <1>7, PathTail
    <2>2. PICK C : Follows(D, g, C)
      BY <2>1 DEF Rule
    <2>3. Path(D, b, D, toks, made)
      BY <1>3, <1>4, <1>9, <2>2, LoopRun
    <2>4. Path(D, b \o todo, Unknown, toks, made)
      BY <1>2, <1>5, <1>7, <2>3, PathJoin
    <2> QED BY <1>4, <1>6, <1>7, <2>4 DEF Runs
  <1> QED BY <1>8, <1>9

LEMMA PassPrec ==
    ASSUME PrecInv, PassBy
    PROVE  Runs(todo', Unknown, toks, made) /\ \E d \in Int : Moved(todo, todo', d)
  <1> DEFINE skipped(i) == /\ todo[i].do \in {"match", "loop", "operators"}
                           /\ Cur \notin todo[i].of
             left == {i \in DOMAIN todo : ~skipped(i)}
  <1>1. todo # <<>> /\ todo' = SubSeq(todo, Min(left), Len(todo))
    BY DEF PassBy
  <1>2. /\ Read(toks) /\ Behind(todo) /\ Ends(todo) /\ Sequence(made)
        /\ Sequence(todo) /\ Runs(todo, Unknown, toks, made)
    BY DEF PrecInv, ClauseInv, Ready, AllMadeWell, Behind
  <1>3. PICK n \in Nat : n = Len(todo) /\ DOMAIN todo = 1..n /\ n # 0
    BY <1>1, <1>2, SequenceLen
  <1>4. left # {} /\ left \in SUBSET Nat
    <2>1. n \in left
      BY <1>1, <1>2, <1>3 DEF Ends
    <2> QED BY <1>3, <2>1
  <1>5. PICK m : m = Min(left)
    OBVIOUS
  <1>6. m \in left /\ \A i \in left : m <= i
    <2> HIDE DEF left
    <2> QED BY <1>4, <1>5, MinProperties
  <1>7. m \in 1..n
    BY <1>3, <1>6
  <1>8. \A k \in DOMAIN todo : k < m => todo[k].do \in {"match", "loop", "operators"}
    <2> SUFFICES ASSUME NEW k \in DOMAIN todo, k < m
                 PROVE  todo[k].do \in {"match", "loop", "operators"}
      OBVIOUS
    <2>1. ~(m <= k)
      BY <1>3, <1>7
    <2>2. k \notin left
      BY <1>6, <2>1
    <2> QED BY <2>2
  <1> HIDE DEF left
  <1>9. todo' = SubSeq(todo, m, n)
    BY <1>1, <1>3, <1>5
  <1>10. PICK D : Holds(D, toks, made) /\ Path(D, todo, Unknown, toks, made)
    BY <1>2 DEF Runs
  <1>11. Runs(SubSeq(todo, m, n), Unknown, toks, made)
    BY <1>2, <1>3, <1>7, <1>8, <1>10, PathPass
  <1>12. Moved(todo, SubSeq(todo, m, n), m - 1)
    BY <1>2, <1>3, <1>7, MovedSub
  <1>13. m - 1 \in Int
    BY <1>7
  <1> QED BY <1>9, <1>11, <1>12, <1>13

(* An operator is the first of its operation.                              *)
LEMMA OperatorPrec ==
    ASSUME PrecInv, ReadOperator
    PROVE  Runs(todo', Unknown, toks', made) /\ Distinct(todo', made, toks')
  <1> DEFINE binary == [NodeFrom("Binary", Goal.from)
                          EXCEPT !.at = Pos, !.left = Last(made).kind]
  <1>1. /\ todo # <<>> /\ Head(todo).do = "operators" /\ Cur \in Head(todo).of
        /\ todo' = <<Call(Head(todo).fn), binary>> \o todo /\ Advance
    BY DEF ReadOperator, Doing, Goal, CurMatches
  <1>2. /\ Read(toks) /\ Behind(todo) /\ Sequence(made) /\ Sequence(todo)
        /\ Runs(todo, Unknown, toks, made) /\ Distinct(todo, made, toks)
    BY DEF PrecInv, ClauseInv, Ready, AllMadeWell, Behind
  <1>3. PICK g : g = todo[1]
    OBVIOUS
  <1>4. Head(todo) = g /\ Goal = g /\ g.do = "operators" /\ Cur \in g.of
    BY <1>1, <1>2, <1>3, Current DEF Goal
  <1>5. binary = [do |-> "node", kind |-> "Binary", from |-> g.from, at |-> Pos,
                  left |-> Last(made).kind]
    <2>1. binary = [do |-> "node", kind |-> "Binary", from |-> Goal.from, at |-> Pos,
                    left |-> Last(made).kind]
      BY OperationGoal
    <2> HIDE DEF binary
    <2> QED BY <1>4, <2>1
  <1> HIDE DEF binary
  <1>6. PICK c, b : c = Call(g.fn) /\ b = binary
    OBVIOUS
  <1>7. PICK r : r = <<c, b>>
    OBVIOUS
  <1>8. todo' = r \o todo
    BY <1>1, <1>4, <1>6, <1>7
  <1>9. PICK D : Holds(D, toks, made) /\ Path(D, todo, Unknown, toks, made)
    BY <1>2 DEF Runs
  <1>10. PICK B : Rule(D, g, B, toks, made)
    BY <1>1, <1>2, <1>3, <1>9, PathTail
  <1>11. PICK S : Follows(D, g, S)
    BY <1>10 DEF Rule
  <1>12. D.is # "any"
    <2>1. D.is = "any" => Neutral(g)
      BY <1>11 DEF Follows
    <2> QED BY <1>2, <1>4, <1>9, <2>1, RunsUnknown
  <1>13. Grown(toks, toks') /\ More(made, made) /\ Read(toks')
    BY <1>1, <1>2, AdvanceGrows, Growing DEF Grown
  <1>14. Len(toks') = Len(toks) + 1
    <2>1. Cur \in RelOp \cup ArithmeticOp
      BY <1>4, <1>11, <1>12 DEF Follows, OperatorsFollows
    <2>2. Cur # "EOF"
      BY <2>1 DEF RelOp, ArithmeticOp, AddOp, MulOp
    <2> QED BY <1>1, <1>2, <2>2, AdvanceLen
  <1>15. PICK C : Runs(r, C, toks', made) /\ Weaker(C, D, toks', made)
    BY <1>2, <1>4, <1>5, <1>6, <1>7, <1>9, <1>11, <1>12, <1>13, <1>14, OperatorsRun
  <1>16. Path(D, todo, Unknown, toks', made)
    BY <1>9, <1>13, RuleGrown
  <1>17. Sequence(r) /\ DOMAIN r = {1, 2} /\ Len(r) = 2 /\ r[1] = c /\ r[2] = b
    BY <1>7, Tuple2
  <1>18. Runs(r \o todo, Unknown, toks', made)
    BY <1>2, <1>13, <1>15, <1>16, <1>17, RunsJoin
  <1>19. PICK u : u = r \o todo
    OBVIOUS
  <1>20. \A i \in DOMAIN u : \/ i \in DOMAIN r /\ u[i] = r[i]
                             \/ i - 2 \in DOMAIN todo /\ u[i] = todo[i - 2]
    <2>1. PICK l, s : l = Len(r) /\ s = r
      OBVIOUS
    <2>2. \A i \in DOMAIN u : \/ i \in DOMAIN r /\ u[i] = r[i]
                              \/ i - l \in DOMAIN todo /\ u[i] = todo[i - l]
      <3>1. Sequence(s) /\ Sequence(todo) /\ u = s \o todo /\ l = Len(s) /\ s = r
        BY <1>2, <1>17, <1>19, <2>1
      <3>2. \A i \in DOMAIN (s \o todo) :
               \/ i \in DOMAIN s /\ (s \o todo)[i] = s[i]
               \/ i - Len(s) \in DOMAIN todo /\ (s \o todo)[i] = todo[i - Len(s)]
        <4>1. Sequence(s) /\ Sequence(todo)
          BY <3>1
        <4> QED BY <4>1, SequenceConcat
      <3> QED BY <3>1, <3>2
    <2> QED BY <1>17, <2>1, <2>2
  <1>21. DOMAIN u \subseteq Int
    <2>1. Sequence(u)
      BY <1>2, <1>17, <1>19, SequenceConcat
    <2> QED BY <2>1, SequenceLen
  <1>22. c.do = "call" /\ b.at = Pos
    BY <1>5, <1>6 DEF Call, CallFrom
  <1>23. \A i \in DOMAIN u : Operating(u[i]) =>
            \/ i = 2 /\ u[i].at = Pos
            \/ \E j \in DOMAIN todo : i = j + 2 /\ u[i] = todo[j]
    <2> SUFFICES ASSUME NEW i \in DOMAIN u, Operating(u[i])
                 PROVE  \/ i = 2 /\ u[i].at = Pos
                        \/ \E j \in DOMAIN todo : i = j + 2 /\ u[i] = todo[j]
      OBVIOUS
    <2>1. CASE i \in DOMAIN r /\ u[i] = r[i]
      BY <1>17, <1>22, <2>1 DEF Operating
    <2>2. CASE i - 2 \in DOMAIN todo /\ u[i] = todo[i - 2]
      <3>1. PICK j : j = i - 2
        OBVIOUS
      <3>2. i = j + 2
        BY <1>21, <3>1
      <3> QED BY <2>2, <3>1, <3>2
    <2> QED BY <1>20, <2>1, <2>2
  <1>24. Pos = Len(toks) /\ Pos \in Nat /\ Len(toks') = Pos + 1
    BY <1>2, <1>14, CurrentToken
  <1>25. /\ \A j \in DOMAIN todo : Operating(todo[j]) =>
               todo[j].at \in Nat /\ todo[j].at # Pos /\ todo[j].at < Pos + 1
         /\ \A k \in DOMAIN made : made[k].kind = "Binary" =>
               made[k].at \in Nat /\ made[k].at # Pos /\ made[k].at < Pos + 1
    BY <1>2, <1>24 DEF Distinct
  <1>26. \A i \in DOMAIN u : Operating(u[i]) => u[i].at \in Nat /\ u[i].at < Pos + 1
    BY <1>23, <1>24, <1>25
  <1>27. \A i, j \in DOMAIN u :
            Operating(u[i]) /\ Operating(u[j]) /\ u[i].at = u[j].at => i = j
    <2> SUFFICES ASSUME NEW i \in DOMAIN u, NEW j \in DOMAIN u,
                        Operating(u[i]), Operating(u[j]), u[i].at = u[j].at
                 PROVE  i = j
      OBVIOUS
    <2>1. CASE i = 2 /\ u[i].at = Pos
      <3>1. \/ j = 2
            \/ \E q \in DOMAIN todo : u[j] = todo[q]
        BY <1>23
      <3> QED BY <1>25, <2>1, <3>1
    <2>2. CASE j = 2 /\ u[j].at = Pos
      <3>1. \/ i = 2
            \/ \E q \in DOMAIN todo : u[i] = todo[q]
        BY <1>23
      <3> QED BY <1>25, <2>2, <3>1
    <2>3. ASSUME NEW p \in DOMAIN todo, i = p + 2, u[i] = todo[p],
                 NEW q \in DOMAIN todo, j = q + 2, u[j] = todo[q]
          PROVE  i = j
      <3>1. p = q
        BY <1>2, <2>3 DEF Distinct
      <3> QED BY <2>3, <3>1
    <2> QED BY <1>23, <2>1, <2>2, <2>3
  <1>28. \A i \in DOMAIN u, k \in DOMAIN made :
            Operating(u[i]) /\ made[k].kind = "Binary" => u[i].at # made[k].at
    BY <1>2, <1>23, <1>25 DEF Distinct
  <1>29. \A k \in DOMAIN made : made[k].kind = "Binary" =>
            made[k].at \in Nat /\ made[k].at < Pos + 1
    BY <1>25
  <1>30. Distinct(u, made, toks')
    BY <1>2, <1>24, <1>26, <1>27, <1>28, <1>29 DEF Distinct
  <1> QED BY <1>8, <1>18, <1>19, <1>30

LEMMA MakePrec ==
    ASSUME PrecInv, MakeNode
    PROVE  /\ Runs(todo', Unknown, toks, made') /\ AllRead(made', toks)
           /\ Distinct(todo', made', toks)
  <1>1. /\ todo # <<>> /\ Head(todo).do = "node" /\ todo' = Tail(todo)
        /\ made' = Append(made, [kind |-> Goal.kind, from |-> Goal.from, at |-> Goal.at,
                                 to |-> LastRead, left |-> Goal.left])
    BY DEF MakeNode, Doing, Goal
  <1>2. /\ Read(toks) /\ Behind(todo) /\ Sequence(made) /\ Sequence(todo)
        /\ Runs(todo, Unknown, toks, made) /\ Distinct(todo, made, toks)
        /\ AllRead(made, toks)
    BY DEF PrecInv, ClauseInv, Ready, AllMadeWell, Behind
  <1>3. PICK g, t, o : g = todo[1] /\ t = Tail(todo) /\ o = made'
    OBVIOUS
  <1>4. PICK n : n = [kind |-> Goal.kind, from |-> Goal.from, at |-> Goal.at,
                      to |-> LastRead, left |-> Goal.left]
    OBVIOUS
  <1>5. Head(todo) = g /\ Goal = g /\ g.do = "node" /\ LastRead = Len(toks) - 1
    BY <1>1, <1>2, <1>3, Current DEF Goal, LastRead, Pos
  <1>6. /\ n.kind = g.kind /\ n.from = g.from /\ n.at = g.at /\ n.left = g.left
        /\ n.to = Len(toks) - 1
    BY <1>4, <1>5
  <1>7. Added(made, n, o)
    BY <1>1, <1>3, <1>4 DEF Added
  <1>8. More(made, o) /\ Grown(toks, toks) /\ Sequence(t) /\ Len(toks) \in Nat
    BY <1>1, <1>2, <1>3, <1>7, OneMore, Growing, SequenceTail, SequenceLen DEF Read
  <1>9. PICK D, C, B : /\ Holds(D, toks, made) /\ Follows(D, g, C) /\ Weaker(C, B, toks, made)
                       /\ Path(B, t, Unknown, toks, made)
    BY <1>1, <1>2, <1>3, RunsFirst
  <1>10. /\ Runs(t, Unknown, toks, o)
         /\ n.kind = "Binary" => Operated(n, toks, o)
         /\ n.kind = "Modify" => Written(n, toks, o)
    <2>1. CASE D.is = "any"
      <3>1. B.is = "any" /\ Neutral(g)
        BY <1>9, <2>1, FactFields DEF Follows, Weaker, Unknown
      <3>2. Neutrals(t)
        BY <1>8, <1>9, <3>1, RunsUnknown
      <3>3. Runs(t, Unknown, toks, o)
        BY <1>8, <1>9, <3>2, RunsUnknown
      <3>4. g.kind \notin {"Binary", "Modify"}
        BY <1>5, <1>8, <1>9, <3>1, RunsUnknown
      <3> QED BY <1>6, <3>3, <3>4
    <2>2. CASE D.is # "any"
      <3>1. /\ Holds(C, toks, o)
            /\ g.kind = "Binary" => Operated(n, toks, o)
            /\ g.kind = "Modify" => Written(n, toks, made)
        BY <1>2, <1>5, <1>6, <1>7, <1>9, <2>2, NodeRun
      <3>2. Holds(B, toks, o)
        BY <1>8, <1>9, <3>1 DEF Weaker
      <3>3. Path(B, t, Unknown, toks, o)
        BY <1>8, <1>9, RuleGrown
      <3>4. Written(n, toks, made) => Written(n, toks, o)
        BY <1>2, <1>8, ReadGrown
      <3> QED BY <1>6, <3>1, <3>2, <3>3, <3>4 DEF Runs
    <2> QED BY <2>1, <2>2
  <1>11. AllRead(o, toks)
    <2> SUFFICES ASSUME NEW k \in DOMAIN o
                 PROVE  /\ o[k].kind = "Binary" => Operated(o[k], toks, o)
                        /\ o[k].kind = "Modify" => Written(o[k], toks, o)
      BY DEF AllRead
    <2>1. CASE k \in DOMAIN made
      <3>1. o[k] = made[k]
        BY <1>8, <2>1 DEF More
      <3>2. /\ made[k].kind = "Binary" => Operated(made[k], toks, made)
            /\ made[k].kind = "Modify" => Written(made[k], toks, made)
        BY <1>2, <2>1 DEF AllRead
      <3>3. /\ Operated(made[k], toks, made) => Operated(made[k], toks, o)
            /\ Written(made[k], toks, made) => Written(made[k], toks, o)
        BY <1>2, <1>8, ReadGrown
      <3> QED BY <3>1, <3>2, <3>3
    <2>2. CASE k \notin DOMAIN made
      <3>1. o[k] = n
        BY <1>2, <1>7, <2>2, OneMore
      <3> QED BY <1>10, <3>1
    <2> QED BY <2>1, <2>2
  <1>12. Distinct(t, o, toks)
    <2>1. n.kind = "Binary" => Operating(g) /\ n.at = g.at
      <3> SUFFICES ASSUME n.kind = "Binary"
                   PROVE  n.at # 0
        BY <1>5, <1>6 DEF Operating
      <3>1. PICK l : /\ Operand(toks, o, n.from, n.to, l)
                     /\ LooserThanRest(toks, n.from, n.to, n.at)
        BY <1>10 DEF Operated
      <3>2. n.from \in Nat /\ n.at \in n.from + 1..n.to
        BY <3>1 DEF Operand, Nesting, LooserThanRest, OperatorsIn
      <3> QED BY <3>2
    <2> QED BY <1>1, <1>2, <1>3, <1>7, <1>8, <2>1, MadeDistinct
  <1> QED BY <1>1, <1>3, <1>10, <1>11, <1>12

LEMMA NextPrecInv == PrecInv /\ [Next]_vars => PrecInv'
  <1> SUFFICES ASSUME PrecInv, [Next]_vars
               PROVE  PrecInv'
    OBVIOUS
  <1>1. ClauseInv'
    BY NextClauseInv DEF PrecInv
  <1>2. Sequence(todo') /\ Sequence(made') /\ Read(toks')
    BY <1>1 DEF ClauseInv, Ready, Behind, AllMadeWell
  <1>3. /\ Read(toks) /\ Sequence(made) /\ Sequence(todo) /\ AllRead(made, toks)
        /\ Distinct(todo, made, toks)
    BY DEF PrecInv, ClauseInv, Ready, Behind, AllMadeWell
  <1>4. Grown(toks, toks) /\ More(made, made)
    BY <1>3, Growing
  <1>5. ASSUME Grown(toks, toks'), made' = made
        PROVE  AllRead(made', toks')
    <2>1. \A x : /\ Operated(x, toks, made) => Operated(x, toks', made)
                 /\ Written(x, toks, made) => Written(x, toks', made)
      BY <1>3, <1>4, <1>5, ReadGrown
    <2> QED BY <1>3, <1>5, <2>1 DEF AllRead
  <1>6. ASSUME Grown(toks, toks'), made' = made, Runs(todo', Unknown, toks', made),
               NEW d \in Int, Moved(todo, todo', d)
        PROVE  PrecInv'
    <2>1. Len(toks) \in Nat /\ Len(toks') \in Nat /\ Len(toks) <= Len(toks')
      BY <1>3, <1>6, GrownLen
    <2>2. Distinct(todo', made, toks')
      BY <1>3, <1>6, <2>1, MovedDistinct
    <2> QED BY <1>1, <1>5, <1>6, <2>2 DEF PrecInv
  <1>7. CASE EnterFunction
    <2>1. toks' = toks /\ made' = made
      BY <1>7 DEF EnterFunction
    <2>2. Runs(todo', Unknown, toks, made) /\ \E d \in Int : Moved(todo, todo', d)
      BY <1>7, EnterPrec
    <2> QED BY <1>4, <1>6, <2>1, <2>2
  <1>8. CASE ExpectToken
    <2>1. made' = made /\ Advance
      BY <1>8 DEF ExpectToken
    <2>2. Runs(todo', Unknown, toks', made) /\ \E d \in Int : Moved(todo, todo', d)
      BY <1>2, <1>8, ExpectPrec
    <2>3. Grown(toks, toks')
      BY <1>3, <2>1, AdvanceGrows
    <2> QED BY <1>6, <2>1, <2>2, <2>3
  <1>9. CASE MatchToken
    <2>1. made' = made /\ Advance
      BY <1>9 DEF MatchToken
    <2>2. Runs(todo', Unknown, toks', made) /\ \E d \in Int : Moved(todo, todo', d)
      BY <1>2, <1>9, MatchPrec
    <2>3. Grown(toks, toks')
      BY <1>3, <2>1, AdvanceGrows
    <2> QED BY <1>6, <2>1, <2>2, <2>3
  <1>10. CASE Iterate
    <2>1. toks' = toks /\ made' = made
      BY <1>10 DEF Iterate
    <2>2. Runs(todo', Unknown, toks, made) /\ \E d \in Int : Moved(todo, todo', d)
      BY <1>10, IteratePrec
    <2> QED BY <1>4, <1>6, <2>1, <2>2
  <1>11. CASE ReadOperator
    <2>1. made' = made /\ Advance
      BY <1>11 DEF ReadOperator
    <2>2. Runs(todo', Unknown, toks', made) /\ Distinct(todo', made, toks')
      BY <1>11, OperatorPrec
    <2>3. Grown(toks, toks')
      BY <1>3, <2>1, AdvanceGrows
    <2> QED BY <1>1, <1>5, <2>1, <2>2, <2>3 DEF PrecInv
  <1>12. CASE PassBy
    <2>1. toks' = toks /\ made' = made
      BY <1>12 DEF PassBy
    <2>2. Runs(todo', Unknown, toks, made) /\ \E d \in Int : Moved(todo, todo', d)
      BY <1>12, PassPrec
    <2> QED BY <1>4, <1>6, <2>1, <2>2
  <1>13. CASE MakeNode
    <2>1. toks' = toks
      BY <1>13 DEF MakeNode
    <2>2. /\ Runs(todo', Unknown, toks, made') /\ AllRead(made', toks)
          /\ Distinct(todo', made', toks)
      BY <1>13, MakePrec
    <2> QED BY <1>1, <2>1, <2>2 DEF PrecInv
  <1>14. CASE Error \/ Accept \/ UNCHANGED vars
    <2>1. toks' = toks /\ made' = made /\ todo' = todo
      BY <1>14 DEF Error, Accept, vars
    <2> QED BY <1>1, <2>1 DEF PrecInv
  <1> QED BY <1>7, <1>8, <1>9, <1>10, <1>11, <1>12, <1>13, <1>14 DEF Next

LEMMA PrecInvPrecedence == PrecInv => Precedence
  <1> SUFFICES ASSUME PrecInv, NEW n \in Nodes, n.kind = "Binary"
               PROVE  LET ops == OperatorsOf(n.from, n.to)
                      IN /\ n.at \in ops
                         /\ \A p \in ops : \/ Level(p) > Level(n.at)
                                           \/ Level(p) = Level(n.at) /\ p <= n.at
                         /\ \A p \in ops :
                               Cardinality({m \in Nodes : m.kind = "Binary" /\ m.at = p}) = 1
    BY DEF Precedence
  <1> DEFINE ops == OperatorsOf(n.from, n.to)
  <1>1. AllRead(made, toks) /\ Distinct(todo, made, toks)
    BY DEF PrecInv
  <1>2. PICK k \in DOMAIN made : n = made[k]
    BY DEF Nodes, ToSet
  <1>3. PICK l : Operand(toks, made, n.from, n.to, l) /\ LooserThanRest(toks, n.from, n.to, n.at)
    BY <1>1, <1>2 DEF AllRead, Operated
  <1>4. ops = OperatorsIn(toks, n.from, n.to)
    BY ParserTerms
  <1>5. \A j : Level(j) = LevelOf(toks[j])
    BY ParserTerms
  <1> HIDE DEF ops
  <1>6. n.at \in ops /\ \A p \in ops : \/ Level(p) > Level(n.at)
                                       \/ Level(p) = Level(n.at) /\ p <= n.at
    BY <1>3, <1>4, <1>5 DEF LooserThanRest
  <1>7. ASSUME NEW p \in ops
        PROVE  Cardinality({m \in Nodes : m.kind = "Binary" /\ m.at = p}) = 1
    <2>1. PICK q \in DOMAIN made : made[q].kind = "Binary" /\ made[q].at = p
      BY <1>3, <1>4 DEF Operand, Done
    <2>2. PICK x : x = made[q]
      OBVIOUS
    <2>3. \A m \in Nodes : m.kind = "Binary" /\ m.at = p => m = x
      BY <1>1, <2>1, <2>2 DEF Distinct, Nodes, ToSet
    <2>4. x \in Nodes /\ x.kind = "Binary" /\ x.at = p
      BY <2>1, <2>2 DEF Nodes, ToSet
    <2>5. {m \in Nodes : m.kind = "Binary" /\ m.at = p} = {x}
      BY <2>3, <2>4
    <2>6. Cardinality({x}) = 1
      BY FS_Singleton
    <2> QED BY <2>5, <2>6
  <1> QED BY <1>6, <1>7 DEF ops

LEMMA PrecInvModify == PrecInv => ModifyReadsAsWritten
  <1> SUFFICES ASSUME PrecInv, NEW n \in Nodes, n.kind = "Modify"
               PROVE  \E value \in Nodes :
                         /\ value.kind = "Binary" /\ n.from <= value.from /\ value.to <= n.to
                         /\ \A i \in n.from..value.at - 1 :
                               toks[i] \in {"(", ")", "x"} \cup Registers
                         /\ \A i \in value.to + 1..n.to : toks[i] = ")"
    BY DEF ModifyReadsAsWritten
  <1>1. PICK k \in DOMAIN made : n = made[k]
    BY DEF Nodes, ToSet
  <1>2. PICK q \in DOMAIN made : ShortForm(toks, n.from, n.to, made[q])
    BY <1>1 DEF PrecInv, AllRead, Written
  <1>3. made[q] \in Nodes
    BY DEF Nodes, ToSet
  <1> QED BY <1>2, <1>3 DEF ShortForm, AllBare, AllClose, Bare

(* Each operation applies the last of its loosest operators, and each      *)
(* operator in it is that of exactly one operation: in the functions of    *)
(* the expressions (pl11_parser.cpp:763-797) and in the loops around the   *)
(* identifier a statement begins with (:467-492).                          *)
THEOREM ParserPrecedence == Spec => []Precedence
  <1> QED BY InitPrecInv, NextPrecInv, PrecInvPrecedence, PTL DEF Spec

(* A statement is taken for V op= E only when V, perhaps in parentheses,   *)
(* is all of the left operand and E all of the right (:496-505, :521-528). *)
THEOREM ParserModifyReadsAsWritten == Spec => []ModifyReadsAsWritten
  <1> QED BY InitPrecInv, NextPrecInv, PrecInvModify, PTL DEF Spec
=============================================================================
