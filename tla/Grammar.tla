------------------------------ MODULE Grammar ------------------------------
(***************************************************************************)
(* The language that the parser is to read: the grammar of                 *)
(* src/grammar/pl11.ebnf as data, and the parser compared with it.         *)
(*                                                                         *)
(* A rule is read without looking ahead and without choosing: all the ways *)
(* to match it are followed at once.  It comes in two strengths, for the   *)
(* parser takes more than the grammar promises.  The strict one is the     *)
(* grammar, but for what the parser is known to refuse (README.md); the    *)
(* lax one also has what the parser takes beyond it.                       *)
(***************************************************************************)
EXTENDS Parser

(* Matching the rule r from token i of s yields the set of the positions   *)
(* behind a match, and More if the tokens end inside one.                  *)
More == 0

T(ts)    == [op |-> "token", of |-> ts]
N(name)  == [op |-> "rule", of |-> name]
Seq1(rs) == [op |-> "seq", of |-> rs]
Alt(rs)  == [op |-> "alt", of |-> rs]
Opt(r)   == Alt(<<r, Seq1(<<>>)>>)
Star(r)  == [op |-> "star", of |-> r]
Not(ts)  == [op |-> "not", of |-> ts]      \* the next token is none of these

List(r)  == Seq1(<<r, Star(Seq1(<<T({","}), r>>))>>)
Paren(r) == Seq1(<<T({"("}), r, T({")"})>>)
K(t)     == T({t})

E == N("expression")
S == N("statement")

Rule(name, lax) ==
    LET Lax(r)   == IF lax THEN r ELSE Alt(<<>>)
        OptLax(r) == IF lax THEN Opt(r) ELSE r
        Semi     == OptLax(K(";"))
        Until    == Opt(Seq1(<<K("UNTIL"), E>>))
        Element  == Seq1(<<K("x"), Opt(Paren(List(E)))>>)
        IndE     == Seq1(<<K("IND"), Paren(E)>>)
        Register == Alt(<<T(Registers), Lax(Paren(N("register")))>>)
        (* V op E, the operator being the one of the whole statement       *)
        Modify(v) == Seq1(<<v, Alt(<<Seq1(<<T(MulOp), N("unary")>>),
                                     Seq1(<<T(AddOp), N("mul")>>)>>)>>)
        Binary(sub, ops) == Seq1(<<sub, Star(Seq1(<<T(ops), sub>>))>>)
    IN CASE name = "program" -> Seq1(<<N("block"), K("EOF")>>)
         [] name = "block" ->
              Seq1(<<K("BEGIN"), Star(Seq1(<<N("declaration"), Semi>>)),
                     N("stmt_list"), K("END")>>)
         [] name = "stmt_list" ->
              IF lax THEN Star(Seq1(<<S, Semi>>))
              ELSE Opt(Seq1(<<S, Star(Seq1(<<K(";"), S>>)), Opt(K(";"))>>))
         [] name = "declaration" ->
              Alt(<<Seq1(<<N("type"), List(Seq1(<<K("x"), Opt(Paren(List(N("dim"))))>>))>>),
                    Seq1(<<N("type"), List(K("n")), K("ARRAY"), List(K("x"))>>),
                    Seq1(<<K("CONSTANT"), N("type"), K("x"), K("="),
                           Alt(<<T(Literals), Lax(N("primary"))>>)>>),
                    Seq1(<<Opt(N("type")), K("PROCEDURE"), K("x"),
                           Opt(Paren(Seq1(<<N("param"),
                               Star(Seq1(<<T(IF lax THEN {";", ","} ELSE {";"}),
                                           N("param")>>))>>))),
                           K(";"), N("block")>>),
                    Seq1(<<Lax(N("type")), K("PROCEDURE"), K("FORWARD"), K("x")>>),
                    Seq1(<<K("PROCEDURE"), K("FORWARD"), K("x")>>)>>)
         [] name = "dim"   -> Alt(<<K("n"), Lax(Paren(N("dim")))>>)
         [] name = "type"  ->
              Alt(<<T(TypeKeyword),
                    Seq1(<<T({"REAL", "CHARACTER", "BIT"} \cup (IF lax THEN {"WORD"} ELSE {})),
                           K("*"), K("n")>>)>>)
         [] name = "param" ->
              Seq1(<<Opt(Alt(<<T({"IN", "OUT"}), Seq1(<<K("IN"), K("OUT")>>)>>)),
                     N("type"), K("x")>>)
         [] name = "statement" -> Alt(<<N("simple"), N("open")>>)
         [] name = "simple" ->
              Alt(<<N("block"),
                    Seq1(<<Not({"SP", "PC"}), E, K("=>"), N("variable")>>),
                    Modify(K("x")),
                    Seq1(<<Not({"SP", "PC"}), N("modify_register")>>),
                    Seq1(<<K("REPEAT"),
                           IF lax THEN N("stmt_list")
                           ELSE Seq1(<<Star(Seq1(<<S, K(";")>>)), Opt(N("simple"))>>),
                           K("UNTIL"), E>>),
                    Seq1(<<K("CASE"), E, K("OF"),
                           Star(Seq1(<<K("n"), K(":"), S, Semi>>)), K("END")>>),
                    Seq1(<<K("CALL"), Element>>),
                    Seq1(<<K("RETURN"), Opt(Paren(E))>>),
                    Seq1(<<K("GOTO"), K("x")>>),
                    Seq1(<<K("ASM"), Paren(K("s"))>>),
                    Seq1(<<K("PRINT"), Paren(Seq1(<<K("s"), Star(Seq1(<<K(","), E>>))>>))>>),
                    Seq1(<<K("PUSH"), E>>),
                    Seq1(<<K("POP"), N("variable")>>)>>)
         [] name = "modify_register" ->
              Alt(<<Modify(Register), Lax(Paren(N("modify_register")))>>)
         [] name = "open" ->        \* statements that end in a statement
              Alt(<<Seq1(<<K("IF"), E, K("THEN"), S, Opt(Seq1(<<K("ELSE"), S>>))>>),
                    Seq1(<<K("WHILE"), E, K("DO"), S, Until>>),
                    Seq1(<<K("FOR"), K("x"), Opt(Seq1(<<K("FROM"), E>>)),
                           Opt(Seq1(<<K("STEP"), E>>)), T({"TO", "DOWNTO"}), E,
                           K("DO"), S, Until>>),
                    Seq1(<<K("DO"), OptLax(Alt(<<K(";"), S>>)), Until>>),
                    Seq1(<<K("x"), K(":"), S>>)>>)
         [] name = "variable" ->
              Seq1(<<Alt(<<Element, T(Registers), IndE>>),
                     Star(Lax(K("^")))>>)
         [] name = "expression" -> Binary(N("add"), RelOp)
         [] name = "add"        -> Binary(N("mul"), AddOp)
         [] name = "mul"        -> Binary(N("unary"), MulOp)
         [] name = "unary" ->
              Alt(<<Seq1(<<T({"-", "NOT"}), N("unary")>>),
                    Seq1(<<N("primary"), Star(Alt(<<Paren(List(E)), Lax(K("^"))>>))>>)>>)
         [] name = "register" -> Register
         [] name = "primary" ->
              Alt(<<T(Literals \cup Registers \cup {"x"}),
                    Seq1(<<K("x"), Paren(OptLax(List(E)))>>),
                    Seq1(<<K("REF"), Paren(IF lax THEN E ELSE N("variable"))>>),
                    IndE, Paren(E)>>)

Rules == {"program", "block", "stmt_list", "declaration", "dim", "type", "param",
          "statement", "simple", "modify_register", "open", "variable", "expression",
          "add", "mul", "unary", "register", "primary"}
LaxRules    == [name \in Rules |-> Rule(name, TRUE)]
StrictRules == [name \in Rules |-> Rule(name, FALSE)]

RECURSIVE Ends(_, _, _, _), EndsOfSeq(_, _, _, _), EndsOfStar(_, _, _, _, _)

Ends(r, s, i, lax) ==
    CASE r.op = "token" -> IF i > Len(s) THEN {More}
                           ELSE IF s[i] \in r.of THEN {i + 1} ELSE {}
      [] r.op = "rule"  -> Ends(IF lax THEN LaxRules[r.of] ELSE StrictRules[r.of], s, i, lax)
      [] r.op = "alt"   -> UNION {Ends(r.of[k], s, i, lax) : k \in DOMAIN r.of}
      [] r.op = "seq"   -> EndsOfSeq(r.of, s, {i}, lax)
      [] r.op = "star"  -> EndsOfStar(r.of, s, {i}, {i}, lax)
      [] r.op = "not"   -> IF i <= Len(s) /\ s[i] \in r.of THEN {} ELSE {i}

(* From each of the positions in I.                                        *)
EndsOfSeq(rs, s, I, lax) ==
    IF rs = <<>> \/ I \subseteq {More} THEN I
    ELSE EndsOfSeq(Tail(rs), s,
                   (I \cap {More}) \cup UNION {Ends(rs[1], s, i, lax) : i \in I \ {More}}, lax)
EndsOfStar(r, s, new, I, lax) ==
    LET next == UNION {Ends(r, s, i, lax) : i \in new \ {More}} \ I
    IN IF next = {} THEN I ELSE EndsOfStar(r, s, next, I \cup next, lax)

ProgramEnds(lax) == Ends(N("program"), toks, 1, lax)

(* What the parser accepts is a program, of the lax grammar: no token is   *)
(* skipped, and no part that must be there is left out.                    *)
AcceptedIsProgram == status = "accepted" => Pos + 1 \in ProgramEnds(TRUE)

(* The parser decides on one token, and without going back.  When it stops *)
(* at a token, no program of the strict grammar begins like that: it has   *)
(* not taken a wrong turn at an earlier one.                               *)
RejectedIsNoProgram ==
    status = "rejected" => ProgramEnds(FALSE) = {}
=============================================================================
