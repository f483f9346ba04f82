---------------------------- MODULE Names_proof ----------------------------
(***************************************************************************)
(* Sema and Codegen resolve every name as the text says, for every program *)
(* that the parser can build: both scope stacks are shown to be, at each   *)
(* node, what the nesting of the declarations before it makes them.        *)
(***************************************************************************)
EXTENDS Names, SequenceTheorems, FiniteSetTheorems, TLAPS

(***************************************************************************)
(* What is said of a program alone, of its node i or of the place before   *)
(* it.                                                                     *)
(***************************************************************************)

(* Node d declares x in the k-th scope of those open at i.                 *)
Declared(p, d, k, x, i) ==
    /\ d \in 1..(i - 1)
    /\ p[d].op \in Declares
    /\ p[d].name = x
    /\ DepthIn(p, d) + 1 = k
    /\ \A j \in (d + 1)..i : DepthIn(p, j) >= DepthIn(p, d)

(* sc is the stack at i of a pass that sets symbols at the nodes in ops.   *)
ScopesAre(p, sc, i, ops) ==
    /\ sc \in Seq([Name -> 0..Len(p)])
    /\ Len(sc) = DepthIn(p, i) + 1
    /\ \A k \in 1..Len(sc) : \A x \in Name :
          /\ sc[k][x] # 0 => /\ Declared(p, sc[k][x], k, x, i)
                             /\ p[sc[k][x]].op \in ops
          /\ \A d \in 1..Len(p) : Declared(p, d, k, x, i) =>
                 sc[k][x] = IF p[d].op \in ops THEN d ELSE 0

(* No declaration before i is in the scope of i and of the name of i.      *)
Fresh(p, i) == \A d \in 1..Len(p) : ~Declared(p, d, DepthIn(p, i) + 1, p[i].name, i)

(* Block or procedure o is open at i.                                      *)
Opened(p, o, i) == /\ o \in 1..(i - 1)
                   /\ p[o].op \in {"block", "proc"}
                   /\ \A j \in (o + 1)..i : DepthIn(p, j) > DepthIn(p, o)

(* f is the procedure that i belongs to, 0 for main.                       *)
Inside(p, f, i) ==
    /\ f # 0 => Opened(p, f, i) /\ p[f].op = "proc"
    /\ \A g \in 1..Len(p) : Opened(p, g, i) /\ p[g].op = "proc" => g <= f

ReturnType(p, f) == IF f = 0 THEN "void" ELSE p[f].ret

(* What a handler keeps of the procedure f, in either pass.                *)
Keeps(p, s, f, pass) == IF pass = "sema" THEN s.ret = ReturnType(p, f) ELSE s.fn = f

SavedSet(p) == [op : {"block", "proc"}, ret : Types, fn : 0..Len(p)]

(* sv are the handlers active at i, and what they keep is of the procedures*)
(* around them.                                                            *)
SavedAre(p, sv, i, pass) ==
    /\ sv \in Seq(SavedSet(p))
    /\ Len(sv) = DepthIn(p, i)
    /\ \A k \in 1..Len(sv) : \E o \in 1..Len(p) :
          /\ Opened(p, o, i)
          /\ DepthIn(p, o) = Len(sv) - k
          /\ p[o].op = sv[k].op
          /\ sv[k].op = "proc" => \E f \in 0..Len(p) : Inside(p, f, o) /\ Keeps(p, sv[k], f, pass)

-----------------------------------------------------------------------------
(***************************************************************************)
(* Depth.                                                                  *)
(***************************************************************************)

(* The nodes counted before the next node are those before this one and    *)
(* this one.                                                               *)
LEMMA BeforeNext ==
    ASSUME NEW p, NEW ops, NEW i \in Nat \ {0}
    PROVE  /\ Before(p, ops, i) \in Nat
           /\ Before(p, ops, i + 1) = Before(p, ops, i) + (IF p[i].op \in ops THEN 1 ELSE 0)
  <1> DEFINE S == {k \in 1..(i - 1) : p[k].op \in ops}
             T == {k \in 1..((i + 1) - 1) : p[k].op \in ops}
  <1>1. IsFiniteSet(S) /\ Cardinality(S) \in Nat
    <2>1. IsFiniteSet(1..(i - 1))
      BY FS_Interval
    <2>2. S \in SUBSET (1..(i - 1))
      OBVIOUS
    <2> QED BY <2>1, <2>2, FS_Subset, FS_CardinalityType
  <1>4. Before(p, ops, i) = Cardinality(S) /\ Before(p, ops, i + 1) = Cardinality(T)
    BY DEF Before
  <1>2. CASE p[i].op \in ops
    <2>1. T = S \cup {i} /\ i \notin S
      BY <1>2
    <2>2. Cardinality(T) = Cardinality(S) + 1
      BY <2>1, <1>1, FS_AddElement
    <2> HIDE DEF S, T
    <2> QED BY <1>1, <1>4, <1>2, <2>2
  <1>3. CASE p[i].op \notin ops
    <2>1. T = S
      BY <1>3
    <2> HIDE DEF S, T
    <2> QED BY <1>1, <1>4, <1>3, <2>1
  <1> QED BY <1>2, <1>3

(* The depth changes at the nodes that open and close, by one.             *)
LEMMA DepthStep ==
    ASSUME NEW p \in Programs, NEW i \in 1..Len(p)
    PROVE  /\ p[i].op \in {"block", "proc"} => DepthIn(p, i + 1) = DepthIn(p, i) + 1
           /\ p[i].op = "end" => DepthIn(p, i + 1) = DepthIn(p, i) - 1
           /\ p[i].op \notin {"block", "proc", "end"} => DepthIn(p, i + 1) = DepthIn(p, i)
  <1>1. i \in Nat \ {0}
    BY ProgramsAssumption DEF WellFormed
  <1> DEFINE opens == {"block", "proc"}
             ends  == {"end"}
  <1>2. \A ops : /\ Before(p, ops, i) \in Nat
                 /\ Before(p, ops, i + 1) =
                        Before(p, ops, i) + (IF p[i].op \in ops THEN 1 ELSE 0)
    BY <1>1, BeforeNext
  <1>3. /\ Before(p, opens, i) \in Nat
        /\ Before(p, opens, i + 1) =
               Before(p, opens, i) + (IF p[i].op \in opens THEN 1 ELSE 0)
    <2> HIDE DEF opens, ends
    <2> QED BY <1>2
  <1>4. /\ Before(p, ends, i) \in Nat
        /\ Before(p, ends, i + 1) =
               Before(p, ends, i) + (IF p[i].op \in ends THEN 1 ELSE 0)
    <2> HIDE DEF opens, ends
    <2> QED BY <1>2
  <1> QED BY <1>3, <1>4 DEF DepthIn

(* Depths are never negative, and a program begins and ends at none.       *)
LEMMA DepthType ==
    ASSUME NEW p \in Programs
    PROVE  /\ Len(p) \in Nat
           /\ \A i \in 1..(Len(p) + 1) : DepthIn(p, i) \in Nat
           /\ DepthIn(p, 1) = 0
           /\ DepthIn(p, Len(p) + 1) = 0
  <1>1. WellFormed(p) /\ Len(p) \in Nat
    BY ProgramsAssumption DEF WellFormed
  <1>2. DepthIn(p, 1) = 0
    <2>1. \A ops : {k \in 1..(1 - 1) : p[k].op \in ops} = {}
      OBVIOUS
    <2>2. Cardinality({}) = 0
      BY FS_EmptySet
    <2>3. Before(p, {"block", "proc"}, 1) = 0 /\ Before(p, {"end"}, 1) = 0
      BY <2>1, <2>2 DEF Before
    <2> QED BY <2>3 DEF DepthIn
  <1>3. ASSUME NEW i \in 1..(Len(p) + 1)
        PROVE  DepthIn(p, i) \in Nat
    <2>1. CASE i = 1
      BY <2>1, <1>2
    <2>2. CASE i # 1
      <3>1. i - 1 \in 1..Len(p) /\ (i - 1) + 1 = i
        BY <1>1, <2>2
      <3>2. DepthIn(p, i) >= 0
        BY <1>1, <3>1 DEF WellFormed
      <3>3. DepthIn(p, i) \in Int
        <4>1. i \in Nat \ {0}
          BY <1>1
        <4> QED BY <4>1, BeforeNext DEF DepthIn
      <3> QED BY <3>2, <3>3
    <2> QED BY <2>1, <2>2
  <1> QED BY <1>1, <1>2, <1>3 DEF WellFormed

(* What the parser puts into a node.                                       *)
LEMMA NodeType ==
    ASSUME NEW p \in Programs, NEW i \in 1..Len(p)
    PROVE  /\ p[i].ret \in Types
           /\ p[i].op \in Declares \cup Uses => p[i].name \in Name
           /\ p[i].op \in Declares \cup Uses \cup {"block", "end", "return"}
           /\ p[i].modes \in Seq({"in", "out"})
  <1>1. p \in Seq(NodeSet) /\ WellFormed(p)
    BY ProgramsAssumption DEF WellFormed
  <1>2. p[i] \in NodeSet
    BY <1>1
  <1> QED BY <1>1, <1>2 DEF NodeSet, WellFormed

(* A declaration stays in scope as long as the depth does not fall below   *)
(* its own.                                                                *)
LEMMA DeclaredStill ==
    ASSUME NEW p \in Programs, NEW i \in 1..Len(p), NEW d, NEW k, NEW x,
           Declared(p, d, k, x, i), DepthIn(p, i + 1) >= DepthIn(p, d)
    PROVE  Declared(p, d, k, x, i + 1)
  <1>1. i \in Nat /\ d \in 1..(i - 1)
    BY DepthType DEF Declared
  <1>2. ASSUME NEW j \in (d + 1)..(i + 1)
        PROVE  DepthIn(p, j) >= DepthIn(p, d)
    <2>1. j \in (d + 1)..i \/ j = i + 1
      BY <1>1
    <2> QED BY <2>1 DEF Declared
  <1> QED BY <1>1, <1>2 DEF Declared

(* It was in scope before if it came before.                               *)
LEMMA DeclaredBefore ==
    ASSUME NEW p \in Programs, NEW i \in 1..Len(p), NEW d, NEW k, NEW x,
           Declared(p, d, k, x, i + 1), d # i
    PROVE  Declared(p, d, k, x, i) /\ DepthIn(p, i) >= DepthIn(p, d)
                                  /\ DepthIn(p, i + 1) >= DepthIn(p, d)
  <1>1. i \in Nat /\ d \in 1..(i - 1)
    BY DepthType DEF Declared
  <1>2. \A j \in (d + 1)..i : j \in (d + 1)..(i + 1)
    BY <1>1
  <1>3. i \in (d + 1)..i /\ i + 1 \in (d + 1)..(i + 1)
    BY <1>1
  <1> QED BY <1>1, <1>2, <1>3 DEF Declared

(* A node that declares is in scope behind itself, in the scope that it is *)
(* in.                                                                     *)
LEMMA DeclaredHere ==
    ASSUME NEW p \in Programs, NEW i \in 1..Len(p), NEW k, NEW x,
           p[i].op \in Declares, DepthIn(p, i + 1) >= DepthIn(p, i)
    PROVE  /\ Declared(p, i, k, x, i + 1) <=> k = DepthIn(p, i) + 1 /\ x = p[i].name
           /\ ~Declared(p, i, k, x, i)
  <1>1. i \in Nat /\ i \in 1..((i + 1) - 1) /\ i \notin 1..(i - 1)
    BY DepthType
  <1>2. \A j \in (i + 1)..(i + 1) : DepthIn(p, j) >= DepthIn(p, i)
    <2> TAKE j \in (i + 1)..(i + 1)
    <2>1. j = i + 1
      BY <1>1
    <2> QED BY <2>1
  <1> QED BY <1>1, <1>2 DEF Declared

-----------------------------------------------------------------------------
(***************************************************************************)
(* The operations of scope stacks, on what they hold.                      *)
(***************************************************************************)

(* A node that neither opens, closes nor sets a symbol leaves the stack    *)
(* right: a use, a RETURN, and a FORWARD in the pass that skips it.        *)
LEMMA ScopesStay ==
    ASSUME NEW p \in Programs, NEW i \in 1..Len(p), NEW sc, NEW ops \in SUBSET Declares,
           ScopesAre(p, sc, i, ops),
           p[i].op \notin {"block", "proc", "end"}, p[i].op \notin ops,
           p[i].op \in Declares => Fresh(p, i)
    PROVE  ScopesAre(p, sc, i + 1, ops)
  <1>1. /\ DepthIn(p, i + 1) = DepthIn(p, i)
        /\ Len(p) \in Nat
        /\ \A j \in 1..(Len(p) + 1) : DepthIn(p, j) \in Nat
    BY DepthStep, DepthType
  <1>2. \A d \in 1..Len(p), k \in Nat, x \in Name :
            Declared(p, d, k, x, i) => Declared(p, d, k, x, i + 1)
    <2> SUFFICES ASSUME NEW d \in 1..Len(p), NEW k \in Nat, NEW x \in Name,
                        Declared(p, d, k, x, i)
                 PROVE  Declared(p, d, k, x, i + 1)
      OBVIOUS
    <2>1. DepthIn(p, i) >= DepthIn(p, d)
      BY <1>1 DEF Declared
    <2> QED BY <2>1, <1>1, DeclaredStill
  <1>3. \A d \in 1..Len(p), k \in Nat, x \in Name :
            Declared(p, d, k, x, i + 1) =>
                \/ Declared(p, d, k, x, i)
                \/ /\ d = i /\ k = DepthIn(p, i) + 1
                   /\ x = p[i].name /\ p[i].op \in Declares
    BY <1>1 DEF Declared
  <1>4. ASSUME NEW k \in 1..Len(sc), NEW x \in Name
        PROVE  /\ sc[k][x] # 0 => /\ Declared(p, sc[k][x], k, x, i + 1)
                                  /\ p[sc[k][x]].op \in ops
               /\ \A d \in 1..Len(p) : Declared(p, d, k, x, i + 1) =>
                      sc[k][x] = IF p[d].op \in ops THEN d ELSE 0
    <2>1. k \in Nat /\ sc[k][x] \in 0..Len(p)
      BY <1>1 DEF ScopesAre
    <2>2. sc[k][x] # 0 => /\ Declared(p, sc[k][x], k, x, i)
                          /\ p[sc[k][x]].op \in ops
      BY DEF ScopesAre
    <2>3. sc[k][x] # 0 => sc[k][x] \in 1..Len(p)
      BY <2>1, <1>1
    <2>4. ASSUME NEW d \in 1..Len(p), Declared(p, d, k, x, i + 1)
          PROVE  sc[k][x] = IF p[d].op \in ops THEN d ELSE 0
      <3>1. CASE Declared(p, d, k, x, i)
        BY <3>1 DEF ScopesAre
      <3>2. CASE d = i /\ k = DepthIn(p, i) + 1 /\ x = p[i].name /\ p[i].op \in Declares
        <4>1. sc[k][x] = 0
          BY <3>2, <2>2, <2>3 DEF Fresh
        <4> QED BY <4>1, <3>2
      <3> QED BY <2>1, <2>4, <1>3, <3>1, <3>2
    <2> QED BY <2>1, <2>2, <2>3, <2>4, <1>2
  <1> QED BY <1>1, <1>4 DEF ScopesAre

(* Entering a block.                                                       *)
LEMMA ScopesPush ==
    ASSUME NEW p \in Programs, NEW i \in 1..Len(p), NEW sc, NEW ops \in SUBSET Declares,
           ScopesAre(p, sc, i, ops), p[i].op = "block"
    PROVE  ScopesAre(p, PushScope(sc), i + 1, ops)
  <1> DEFINE new == PushScope(sc)
             D   == DepthIn(p, i)
  <1>1. /\ DepthIn(p, i + 1) = D + 1
        /\ Len(p) \in Nat
        /\ \A j \in 1..(Len(p) + 1) : DepthIn(p, j) \in Nat
    BY DepthStep, DepthType
  <1>2. /\ new \in Seq([Name -> 0..Len(p)])
        /\ Len(new) = D + 2
        /\ new[D + 2] = NoSymbols
        /\ \A k \in 1..(D + 1) : new[k] = sc[k]
    <2>1. NoSymbols \in [Name -> 0..Len(p)]
      BY <1>1 DEF NoSymbols
    <2>2. sc \in Seq([Name -> 0..Len(p)]) /\ Len(sc) = D + 1
      BY DEF ScopesAre
    <2>3. D \in Nat
      BY <1>1
    <2> QED BY <2>1, <2>2, <2>3 DEF PushScope
  <1>3. \A d \in 1..Len(p), k \in 1..(D + 1), x \in Name :
            Declared(p, d, k, x, i) <=> Declared(p, d, k, x, i + 1)
    BY <1>1 DEF Declared, Declares, Procedures
  <1>4. \A d \in 1..Len(p), x \in Name : ~Declared(p, d, D + 2, x, i + 1)
    BY <1>1 DEF Declared, Declares, Procedures
  <1>5. ASSUME NEW k \in 1..Len(new), NEW x \in Name
        PROVE  /\ new[k][x] # 0 => /\ Declared(p, new[k][x], k, x, i + 1)
                                   /\ p[new[k][x]].op \in ops
               /\ \A d \in 1..Len(p) : Declared(p, d, k, x, i + 1) =>
                      new[k][x] = IF p[d].op \in ops THEN d ELSE 0
    <2>1. CASE k = D + 2
      BY <2>1, <1>2, <1>4 DEF NoSymbols
    <2>2. CASE k # D + 2
      <3>1. k \in 1..(D + 1) /\ new[k] = sc[k]
        <4>1. D \in Nat
          BY <1>1
        <4> HIDE DEF new, D
        <4> QED BY <2>2, <4>1, <1>2
      <3>3. k \in 1..Len(sc)
        BY <3>1 DEF ScopesAre
      <3>2. sc[k][x] \in 0..Len(p)
        BY <3>1 DEF ScopesAre
      <3> HIDE DEF new, D
      <3> QED BY <3>1, <3>3, <3>2, <1>1, <1>3 DEF ScopesAre
    <2> QED BY <2>1, <2>2
  <1> QED BY <1>1, <1>2, <1>5 DEF ScopesAre

(* Leaving a block or a procedure.                                         *)
LEMMA ScopesPop ==
    ASSUME NEW p \in Programs, NEW i \in 1..Len(p), NEW sc, NEW ops \in SUBSET Declares,
           ScopesAre(p, sc, i, ops), p[i].op = "end"
    PROVE  ScopesAre(p, PopScope(sc), i + 1, ops)
  <1> DEFINE new == PopScope(sc)
             D   == DepthIn(p, i)
  <1>1. /\ DepthIn(p, i + 1) = D - 1
        /\ Len(p) \in Nat
        /\ \A j \in 1..(Len(p) + 1) : DepthIn(p, j) \in Nat
    BY DepthStep, DepthType
  <1>2. /\ new \in Seq([Name -> 0..Len(p)])
        /\ Len(new) = D
        /\ \A k \in 1..D : new[k] = sc[k]
    <2>1. sc \in Seq([Name -> 0..Len(p)]) /\ Len(sc) = D + 1
      BY DEF ScopesAre
    <2>2. D \in Nat
      BY <1>1
    <2> QED BY <2>1, <2>2 DEF PopScope
  <1>3. \A d \in 1..Len(p), k \in 1..D, x \in Name :
            Declared(p, d, k, x, i) <=> Declared(p, d, k, x, i + 1)
    BY <1>1 DEF Declared, Declares, Procedures
  <1>4. \A k \in 1..D : k \in 1..Len(sc)
    BY <1>1 DEF ScopesAre
  <1>5. \A k \in 1..D, x \in Name : sc[k][x] \in 0..Len(p)
    BY <1>4 DEF ScopesAre
  <1>6. ASSUME NEW k \in 1..Len(new), NEW x \in Name
        PROVE  /\ new[k][x] # 0 => /\ Declared(p, new[k][x], k, x, i + 1)
                                   /\ p[new[k][x]].op \in ops
               /\ \A d \in 1..Len(p) : Declared(p, d, k, x, i + 1) =>
                      new[k][x] = IF p[d].op \in ops THEN d ELSE 0
    <2>1. k \in 1..D /\ k \in 1..Len(sc) /\ new[k] = sc[k]
      BY <1>2, <1>4
    <2> HIDE DEF new, D
    <2> QED BY <2>1, <1>1, <1>3, <1>5 DEF ScopesAre
  <1> QED BY <1>1, <1>2, <1>6 DEF ScopesAre

(* Setting a symbol in the innermost scope, which did not have it.         *)
LEMMA ScopesSet ==
    ASSUME NEW p \in Programs, NEW i \in 1..Len(p), NEW sc, NEW ops \in SUBSET Declares,
           ScopesAre(p, sc, i, ops), p[i].op \in ops, p[i].op # "proc", Fresh(p, i)
    PROVE  ScopesAre(p, SetSymbol(sc, p[i].name, i), i + 1, ops)
  <1> DEFINE new == SetSymbol(sc, p[i].name, i)
             D   == DepthIn(p, i)
  <1>1. /\ DepthIn(p, i + 1) = D
        /\ Len(p) \in Nat
        /\ \A j \in 1..(Len(p) + 1) : DepthIn(p, j) \in Nat
        /\ p[i].name \in Name
    BY DepthStep, DepthType, NodeType DEF Declares, Procedures
  <1>2. sc \in Seq([Name -> 0..Len(p)]) /\ Len(sc) = D + 1 /\ D \in Nat
    BY <1>1 DEF ScopesAre
  <1>3. /\ new \in Seq([Name -> 0..Len(p)])
        /\ Len(new) = D + 1
        /\ \A k \in 1..(D + 1), x \in Name :
               new[k][x] = IF k = D + 1 /\ x = p[i].name THEN i ELSE sc[k][x]
    BY <1>1, <1>2 DEF SetSymbol
  <1>4. \A d \in 1..Len(p), k \in 1..(D + 1), x \in Name :
            Declared(p, d, k, x, i + 1) <=>
                \/ Declared(p, d, k, x, i)
                \/ d = i /\ k = D + 1 /\ x = p[i].name
    <2> SUFFICES ASSUME NEW d \in 1..Len(p), NEW k \in 1..(D + 1), NEW x \in Name
                 PROVE  Declared(p, d, k, x, i + 1) <=>
                            \/ Declared(p, d, k, x, i)
                            \/ d = i /\ k = D + 1 /\ x = p[i].name
      OBVIOUS
    <2>1. DepthIn(p, i + 1) >= DepthIn(p, i)
      BY <1>1, <1>2
    <2>2. CASE d = i
      <3>1. p[i].op \in Declares
        BY DEF Declares, Procedures
      <3>2. /\ Declared(p, i, k, x, i + 1) <=> k = D + 1 /\ x = p[i].name
            /\ ~Declared(p, i, k, x, i)
        BY <2>1, <3>1, DeclaredHere
      <3> QED BY <2>2, <3>2
    <2>3. CASE d # i
      <3>1. Declared(p, d, k, x, i) => DepthIn(p, i) >= DepthIn(p, d)
        BY <1>1, DepthType DEF Declared
      <3>2. Declared(p, d, k, x, i) => Declared(p, d, k, x, i + 1)
        BY <2>1, <3>1, <1>1, DeclaredStill
      <3> QED BY <2>3, <3>2, DeclaredBefore
    <2> QED BY <2>2, <2>3
  <1>5. \A k \in 1..(D + 1), x \in Name : sc[k][x] \in 0..Len(p)
    BY <1>2
  <1>6. ASSUME NEW k \in 1..Len(new), NEW x \in Name
        PROVE  /\ new[k][x] # 0 => /\ Declared(p, new[k][x], k, x, i + 1)
                                   /\ p[new[k][x]].op \in ops
               /\ \A d \in 1..Len(p) : Declared(p, d, k, x, i + 1) =>
                      new[k][x] = IF p[d].op \in ops THEN d ELSE 0
    <2>1. k \in 1..(D + 1) /\ k \in 1..Len(sc)
      BY <1>2, <1>3
    <2>2. CASE k = D + 1 /\ x = p[i].name
      <3>1. new[k][x] = i
        BY <2>1, <2>2, <1>3
      <3>2. \A d \in 1..Len(p) : ~Declared(p, d, k, x, i)
        BY <2>2 DEF Fresh
      <3> HIDE DEF new, D
      <3> QED BY <2>1, <2>2, <3>1, <3>2, <1>4
    <2>3. CASE ~(k = D + 1 /\ x = p[i].name)
      <3>1. new[k][x] = sc[k][x]
        BY <2>1, <2>3, <1>3
      <3> HIDE DEF new, D
      <3> QED BY <2>1, <2>3, <3>1, <1>1, <1>4, <1>5 DEF ScopesAre
    <2> QED BY <2>2, <2>3
  <1> QED BY <1>1, <1>3, <1>6 DEF ScopesAre

(* The same of the name of a procedure, and a scope for what is in it.     *)
LEMMA ScopesProc ==
    ASSUME NEW p \in Programs, NEW i \in 1..Len(p), NEW sc, NEW ops \in SUBSET Declares,
           ScopesAre(p, sc, i, ops), p[i].op = "proc", "proc" \in ops, Fresh(p, i)
    PROVE  ScopesAre(p, PushScope(SetSymbol(sc, p[i].name, i)), i + 1, ops)
  <1> DEFINE new == PushScope(SetSymbol(sc, p[i].name, i))
             D   == DepthIn(p, i)
  <1>1. /\ DepthIn(p, i + 1) = D + 1
        /\ Len(p) \in Nat
        /\ \A j \in 1..(Len(p) + 1) : DepthIn(p, j) \in Nat
        /\ p[i].name \in Name
    BY DepthStep, DepthType, NodeType DEF Declares, Procedures
  <1>2. sc \in Seq([Name -> 0..Len(p)]) /\ Len(sc) = D + 1 /\ D \in Nat
    BY <1>1 DEF ScopesAre
  <1>3. /\ new \in Seq([Name -> 0..Len(p)])
        /\ Len(new) = D + 2
        /\ \A x \in Name : new[D + 2][x] = 0
        /\ \A k \in 1..(D + 1), x \in Name :
               new[k][x] = IF k = D + 1 /\ x = p[i].name THEN i ELSE sc[k][x]
    <2> DEFINE set == SetSymbol(sc, p[i].name, i)
    <2>1. /\ set \in Seq([Name -> 0..Len(p)])
          /\ Len(set) = D + 1
          /\ \A k \in 1..(D + 1), x \in Name :
                 set[k][x] = IF k = D + 1 /\ x = p[i].name THEN i ELSE sc[k][x]
      BY <1>1, <1>2 DEF SetSymbol
    <2>2. NoSymbols \in [Name -> 0..Len(p)] /\ \A x \in Name : NoSymbols[x] = 0
      BY <1>1 DEF NoSymbols
    <2>3. new = Append(set, NoSymbols)
      BY DEF PushScope
    <2>4. /\ new \in Seq([Name -> 0..Len(p)])
          /\ Len(new) = D + 2
          /\ new[D + 2] = NoSymbols
          /\ \A k \in 1..(D + 1) : new[k] = set[k]
      <3> HIDE DEF set, new
      <3> QED BY <1>2, <2>1, <2>2, <2>3
    <2> HIDE DEF set, new
    <2> QED BY <2>1, <2>2, <2>4
  <1>4. \A d \in 1..Len(p), k \in 1..(D + 1), x \in Name :
            Declared(p, d, k, x, i + 1) <=>
                \/ Declared(p, d, k, x, i)
                \/ d = i /\ k = D + 1 /\ x = p[i].name
    <2> SUFFICES ASSUME NEW d \in 1..Len(p), NEW k \in 1..(D + 1), NEW x \in Name
                 PROVE  Declared(p, d, k, x, i + 1) <=>
                            \/ Declared(p, d, k, x, i)
                            \/ d = i /\ k = D + 1 /\ x = p[i].name
      OBVIOUS
    <2>1. DepthIn(p, i + 1) >= DepthIn(p, i)
      BY <1>1, <1>2
    <2>2. CASE d = i
      <3>1. p[i].op \in Declares
        BY DEF Declares, Procedures
      <3>2. /\ Declared(p, i, k, x, i + 1) <=> k = D + 1 /\ x = p[i].name
            /\ ~Declared(p, i, k, x, i)
        BY <2>1, <3>1, DeclaredHere
      <3> QED BY <2>2, <3>2
    <2>3. CASE d # i
      <3>1. Declared(p, d, k, x, i) => DepthIn(p, i) >= DepthIn(p, d)
        BY <1>1, DepthType DEF Declared
      <3>2. Declared(p, d, k, x, i) => Declared(p, d, k, x, i + 1)
        BY <2>1, <3>1, <1>1, DeclaredStill
      <3> QED BY <2>3, <3>2, DeclaredBefore
    <2> QED BY <2>2, <2>3
  <1>5. \A d \in 1..Len(p), x \in Name : ~Declared(p, d, D + 2, x, i + 1)
    BY <1>1 DEF Declared
  <1>6. \A k \in 1..(D + 1), x \in Name : sc[k][x] \in 0..Len(p)
    BY <1>2
  <1>7. ASSUME NEW k \in 1..Len(new), NEW x \in Name
        PROVE  /\ new[k][x] # 0 => /\ Declared(p, new[k][x], k, x, i + 1)
                                   /\ p[new[k][x]].op \in ops
               /\ \A d \in 1..Len(p) : Declared(p, d, k, x, i + 1) =>
                      new[k][x] = IF p[d].op \in ops THEN d ELSE 0
    <2>1. CASE k = D + 2
      BY <2>1, <1>3, <1>5
    <2>2. CASE k # D + 2
      <3>1. k \in 1..(D + 1) /\ k \in 1..Len(sc)
        BY <2>2, <1>2, <1>3
      <3>2. CASE k = D + 1 /\ x = p[i].name
        <4>1. new[k][x] = i
          BY <3>1, <3>2, <1>3
        <4>2. \A d \in 1..Len(p) : ~Declared(p, d, k, x, i)
          BY <3>2 DEF Fresh
        <4> HIDE DEF new, D
        <4> QED BY <3>1, <3>2, <4>1, <4>2, <1>4
      <3>3. CASE ~(k = D + 1 /\ x = p[i].name)
        <4>1. new[k][x] = sc[k][x]
          BY <3>1, <3>3, <1>3
        <4> HIDE DEF new, D
        <4> QED BY <3>1, <3>3, <4>1, <1>1, <1>4, <1>6 DEF ScopesAre
      <3> QED BY <3>2, <3>3
    <2> QED BY <2>1, <2>2
  <1>8. Len(new) = DepthIn(p, i + 1) + 1
    BY <1>1, <1>2, <1>3
  <1> HIDE DEF new
  <1>9. ScopesAre(p, new, i + 1, ops)
    BY <1>3, <1>7, <1>8 DEF ScopesAre
  <1> QED BY <1>9 DEF new

-----------------------------------------------------------------------------
(***************************************************************************)
(* lookup.                                                                 *)
(***************************************************************************)

(* A name that is found is found in one scope.                             *)
LEMMA LookupFinds ==
    ASSUME NEW S, NEW sc \in Seq([Name -> S]), NEW x \in Name,
           NEW i \in 1..Len(sc), Innermost(sc, x, i)
    PROVE  Lookup(sc, x) = sc[i][x]
  <1>1. i \in DOMAIN sc /\ DOMAIN sc = 1..Len(sc) /\ Len(sc) \in Nat
    OBVIOUS
  <1>2. \A j \in DOMAIN sc : Innermost(sc, x, j) => j = i
    BY <1>1 DEF Innermost
  <1>3. (CHOOSE j \in DOMAIN sc : Innermost(sc, x, j)) = i
    BY <1>1, <1>2
  <1> QED BY <1>1, <1>3 DEF Lookup

LEMMA LookupFound ==
    ASSUME NEW S, NEW sc \in Seq([Name -> S]), NEW x \in Name, Lookup(sc, x) # 0
    PROVE  \E i \in 1..Len(sc) : Innermost(sc, x, i) /\ Lookup(sc, x) = sc[i][x]
  <1>1. DOMAIN sc = 1..Len(sc)
    OBVIOUS
  <1>2. PICK i \in DOMAIN sc : Innermost(sc, x, i)
    BY DEF Lookup
  <1> QED BY <1>1, <1>2, LookupFinds

(* The declarations of the name of i that are visible there.               *)
LEMMA VisibleIsDeclared ==
    ASSUME NEW p \in Programs, NEW i \in 1..Len(p), NEW d
    PROVE  /\ Visible(p, d, i) <=>
                 Declared(p, d, DepthIn(p, d) + 1, p[i].name, i)
           /\ Visible(p, d, i) => /\ d \in 1..Len(p)
                               /\ DepthIn(p, d) \in 0..DepthIn(p, i)
  <1>1. Len(p) \in Nat /\ DOMAIN p = 1..Len(p)
    BY ProgramsAssumption DEF WellFormed
  <1>2. \A j \in 1..(Len(p) + 1) : DepthIn(p, j) \in Nat
    BY DepthType
  <1>3. d \in DOMAIN p /\ d < i <=> d \in 1..(i - 1)
    BY <1>1
  <1>4. Visible(p, d, i) <=> Declared(p, d, DepthIn(p, d) + 1, p[i].name, i)
    BY <1>3 DEF Visible, Declared, InScopeOf
  <1>5. ASSUME Visible(p, d, i)
        PROVE  d \in 1..Len(p) /\ DepthIn(p, d) \in 0..DepthIn(p, i)
    <2>1. d \in 1..(i - 1) /\ i \in (d + 1)..i
      BY <1>5, <1>3, <1>1 DEF Visible, InScopeOf
    <2>2. DepthIn(p, i) >= DepthIn(p, d)
      BY <1>5, <2>1 DEF Visible, InScopeOf
    <2> QED BY <2>1, <2>2, <1>1, <1>2
  <1> QED BY <1>4, <1>5

(* Of two visible declarations the later one is not outside the other.     *)
LEMMA VisibleOrder ==
    ASSUME NEW p \in Programs, NEW i \in 1..Len(p), NEW d, NEW e,
           Visible(p, d, i), Visible(p, e, i), d < e
    PROVE  DepthIn(p, d) <= DepthIn(p, e)
  <1>1. /\ d \in 1..Len(p) /\ e \in 1..Len(p) /\ e < i
        /\ Len(p) \in Nat
        /\ DepthIn(p, d) \in Nat /\ DepthIn(p, e) \in Nat
    BY VisibleIsDeclared, DepthType DEF Visible, InScopeOf
  <1>2. e \in (d + 1)..i
    BY <1>1
  <1> QED BY <1>1, <1>2 DEF Visible, InScopeOf

(* Inside the scope of what the use at i denotes, no scope has the name.   *)
LEMMA NothingInner ==
    ASSUME NEW p \in Programs, NEW i \in 1..Len(p), p[i].op \in Uses,
           NEW sc, NEW ops, ScopesAre(p, sc, i, ops), NEW r, Denotes(p, r, i),
           NEW j \in (DepthIn(p, r) + 2)..Len(sc)
    PROVE  sc[j][p[i].name] = 0
  <1> DEFINE x == p[i].name
             e == sc[j][x]
  <1>1. /\ x \in Name
        /\ Len(p) \in Nat /\ DOMAIN p = 1..Len(p)
        /\ Len(sc) = DepthIn(p, i) + 1
        /\ \A k \in 1..Len(p) : DepthIn(p, k) \in Nat
    BY NodeType, DepthType, ProgramsAssumption DEF WellFormed, ScopesAre
  <1>2. Visible(p, r, i) /\ r \in 1..Len(p) /\ DepthIn(p, r) \in Nat
    BY <1>1 DEF Denotes, Visible
  <1>3. j \in 1..Len(sc)
    BY <1>1, <1>2
  <1>4. SUFFICES ASSUME e # 0
                 PROVE  FALSE
    OBVIOUS
  <1>5. Declared(p, e, j, x, i)
    BY <1>1, <1>3, <1>4 DEF ScopesAre
  <1>6. j = DepthIn(p, e) + 1 /\ Visible(p, e, i) /\ e \in 1..Len(p)
    <2>1. j = DepthIn(p, e) + 1
      BY <1>5 DEF Declared
    <2> QED BY <2>1, <1>5, VisibleIsDeclared
  <1>7. DepthIn(p, e) \in Nat
    BY <1>1, <1>6
  <1>8. DepthIn(p, e) > DepthIn(p, r)
    <2> HIDE DEF e
    <2> QED BY <1>2, <1>6, <1>7
  <1>9. e <= r
    BY <1>1, <1>6 DEF Denotes
  <1>10. e # r
    BY <1>2, <1>8
  <1>11. e < r
    BY <1>2, <1>6, <1>9, <1>10
  <1>12. DepthIn(p, e) <= DepthIn(p, r)
    BY <1>2, <1>6, <1>11, VisibleOrder
  <1> QED BY <1>2, <1>7, <1>8, <1>12

(* The stack of Sema has what the use at i denotes, and nothing if that is *)
(* nothing.                                                                *)
LEMMA LookupDenotes ==
    ASSUME NEW p \in Programs, NEW i \in 1..Len(p), p[i].op \in Uses,
           NEW sc, ScopesAre(p, sc, i, Declares)
    PROVE  /\ Lookup(sc, p[i].name) # 0 => Denotes(p, Lookup(sc, p[i].name), i)
           /\ Lookup(sc, p[i].name) = 0 => ~\E d \in DOMAIN p : Denotes(p, d, i)
  <1> DEFINE x == p[i].name
             r == Lookup(sc, x)
  <1>1. /\ x \in Name
        /\ Len(p) \in Nat /\ DOMAIN p = 1..Len(p)
        /\ sc \in Seq([Name -> 0..Len(p)])
        /\ Len(sc) = DepthIn(p, i) + 1
        /\ \A j \in 1..Len(p) : DepthIn(p, j) \in Nat
    BY NodeType, DepthType, ProgramsAssumption DEF WellFormed, ScopesAre
  <1>2. ASSUME NEW e, Visible(p, e, i)
        PROVE  /\ DepthIn(p, e) + 1 \in 1..Len(sc)
               /\ sc[DepthIn(p, e) + 1][x] = e
               /\ e \in 1..Len(p)
    <2>1. /\ e \in 1..Len(p)
          /\ DepthIn(p, e) + 1 \in 1..Len(sc)
      BY <1>1, <1>2, VisibleIsDeclared
    <2>2. Declared(p, e, DepthIn(p, e) + 1, x, i)
      BY <1>2, VisibleIsDeclared
    <2>3. p[e].op \in Declares
      BY <1>2 DEF Visible
    <2> QED BY <1>1, <2>1, <2>2, <2>3 DEF ScopesAre
  <1>3. ASSUME r # 0
        PROVE  Denotes(p, r, i)
    <2>1. PICK k \in 1..Len(sc) : Innermost(sc, x, k) /\ r = sc[k][x]
      BY <1>1, <1>3, LookupFound
    <2>2. Declared(p, r, k, x, i)
      BY <1>1, <1>3, <2>1 DEF ScopesAre
    <2>3. k = DepthIn(p, r) + 1 /\ Visible(p, r, i) /\ r \in 1..Len(p)
      <3>1. k = DepthIn(p, r) + 1
        BY <2>2 DEF Declared
      <3> QED BY <3>1, <2>2, VisibleIsDeclared
    <2>4. ASSUME NEW e \in DOMAIN p, Visible(p, e, i), e > r
          PROVE  FALSE
      <3>1. /\ DepthIn(p, e) + 1 \in 1..Len(sc)
            /\ sc[DepthIn(p, e) + 1][x] = e
            /\ e \in 1..Len(p)
        BY <2>4, <1>2
      <3>2. DepthIn(p, r) <= DepthIn(p, e)
        BY <2>3, <2>4, <1>1, VisibleOrder
      <3>3. CASE DepthIn(p, r) = DepthIn(p, e)
        <4>1. e = r
          BY <3>1, <3>3, <2>1, <2>3
        <4> QED BY <4>1, <2>4, <2>3
      <3>4. CASE DepthIn(p, r) < DepthIn(p, e)
        <4>1. DepthIn(p, e) + 1 \in (k + 1)..Len(sc)
          BY <3>1, <3>4, <2>3, <1>1
        <4>2. e = 0
          BY <4>1, <3>1, <2>1 DEF Innermost
        <4> QED BY <4>2, <3>1
      <3> QED BY <3>1, <3>2, <3>3, <3>4, <2>3, <1>1
    <2> QED BY <2>3, <2>4, <1>1 DEF Denotes
  <1>4. ASSUME r = 0, NEW d \in DOMAIN p, Denotes(p, d, i)
        PROVE  FALSE
    <2> DEFINE k == DepthIn(p, d) + 1
    <2>1. Visible(p, d, i)
      BY <1>4 DEF Denotes
    <2>2. k \in 1..Len(sc) /\ sc[k][x] = d /\ d \in 1..Len(p)
      BY <1>2, <2>1
    <2>3. ASSUME NEW j \in (k + 1)..Len(sc)
          PROVE  sc[j][x] = 0
      <3>1. DepthIn(p, d) \in Nat
        BY <1>1, <2>2
      <3>2. j \in (DepthIn(p, d) + 2)..Len(sc)
        BY <3>1
      <3> QED BY <3>2, <1>4, NothingInner
    <2>4. Innermost(sc, x, k)
      BY <2>2, <2>3 DEF Innermost
    <2>5. r = d
      BY <1>1, <2>2, <2>4, LookupFinds
    <2> QED BY <2>2, <2>5, <1>4
  <1> QED BY <1>3, <1>4

(* The stack of Codegen has it too, unless it is a FORWARD; and it has     *)
(* nothing but declarations that are no FORWARD.                           *)
LEMMA LookupAgrees ==
    ASSUME NEW p \in Programs, NEW i \in 1..Len(p), p[i].op \in Uses,
           NEW sc, ScopesAre(p, sc, i, Declares \ {"forward"}),
           NEW r \in DOMAIN p, Denotes(p, r, i)
    PROVE  /\ Lookup(sc, p[i].name) = r \/ p[r].op = "forward"
           /\ Lookup(sc, p[i].name) # 0 =>
                  /\ Lookup(sc, p[i].name) \in 1..Len(p)
                  /\ p[Lookup(sc, p[i].name)].op \in Declares \ {"forward"}
  <1> DEFINE x == p[i].name
             k == DepthIn(p, r) + 1
  <1>1. /\ x \in Name
        /\ Len(p) \in Nat /\ DOMAIN p = 1..Len(p)
        /\ sc \in Seq([Name -> 0..Len(p)])
        /\ Len(sc) = DepthIn(p, i) + 1
        /\ \A j \in 1..Len(p) : DepthIn(p, j) \in Nat
    BY NodeType, DepthType, ProgramsAssumption DEF WellFormed, ScopesAre
  <1>2. Visible(p, r, i) /\ r \in 1..Len(p) /\ p[r].op \in Declares
    BY <1>1 DEF Denotes, Visible
  <1>3. k \in 1..Len(sc) /\ Declared(p, r, k, x, i)
    BY <1>1, <1>2, VisibleIsDeclared
  <1>4. ASSUME p[r].op # "forward"
        PROVE  Lookup(sc, x) = r
    <2>1. sc[k][x] = r
      BY <1>1, <1>2, <1>3, <1>4 DEF ScopesAre
    <2>2. ASSUME NEW j \in (k + 1)..Len(sc)
          PROVE  sc[j][x] = 0
      <3>1. DepthIn(p, r) \in Nat
        BY <1>1, <1>2
      <3>2. j \in (DepthIn(p, r) + 2)..Len(sc)
        BY <3>1
      <3> QED BY <3>2, NothingInner
    <2>3. Innermost(sc, x, k)
      BY <1>2, <2>1, <2>2 DEF Innermost
    <2> QED BY <1>1, <1>3, <2>1, <2>3, LookupFinds
  <1>5. ASSUME Lookup(sc, x) # 0
        PROVE  /\ Lookup(sc, x) \in 1..Len(p)
               /\ p[Lookup(sc, x)].op \in Declares \ {"forward"}
    <2>1. PICK j \in 1..Len(sc) : Innermost(sc, x, j) /\ Lookup(sc, x) = sc[j][x]
      BY <1>1, <1>5, LookupFound
    <2>2. sc[j][x] \in 0..Len(p)
      BY <1>1
    <2> QED BY <1>1, <1>5, <2>1, <2>2 DEF ScopesAre
  <1> QED BY <1>4, <1>5

-----------------------------------------------------------------------------
(***************************************************************************)
(* The active handlers.                                                    *)
(***************************************************************************)

(* What is open stays open as long as the depth is more than its own.      *)
LEMMA OpenedStill ==
    ASSUME NEW p \in Programs, NEW i \in 1..Len(p), NEW o,
           Opened(p, o, i), DepthIn(p, i + 1) > DepthIn(p, o)
    PROVE  Opened(p, o, i + 1)
  <1>1. i \in Nat /\ o \in 1..(i - 1)
    BY DepthType DEF Opened
  <1>2. ASSUME NEW j \in (o + 1)..(i + 1)
        PROVE  DepthIn(p, j) > DepthIn(p, o)
    <2>1. j \in (o + 1)..i \/ j = i + 1
      BY <1>1
    <2> QED BY <2>1 DEF Opened
  <1> QED BY <1>1, <1>2 DEF Opened

(* It was open before if it is not the node itself.                        *)
LEMMA OpenedBefore ==
    ASSUME NEW p \in Programs, NEW i \in 1..Len(p), NEW o,
           Opened(p, o, i + 1), o # i
    PROVE  /\ Opened(p, o, i)
           /\ DepthIn(p, i) > DepthIn(p, o)
           /\ DepthIn(p, i + 1) > DepthIn(p, o)
  <1>1. i \in Nat /\ o \in 1..(i - 1)
    BY DepthType DEF Opened
  <1>2. \A j \in (o + 1)..i : j \in (o + 1)..(i + 1)
    BY <1>1
  <1>3. i \in (o + 1)..i /\ i + 1 \in (o + 1)..(i + 1)
    BY <1>1
  <1> QED BY <1>1, <1>2, <1>3 DEF Opened

(* What is open is less deep.                                              *)
LEMMA OpenedDepth ==
    ASSUME NEW p \in Programs, NEW i \in 1..(Len(p) + 1), NEW o, Opened(p, o, i)
    PROVE  /\ o \in 1..Len(p)
           /\ o < i
           /\ DepthIn(p, i) > DepthIn(p, o)
           /\ p[o].op \in {"block", "proc"}
  <1>1. o \in 1..(i - 1) /\ i \in (o + 1)..i /\ Len(p) \in Nat
    BY DepthType DEF Opened
  <1> QED BY <1>1 DEF Opened

(* A node that opens is open behind itself.                                *)
LEMMA OpenedHere ==
    ASSUME NEW p \in Programs, NEW i \in 1..Len(p), p[i].op \in {"block", "proc"}
    PROVE  Opened(p, i, i + 1)
  <1>1. i \in Nat /\ i \in 1..((i + 1) - 1)
    BY DepthType
  <1>2. DepthIn(p, i + 1) > DepthIn(p, i)
    BY <1>1, DepthStep, DepthType
  <1>3. \A j \in (i + 1)..(i + 1) : j = i + 1
    BY <1>1
  <1> QED BY <1>1, <1>2, <1>3 DEF Opened

(* Behind its end, as before its beginning.                                *)
LEMMA OpenedClosed ==
    ASSUME NEW p \in Programs, NEW i \in 1..Len(p), p[i].op = "end",
           NEW o, Opened(p, o, i), DepthIn(p, o) = DepthIn(p, i) - 1, NEW g
    PROVE  Opened(p, g, i + 1) <=> Opened(p, g, o)
  <1>1. /\ DepthIn(p, i + 1) = DepthIn(p, o)
        /\ o \in 1..(i - 1) /\ i \in Nat
        /\ \A j \in 1..(Len(p) + 1) : DepthIn(p, j) \in Nat
        /\ Len(p) \in Nat
    BY DepthStep, DepthType DEF Opened
  <1>2. ASSUME Opened(p, g, i + 1)
        PROVE  Opened(p, g, o)
    <2>1. g # i
      BY <1>2 DEF Opened
    <2>2. Opened(p, g, i) /\ DepthIn(p, g) < DepthIn(p, o)
      BY <1>1, <1>2, <2>1, OpenedBefore
    <2>3. g \in 1..(i - 1) /\ DepthIn(p, g) \in Nat
      BY <1>1, <2>2 DEF Opened
    <2>4. g \notin (o + 1)..i
      BY <1>1, <2>2, <2>3 DEF Opened
    <2>5. g # o
      BY <1>1, <2>2
    <2>6. g \in 1..(o - 1)
      BY <1>1, <2>3, <2>4, <2>5
    <2>7. \A j \in (g + 1)..o : j \in (g + 1)..i
      BY <1>1, <2>6
    <2> QED BY <2>2, <2>6, <2>7 DEF Opened
  <1>3. ASSUME Opened(p, g, o)
        PROVE  Opened(p, g, i + 1)
    <2>1. g \in 1..(o - 1) /\ o \in (g + 1)..o
      BY <1>1, <1>3 DEF Opened
    <2>2. DepthIn(p, o) > DepthIn(p, g) /\ DepthIn(p, g) \in Nat
      BY <1>1, <1>3, <2>1 DEF Opened
    <2>3. ASSUME NEW j \in (g + 1)..(i + 1)
          PROVE  DepthIn(p, j) > DepthIn(p, g)
      <3>1. CASE j \in (g + 1)..o
        BY <3>1, <1>3 DEF Opened
      <3>2. CASE j \in (o + 1)..i
        <4>1. DepthIn(p, j) > DepthIn(p, o) /\ DepthIn(p, j) \in Nat
          BY <3>2, <1>1 DEF Opened
        <4> QED BY <4>1, <2>2, <1>1
      <3>3. CASE j = i + 1
        BY <3>3, <2>2, <1>1
      <3> QED BY <3>1, <3>2, <3>3, <2>1, <1>1
    <2> QED BY <1>3, <2>1, <2>3, <1>1 DEF Opened
  <1> QED BY <1>2, <1>3

(* A node is in one procedure.                                             *)
LEMMA InsideOne ==
    ASSUME NEW p \in Programs, NEW i \in 1..(Len(p) + 1),
           NEW f \in 0..Len(p), NEW g \in 0..Len(p), Inside(p, f, i), Inside(p, g, i)
    PROVE  f = g
  <1>1. Len(p) \in Nat
    BY DepthType
  <1>2. (f # 0 => f <= g) /\ (g # 0 => g <= f)
    BY <1>1 DEF Inside
  <1> QED BY <1>1, <1>2

(* Main begins in no procedure.                                            *)
LEMMA InsideFirst == ASSUME NEW p \in Programs PROVE Inside(p, 0, 1)
  BY DepthType DEF Inside, Opened

(* A procedure is what its body is in.                                     *)
LEMMA InsideProc ==
    ASSUME NEW p \in Programs, NEW i \in 1..Len(p), p[i].op = "proc"
    PROVE  Inside(p, i, i + 1)
  <1>1. Opened(p, i, i + 1) /\ Len(p) \in Nat
    BY OpenedHere, DepthType
  <1>2. \A g \in 1..Len(p) : Opened(p, g, i + 1) => g <= i
    BY <1>1 DEF Opened
  <1> QED BY <1>1, <1>2 DEF Inside

(* Other nodes, the end of a block among them, leave it as it is.          *)
LEMMA InsideStays ==
    ASSUME NEW p \in Programs, NEW i \in 1..Len(p), p[i].op \notin {"proc", "end"},
           NEW f \in 0..Len(p), Inside(p, f, i)
    PROVE  Inside(p, f, i + 1)
  <1>1. /\ DepthIn(p, i + 1) >= DepthIn(p, i)
        /\ Len(p) \in Nat
        /\ \A j \in 1..(Len(p) + 1) : DepthIn(p, j) \in Nat
    BY DepthStep, DepthType
  <1>2. ASSUME NEW g, p[g].op = "proc"
        PROVE  Opened(p, g, i + 1) <=> Opened(p, g, i)
    <2>1. Opened(p, g, i + 1) => Opened(p, g, i)
      BY <1>2, OpenedBefore
    <2>2. ASSUME Opened(p, g, i)
          PROVE  Opened(p, g, i + 1)
      <3>1. g \in 1..Len(p) /\ DepthIn(p, i) > DepthIn(p, g)
        BY <1>1, <2>2, OpenedDepth
      <3>2. DepthIn(p, i + 1) > DepthIn(p, g)
        BY <1>1, <3>1
      <3> QED BY <2>2, <3>2, OpenedStill
    <2> QED BY <2>1, <2>2
  <1> QED BY <1>2 DEF Inside

LEMMA InsideEndOfBlock ==
    ASSUME NEW p \in Programs, NEW i \in 1..Len(p), p[i].op = "end",
           NEW o, Opened(p, o, i), DepthIn(p, o) = DepthIn(p, i) - 1, p[o].op # "proc",
           NEW f \in 0..Len(p), Inside(p, f, i)
    PROVE  Inside(p, f, i + 1)
  <1>1. /\ DepthIn(p, i + 1) = DepthIn(p, o)
        /\ o \in 1..(i - 1) /\ i \in Nat
        /\ \A j \in 1..(Len(p) + 1) : DepthIn(p, j) \in Nat
        /\ Len(p) \in Nat
    BY DepthStep, DepthType DEF Opened
  <1>2. ASSUME NEW g, p[g].op = "proc"
        PROVE  Opened(p, g, i + 1) <=> Opened(p, g, i)
    <2>1. Opened(p, g, i + 1) => Opened(p, g, i)
      BY <1>2, OpenedBefore
    <2>2. ASSUME Opened(p, g, i)
          PROVE  Opened(p, g, i + 1)
      <3>1. g \in 1..(i - 1) /\ DepthIn(p, i) > DepthIn(p, g) /\ DepthIn(p, g) \in Nat
        BY <1>1, <2>2, OpenedDepth
      <3>2. g \notin (o + 1)..i
        BY <1>1, <3>1 DEF Opened
      <3>3. o \in (g + 1)..i
        BY <1>1, <1>2, <3>1, <3>2
      <3>4. DepthIn(p, i + 1) > DepthIn(p, g)
        BY <1>1, <2>2, <3>3 DEF Opened
      <3> QED BY <2>2, <3>4, OpenedStill
    <2> QED BY <2>1, <2>2
  <1> QED BY <1>2 DEF Inside

(* No handler begins or ends.                                              *)
LEMMA SavedStay ==
    ASSUME NEW p \in Programs, NEW i \in 1..Len(p), NEW sv, NEW pass,
           SavedAre(p, sv, i, pass), p[i].op \notin {"block", "proc", "end"}
    PROVE  SavedAre(p, sv, i + 1, pass)
  <1>1. /\ DepthIn(p, i + 1) = DepthIn(p, i)
        /\ \A j \in 1..(Len(p) + 1) : DepthIn(p, j) \in Nat
        /\ Len(p) \in Nat
    BY DepthStep, DepthType
  <1>2. \A o \in 1..Len(p) : Opened(p, o, i) => Opened(p, o, i + 1)
    <2> SUFFICES ASSUME NEW o \in 1..Len(p), Opened(p, o, i)
                 PROVE  Opened(p, o, i + 1)
      OBVIOUS
    <2>1. DepthIn(p, i + 1) > DepthIn(p, o)
      BY <1>1, OpenedDepth
    <2> QED BY <2>1, OpenedStill
  <1> QED BY <1>1, <1>2 DEF SavedAre

(* One begins.                                                             *)
LEMMA SavedEnter ==
    ASSUME NEW p \in Programs, NEW i \in 1..Len(p), NEW sv, NEW pass,
           SavedAre(p, sv, i, pass), p[i].op \in {"block", "proc"},
           NEW e \in SavedSet(p), e.op = p[i].op,
           \E f \in 0..Len(p) : Inside(p, f, i) /\ Keeps(p, e, f, pass)
    PROVE  SavedAre(p, <<e>> \o sv, i + 1, pass)
  <1> DEFINE new == <<e>> \o sv
             D   == DepthIn(p, i)
  <1>1. /\ DepthIn(p, i + 1) = D + 1
        /\ \A j \in 1..(Len(p) + 1) : DepthIn(p, j) \in Nat
        /\ D \in Nat
        /\ Len(p) \in Nat
    BY DepthStep, DepthType
  <1>2. sv \in Seq(SavedSet(p)) /\ Len(sv) = D
    BY DEF SavedAre
  <1>3. /\ new \in Seq(SavedSet(p))
        /\ Len(new) = D + 1
        /\ new[1] = e
        /\ \A k \in 2..(D + 1) : new[k] = sv[k - 1]
    <2> HIDE DEF D
    <2> QED BY <1>1, <1>2
  <1>4. ASSUME NEW k \in 1..Len(new)
        PROVE  \E o \in 1..Len(p) :
                 /\ Opened(p, o, i + 1)
                 /\ DepthIn(p, o) = Len(new) - k
                 /\ p[o].op = new[k].op
                 /\ new[k].op = "proc" =>
                       \E f \in 0..Len(p) : Inside(p, f, o) /\ Keeps(p, new[k], f, pass)
    <2>1. CASE k = 1
      <3>1. Opened(p, i, i + 1)
        BY OpenedHere
      <3>2. D = Len(new) - k
        BY <1>1, <1>3, <2>1
      <3> HIDE DEF new
      <3> QED BY <1>3, <2>1, <3>1, <3>2
    <2>2. CASE k # 1
      <3>1. k - 1 \in 1..Len(sv) /\ k \in 2..(D + 1)
        <4> HIDE DEF D, new
        <4> QED BY <1>1, <1>2, <1>3, <2>2
      <3>2. PICK o \in 1..Len(p) :
                 /\ Opened(p, o, i)
                 /\ DepthIn(p, o) = Len(sv) - (k - 1)
                 /\ p[o].op = sv[k - 1].op
                 /\ sv[k - 1].op = "proc" =>
                       \E f \in 0..Len(p) : Inside(p, f, o) /\ Keeps(p, sv[k - 1], f, pass)
        BY <3>1 DEF SavedAre
      <3>3. DepthIn(p, i + 1) > DepthIn(p, o)
        BY <1>1, <3>2, OpenedDepth
      <3>4. Opened(p, o, i + 1)
        BY <3>2, <3>3, OpenedStill
      <3>5. DepthIn(p, o) = Len(new) - k
        <4> HIDE DEF D, new
        <4> QED BY <1>1, <1>2, <1>3, <3>1, <3>2
      <3>6. new[k] = sv[k - 1]
        BY <1>3, <3>1
      <3> HIDE DEF D, new
      <3> QED BY <3>2, <3>4, <3>5, <3>6
    <2> QED BY <2>1, <2>2
  <1>5. Len(new) = DepthIn(p, i + 1)
    BY <1>1, <1>3
  <1> HIDE DEF new
  <1>6. SavedAre(p, new, i + 1, pass)
    BY <1>3, <1>4, <1>5 DEF SavedAre
  <1> QED BY <1>6 DEF new

(* The innermost one ends.                                                 *)
LEMMA SavedLeave ==
    ASSUME NEW p \in Programs, NEW i \in 1..Len(p), NEW sv, NEW pass,
           SavedAre(p, sv, i, pass), p[i].op = "end"
    PROVE  /\ SavedAre(p, Tail(sv), i + 1, pass)
           /\ Head(sv) \in SavedSet(p)
           /\ Head(sv).op = "proc" =>
                 \E f \in 0..Len(p) : Inside(p, f, i + 1) /\ Keeps(p, Head(sv), f, pass)
           /\ Head(sv).op # "proc" =>
                 \A f \in 0..Len(p) : Inside(p, f, i) => Inside(p, f, i + 1)
  <1> DEFINE new == Tail(sv)
             D   == DepthIn(p, i)
  <1>1. /\ DepthIn(p, i + 1) = D - 1
        /\ \A j \in 1..(Len(p) + 1) : DepthIn(p, j) \in Nat
        /\ D \in Nat /\ D - 1 \in Nat
        /\ Len(p) \in Nat
    <2>1. \A j \in 1..(Len(p) + 1) : DepthIn(p, j) \in Nat
      BY DepthType
    <2>2. i \in 1..(Len(p) + 1) /\ i + 1 \in 1..(Len(p) + 1) /\ Len(p) \in Nat
      BY DepthType
    <2>3. DepthIn(p, i + 1) = D - 1
      BY DepthStep
    <2> QED BY <2>1, <2>2, <2>3
  <1>2. sv \in Seq(SavedSet(p)) /\ Len(sv) = D
    BY DEF SavedAre
  <1>3. /\ new \in Seq(SavedSet(p))
        /\ Len(new) = D - 1
        /\ Head(sv) = sv[1] /\ Head(sv) \in SavedSet(p)
        /\ \A k \in 1..(D - 1) : new[k] = sv[k + 1]
        /\ 1 \in 1..Len(sv)
    <2>1. sv # <<>> /\ D >= 1
      <3> HIDE DEF D
      <3> QED BY <1>1, <1>2
    <2> HIDE DEF D
    <2> QED BY <1>1, <1>2, <2>1
  <1>4. PICK o \in 1..Len(p) :
                 /\ Opened(p, o, i)
                 /\ DepthIn(p, o) = Len(sv) - 1
                 /\ p[o].op = sv[1].op
                 /\ sv[1].op = "proc" =>
                       \E f \in 0..Len(p) : Inside(p, f, o) /\ Keeps(p, sv[1], f, pass)
    BY <1>3 DEF SavedAre
  <1>5. DepthIn(p, o) = D - 1
    BY <1>2, <1>4
  <1>6. \A f \in 0..Len(p) : Inside(p, f, o) => Inside(p, f, i + 1)
    <2>1. \A g \in 1..Len(p) : Opened(p, g, i + 1) <=> Opened(p, g, o)
      BY <1>4, <1>5, OpenedClosed
    <2> QED BY <2>1, <1>1 DEF Inside
  <1>7. Head(sv).op = "proc" =>
            \E f \in 0..Len(p) : Inside(p, f, i + 1) /\ Keeps(p, Head(sv), f, pass)
    BY <1>3, <1>4, <1>6
  <1>8. Head(sv).op # "proc" => \A f \in 0..Len(p) : Inside(p, f, i) => Inside(p, f, i + 1)
    BY <1>3, <1>4, <1>5, InsideEndOfBlock
  <1>9. ASSUME NEW k \in 1..Len(new)
        PROVE  \E q \in 1..Len(p) :
                 /\ Opened(p, q, i + 1)
                 /\ DepthIn(p, q) = Len(new) - k
                 /\ p[q].op = new[k].op
                 /\ new[k].op = "proc" =>
                       \E f \in 0..Len(p) : Inside(p, f, q) /\ Keeps(p, new[k], f, pass)
    <2>1. k + 1 \in 1..Len(sv) /\ new[k] = sv[k + 1]
      <3> HIDE DEF D, new
      <3> QED BY <1>1, <1>2, <1>3
    <2>2. PICK q \in 1..Len(p) :
                 /\ Opened(p, q, i)
                 /\ DepthIn(p, q) = Len(sv) - (k + 1)
                 /\ p[q].op = sv[k + 1].op
                 /\ sv[k + 1].op = "proc" =>
                       \E f \in 0..Len(p) : Inside(p, f, q) /\ Keeps(p, sv[k + 1], f, pass)
      BY <2>1 DEF SavedAre
    <2>3. DepthIn(p, q) = Len(new) - k /\ DepthIn(p, i + 1) > DepthIn(p, q)
      <3> HIDE DEF D, new
      <3> QED BY <1>1, <1>2, <1>3, <2>2
    <2>4. Opened(p, q, i + 1)
      BY <2>2, <2>3, OpenedStill
    <2> HIDE DEF D, new
    <2> QED BY <2>1, <2>2, <2>3, <2>4
  <1>10. Len(new) = DepthIn(p, i + 1)
    BY <1>1, <1>3
  <1> HIDE DEF new
  <1>11. SavedAre(p, new, i + 1, pass)
    BY <1>3, <1>9, <1>10 DEF SavedAre
  <1> QED BY <1>3, <1>7, <1>8, <1>11 DEF new

-----------------------------------------------------------------------------
(***************************************************************************)
(* The inductive invariant.                                                *)
(***************************************************************************)

(* The use at j has the arguments that its declaration r asks for.         *)
Fits(p, r, j) == p[j].op \in {"call", "apply"} /\ p[r].op \in Procedures
                 => p[j].n = Len(p[r].modes)

(* What Sema knows of a node that it has passed, of which it resolved r.   *)
Checked(p, r, j) ==
    /\ p[j].op \in Declares => Fresh(p, j)
    /\ p[j].op \in Uses => r # 0 /\ Denotes(p, r, j) /\ Fits(p, r, j)
    /\ p[j].op = "return" => \E f \in 0..Len(p) : Inside(p, f, j) /\ p[j].ret = ReturnType(p, f)

IsForward(p, r) == r # 0 /\ p[r].op = "forward"

(* What is right of e, emitted for node j.                                 *)
EmittedRight(p, r, e, j) ==
    /\ e.decl # 0 => e.decl = r \/ IsForward(p, r)
    /\ e.decl # 0 => \/ IsForward(p, r)
                     \/ p[e.decl].op \in {"var", "const", "param"}
                     \/ p[j].n = Len(p[e.decl].modes)
    /\ e.fn # 0 /\ p[j].op = "return" => p[j].ret = p[e.fn].ret

SemaInv ==
    phase = "sema" =>
        /\ ScopesAre(prog, scopes, at, Declares)
        /\ SavedAre(prog, saved, at, "sema")
        /\ \E f \in 0..Len(prog) : Inside(prog, f, at) /\ curReturnType = ReturnType(prog, f)
        /\ \A j \in 1..(at - 1) : Checked(prog, resolved[j], j)
        /\ \A j \in 1..Len(prog) : emitted[j].fn = 0 /\ emitted[j].decl = 0
        /\ curFunc = 0

GenInv ==
    phase = "codegen" =>
        /\ ScopesAre(prog, genScopes, at, Declares \ {"forward"})
        /\ SavedAre(prog, saved, at, "codegen")
        /\ Inside(prog, curFunc, at)
        /\ \A j \in 1..Len(prog) : Checked(prog, resolved[j], j)

HistoryInv ==
    /\ \A j \in 1..Len(prog) : /\ resolved[j] # 0 => Denotes(prog, resolved[j], j)
                               /\ EmittedRight(prog, resolved[j], emitted[j], j)
    /\ phase = "undefined" => \A d \in DOMAIN prog : ~Denotes(prog, d, at)
    /\ phase = "undefined late" => IsForward(prog, resolved[at])

IInv == prog \in Programs /\ TypeOK /\ SemaInv /\ GenInv /\ HistoryInv

(* Lengths and ranges.                                                     *)
LEMMA Basics ==
    ASSUME IInv
    PROVE  /\ prog \in Programs
           /\ Len(prog) \in Nat
           /\ DOMAIN prog = 1..Len(prog)
           /\ at \in 1..(Len(prog) + 1)
           /\ at <= Len(prog) => at \in 1..Len(prog)
           /\ Positions = 0..Len(prog)
           /\ \A f \in 0..Len(prog) : ReturnType(prog, f) \in Types
  <1>1. prog \in Programs /\ Len(prog) \in Nat
    BY DepthType DEF IInv
  <1>2. DOMAIN prog = 1..Len(prog) /\ at \in 1..(Len(prog) + 1)
    BY <1>1, ProgramsAssumption DEF WellFormed, IInv, TypeOK
  <1>3. \A f \in 0..Len(prog) : ReturnType(prog, f) \in Types
    BY <1>1, NodeType DEF ReturnType, Types
  <1> QED BY <1>1, <1>2, <1>3 DEF Positions

(* A compilation that fails leaves everything as it was.                   *)
LEMMA FailStep ==
    ASSUME IInv, NEW how \in Outcomes, Fail(how),
           how = "undefined" => \A d \in DOMAIN prog : ~Denotes(prog, d, at),
           how = "undefined late" => IsForward(prog, resolved[at])
    PROVE  IInv'
  <1> USE DEF Fail, semaVars, genVars
  <1>1. TypeOK'
    BY DEF IInv, TypeOK, Outcomes, Positions, ScopeSet
  <1>2. SemaInv' /\ GenInv'
    BY DEF SemaInv, GenInv, Outcomes
  <1>3. HistoryInv'
    BY DEF IInv, HistoryInv
  <1> QED BY <1>1, <1>2, <1>3 DEF IInv

(* A step of Sema past a node, if it leaves the stacks right and what it   *)
(* resolves is right.                                                      *)
LEMMA SemaAdvances ==
    ASSUME IInv, phase = "sema", at \in 1..Len(prog), Advance, UNCHANGED genVars,
           ScopesAre(prog, scopes', at + 1, Declares),
           SavedAre(prog, saved', at + 1, "sema"),
           \E f \in 0..Len(prog) : Inside(prog, f, at + 1) /\ curReturnType' = ReturnType(prog, f),
           resolved' \in [DOMAIN prog -> Positions],
           \A j \in DOMAIN prog \ {at} : resolved'[j] = resolved[j],
           Checked(prog, resolved'[at], at),
           resolved'[at] # 0 => Denotes(prog, resolved'[at], at)
    PROVE  IInv'
  <1> USE DEF Advance, genVars
  <1>1. /\ prog' = prog /\ prog \in Programs /\ Len(prog) \in Nat
        /\ DOMAIN prog = 1..Len(prog) /\ at' \in 1..(Len(prog) + 1)
        /\ phase' = "sema"
    BY Basics
  <1>2. TypeOK'
    <2>1. scopes' \in Seq(ScopeSet) /\ Len(scopes') = Len(saved') + 1
      BY <1>1 DEF ScopesAre, SavedAre, ScopeSet, Positions
    <2>2. curReturnType' \in Types
      BY Basics
    <2> QED BY <1>1, <2>1, <2>2 DEF IInv, TypeOK, Positions, ScopeSet
  <1>3. SemaInv'
    <2>1. ASSUME NEW j \in 1..(at' - 1)
          PROVE  Checked(prog, resolved'[j], j)
      <3>1. CASE j = at
        BY <3>1
      <3>2. CASE j # at
        <4>1. j \in 1..(at - 1) /\ j \in DOMAIN prog \ {at}
          BY <1>1, <3>2
        <4> QED BY <4>1 DEF IInv, SemaInv
      <3> QED BY <3>1, <3>2
    <2>2. /\ \A j \in 1..Len(prog) : emitted[j].fn = 0 /\ emitted[j].decl = 0
          /\ curFunc = 0
      BY DEF IInv, SemaInv
    <2> QED BY <1>1, <2>1, <2>2 DEF SemaInv
  <1>4. GenInv'
    BY <1>1 DEF GenInv
  <1>5. HistoryInv'
    <2>1. ASSUME NEW j \in 1..Len(prog)
          PROVE  /\ resolved'[j] # 0 => Denotes(prog, resolved'[j], j)
                 /\ EmittedRight(prog, resolved'[j], emitted[j], j)
      <3>1. emitted[j].fn = 0 /\ emitted[j].decl = 0
        BY DEF IInv, SemaInv
      <3>2. EmittedRight(prog, resolved'[j], emitted[j], j)
        BY <3>1 DEF EmittedRight
      <3>3. CASE j = at
        BY <3>2, <3>3
      <3>4. CASE j # at
        BY <1>1, <3>2, <3>4 DEF IInv, HistoryInv
      <3> QED BY <3>3, <3>4
    <2> QED BY <1>1, <2>1 DEF HistoryInv
  <1> QED BY <1>1, <1>2, <1>3, <1>4, <1>5 DEF IInv

(* The same of Codegen, if what it emits is right.                         *)
LEMMA GenAdvances ==
    ASSUME IInv, phase = "codegen", at \in 1..Len(prog), Advance, UNCHANGED semaVars,
           ScopesAre(prog, genScopes', at + 1, Declares \ {"forward"}),
           SavedAre(prog, saved', at + 1, "codegen"),
           curFunc' \in Positions, Inside(prog, curFunc', at + 1),
           owner' \in [DOMAIN prog -> Positions],
           emitted' \in [DOMAIN prog -> [fn : Positions, decl : Positions]],
           \A j \in DOMAIN prog \ {at} : emitted'[j] = emitted[j],
           EmittedRight(prog, resolved[at], emitted'[at], at)
    PROVE  IInv'
  <1> USE DEF Advance, semaVars
  <1>1. /\ prog' = prog /\ prog \in Programs /\ Len(prog) \in Nat
        /\ DOMAIN prog = 1..Len(prog) /\ at' \in 1..(Len(prog) + 1)
        /\ phase' = "codegen"
    BY Basics
  <1>2. TypeOK'
    <2>1. genScopes' \in Seq(ScopeSet) /\ Len(genScopes') = Len(saved') + 1
      BY <1>1 DEF ScopesAre, SavedAre, ScopeSet, Positions
    <2> QED BY <1>1, <2>1 DEF IInv, TypeOK, Positions, ScopeSet
  <1>3. SemaInv'
    BY <1>1 DEF SemaInv
  <1>4. GenInv'
    BY <1>1 DEF IInv, GenInv
  <1>5. HistoryInv'
    <2>1. ASSUME NEW j \in 1..Len(prog)
          PROVE  /\ resolved[j] # 0 => Denotes(prog, resolved[j], j)
                 /\ EmittedRight(prog, resolved[j], emitted'[j], j)
      <3>1. CASE j = at
        BY <3>1 DEF IInv, HistoryInv
      <3>2. CASE j # at
        BY <1>1, <3>2 DEF IInv, HistoryInv
      <3> QED BY <3>1, <3>2
    <2> QED BY <1>1, <2>1 DEF HistoryInv
  <1> QED BY <1>1, <1>2, <1>3, <1>4, <1>5 DEF IInv

-----------------------------------------------------------------------------
(***************************************************************************)
(* The steps.                                                              *)
(***************************************************************************)

(* Both passes begin with one empty scope and no handler.                  *)
LEMMA FirstScope ==
    ASSUME NEW p \in Programs, NEW ops
    PROVE  ScopesAre(p, <<NoSymbols>>, 1, ops)
  <1>1. DepthIn(p, 1) = 0 /\ Len(p) \in Nat
    BY DepthType
  <1>2. /\ <<NoSymbols>> \in Seq([Name -> 0..Len(p)])
        /\ Len(<<NoSymbols>>) = 1 /\ <<NoSymbols>>[1] = NoSymbols
    <2>1. NoSymbols \in [Name -> 0..Len(p)]
      BY <1>1 DEF NoSymbols
    <2> QED BY <2>1
  <1>3. \A x \in Name : NoSymbols[x] = 0
    BY DEF NoSymbols
  <1>4. \A d, k, x : ~Declared(p, d, k, x, 1)
    BY DEF Declared
  <1>5. \A k \in 1..Len(<<NoSymbols>>) : k = 1
    BY <1>2
  <1> QED BY <1>1, <1>2, <1>3, <1>4, <1>5 DEF ScopesAre

LEMMA InitInvariant == Init => IInv
  <1> SUFFICES ASSUME Init PROVE IInv
    OBVIOUS
  <1>1. /\ prog \in Programs /\ Len(prog) \in Nat /\ DOMAIN prog = 1..Len(prog)
        /\ DepthIn(prog, 1) = 0
    BY ProgramsAssumption, DepthType DEF Init, WellFormed
  <1>2. ScopesAre(prog, scopes, at, Declares)
    BY <1>1, FirstScope DEF Init
  <1>3. SavedAre(prog, saved, at, "sema")
    BY <1>1 DEF Init, SavedAre
  <1>4. TypeOK
    <2>1. scopes \in Seq(ScopeSet) /\ Len(scopes) = Len(saved) + 1
      BY <1>1, <1>2, <1>3 DEF ScopesAre, SavedAre, ScopeSet, Positions
    <2>2. genScopes \in Seq(ScopeSet)
      BY DEF Init
    <2> QED BY <1>1, <2>1, <2>2 DEF Init, TypeOK, Types, Positions
  <1>5. SemaInv
    <2>1. Inside(prog, 0, at) /\ curReturnType = ReturnType(prog, 0) /\ 0 \in 0..Len(prog)
      BY <1>1, InsideFirst DEF Init, ReturnType
    <2> QED BY <1>1, <1>2, <1>3, <2>1 DEF Init, SemaInv
  <1>6. GenInv /\ HistoryInv
    BY <1>1 DEF Init, GenInv, HistoryInv, EmittedRight
  <1> QED BY <1>1, <1>4, <1>5, <1>6 DEF IInv

(* What a handler that begins keeps in its locals.                         *)
LEMMA EnterSaved ==
    ASSUME IInv, phase \in {"sema", "codegen"}, at \in 1..Len(prog),
           Here.op \in {"block", "proc"}, Enter
    PROVE  SavedAre(prog, saved', at + 1, phase)
  <1> DEFINE e == [op |-> Here.op, ret |-> curReturnType, fn |-> curFunc]
  <1>1. e \in SavedSet(prog) /\ e.op = prog[at].op
    BY DEF IInv, TypeOK, SavedSet, Positions, Here
  <1>2. SavedAre(prog, saved, at, phase) /\ prog \in Programs
    BY DEF IInv, SemaInv, GenInv
  <1>3. \E f \in 0..Len(prog) : Inside(prog, f, at) /\ Keeps(prog, e, f, phase)
    <2>1. CASE phase = "sema"
      BY <2>1 DEF IInv, SemaInv, Keeps
    <2>2. CASE phase = "codegen"
      BY <2>2 DEF IInv, GenInv, Keeps, TypeOK, Positions
    <2> QED BY <2>1, <2>2
  <1>4. saved' = <<e>> \o saved
    BY DEF Enter
  <1> HIDE DEF e
  <1> QED BY <1>1, <1>2, <1>3, <1>4, SavedEnter DEF Here

(* A name that is not redeclared is fresh.                                 *)
LEMMA NotRedeclared ==
    ASSUME IInv, phase = "sema", at \in 1..Len(prog), Here.op \in Declares, ~Redeclared
    PROVE  Fresh(prog, at)
  <1>1. /\ ScopesAre(prog, scopes, at, Declares) /\ prog \in Programs
        /\ Here = prog[at] /\ DepthIn(prog, at) \in Nat /\ prog[at].name \in Name
    BY NodeType, DepthType DEF IInv, SemaInv, Here
  <1>2. /\ Len(scopes) = DepthIn(prog, at) + 1
        /\ scopes[Len(scopes)][prog[at].name] = 0
        /\ Len(scopes) \in 1..Len(scopes)
    BY <1>1 DEF Redeclared, ScopesAre
  <1>3. ASSUME NEW d \in 1..Len(prog), Declared(prog, d, Len(scopes), prog[at].name, at)
        PROVE  FALSE
    <2>1. prog[d].op \in Declares
      BY <1>3 DEF Declared
    <2>2. scopes[Len(scopes)][prog[at].name] = d
      BY <1>1, <1>2, <1>3, <2>1 DEF ScopesAre
    <2>3. d # 0
      BY <1>3
    <2> QED BY <1>2, <2>2, <2>3
  <1> QED BY <1>2, <1>3 DEF Fresh

LEMMA SemaBeginStep == IInv /\ SemaBegin => IInv'
  <1> SUFFICES ASSUME IInv, SemaBegin PROVE IInv'
    OBVIOUS
  <1>1. /\ phase = "sema" /\ at \in 1..Len(prog) /\ Here.op = "block" /\ Here = prog[at]
        /\ Advance /\ UNCHANGED genVars /\ resolved' = resolved
        /\ curReturnType' = curReturnType /\ scopes' = PushScope(scopes) /\ prog \in Programs
    BY Basics DEF SemaBegin, SemaAt, At, Here
  <1>2. ScopesAre(prog, scopes', at + 1, Declares)
    BY <1>1, ScopesPush DEF IInv, SemaInv
  <1>3. SavedAre(prog, saved', at + 1, "sema")
    BY <1>1, EnterSaved DEF SemaBegin
  <1>4. \E f \in 0..Len(prog) : Inside(prog, f, at + 1) /\ curReturnType' = ReturnType(prog, f)
    BY <1>1, InsideStays DEF IInv, SemaInv
  <1>5. Checked(prog, resolved[at], at)
    BY <1>1 DEF Checked, Declares, Procedures, Uses
  <1>6. /\ resolved \in [DOMAIN prog -> Positions]
        /\ resolved[at] # 0 => Denotes(prog, resolved[at], at)
    BY <1>1 DEF IInv, TypeOK, HistoryInv
  <1> QED BY <1>1, <1>2, <1>3, <1>4, <1>5, <1>6, SemaAdvances

LEMMA SemaDeclStep == IInv /\ SemaDecl => IInv'
  <1> SUFFICES ASSUME IInv, SemaDecl PROVE IInv'
    OBVIOUS
  <1>1. /\ phase = "sema" /\ at \in 1..Len(prog) /\ Here = prog[at] /\ prog \in Programs
        /\ prog[at].op \in {"var", "const", "param", "forward"}
    BY Basics DEF SemaDecl, SemaAt, At, Here
  <1>2. prog[at].op \in Declares
    BY <1>1 DEF Declares, Procedures
  <1>3. CASE Redeclared
    BY <1>3, FailStep DEF SemaDecl, Outcomes
  <1>4. CASE ~Redeclared
    <2>1. /\ Advance /\ UNCHANGED genVars /\ resolved' = resolved /\ saved' = saved
          /\ curReturnType' = curReturnType /\ scopes' = SetSymbol(scopes, prog[at].name, at)
      BY <1>1, <1>4 DEF SemaDecl
    <2>2. Fresh(prog, at)
      BY <1>1, <1>2, <1>4, NotRedeclared
    <2>3. ScopesAre(prog, scopes', at + 1, Declares)
      BY <1>1, <1>2, <2>1, <2>2, ScopesSet DEF IInv, SemaInv
    <2>4. SavedAre(prog, saved', at + 1, "sema")
      BY <1>1, <2>1, SavedStay DEF IInv, SemaInv
    <2>5. \E f \in 0..Len(prog) : Inside(prog, f, at + 1) /\ curReturnType' = ReturnType(prog, f)
      BY <1>1, <2>1, InsideStays DEF IInv, SemaInv
    <2>6. Checked(prog, resolved[at], at)
      BY <1>1, <2>2 DEF Checked, Uses
    <2>7. /\ resolved \in [DOMAIN prog -> Positions]
          /\ resolved[at] # 0 => Denotes(prog, resolved[at], at)
      BY <1>1 DEF IInv, TypeOK, HistoryInv
    <2> QED BY <1>1, <2>1, <2>3, <2>4, <2>5, <2>6, <2>7, SemaAdvances
  <1> QED BY <1>3, <1>4

LEMMA SemaProcStep == IInv /\ SemaProc => IInv'
  <1> SUFFICES ASSUME IInv, SemaProc PROVE IInv'
    OBVIOUS
  <1>1. /\ phase = "sema" /\ at \in 1..Len(prog) /\ Here = prog[at] /\ prog \in Programs
        /\ prog[at].op = "proc" /\ Len(prog) \in Nat
    BY Basics DEF SemaProc, SemaAt, At, Here
  <1>2. prog[at].op \in Declares /\ "proc" \in Declares
    BY <1>1 DEF Declares, Procedures
  <1>3. CASE Redeclared
    BY <1>3, FailStep DEF SemaProc, Outcomes
  <1>4. CASE ~Redeclared
    <2>1. /\ Advance /\ UNCHANGED genVars /\ resolved' = resolved /\ Enter
          /\ curReturnType' = prog[at].ret
          /\ scopes' = PushScope(SetSymbol(scopes, prog[at].name, at))
      BY <1>1, <1>4 DEF SemaProc
    <2>2. Fresh(prog, at)
      BY <1>1, <1>2, <1>4, NotRedeclared
    <2>3. ScopesAre(prog, scopes', at + 1, Declares)
      BY <1>1, <1>2, <2>1, <2>2, ScopesProc DEF IInv, SemaInv
    <2>4. SavedAre(prog, saved', at + 1, "sema")
      BY <1>1, <2>1, EnterSaved
    <2>5. \E f \in 0..Len(prog) : Inside(prog, f, at + 1) /\ curReturnType' = ReturnType(prog, f)
      <3>1. Inside(prog, at, at + 1) /\ at \in 0..Len(prog) /\ at # 0
        BY <1>1, InsideProc
      <3> QED BY <2>1, <3>1 DEF ReturnType
    <2>6. Checked(prog, resolved[at], at)
      BY <1>1, <2>2 DEF Checked, Uses
    <2>7. /\ resolved \in [DOMAIN prog -> Positions]
          /\ resolved[at] # 0 => Denotes(prog, resolved[at], at)
      BY <1>1 DEF IInv, TypeOK, HistoryInv
    <2> QED BY <1>1, <2>1, <2>3, <2>4, <2>5, <2>6, <2>7, SemaAdvances
  <1> QED BY <1>3, <1>4

LEMMA SemaEndStep == IInv /\ SemaEnd => IInv'
  <1> SUFFICES ASSUME IInv, SemaEnd PROVE IInv'
    OBVIOUS
  <1>1. /\ phase = "sema" /\ at \in 1..Len(prog) /\ Here = prog[at] /\ prog \in Programs
        /\ prog[at].op = "end" /\ Advance /\ UNCHANGED genVars /\ resolved' = resolved
        /\ scopes' = PopScope(scopes) /\ saved' = Tail(saved)
        /\ curReturnType' = IF Head(saved).op = "proc" THEN Head(saved).ret ELSE curReturnType
    BY Basics DEF SemaEnd, SemaAt, At, Here, Leave, Leaving
  <1>2. ScopesAre(prog, scopes', at + 1, Declares)
    BY <1>1, ScopesPop DEF IInv, SemaInv
  <1>3. /\ SavedAre(prog, Tail(saved), at + 1, "sema")
        /\ Head(saved).op = "proc" =>
              \E f \in 0..Len(prog) : Inside(prog, f, at + 1) /\ Keeps(prog, Head(saved), f, "sema")
        /\ Head(saved).op # "proc" =>
              \A f \in 0..Len(prog) : Inside(prog, f, at) => Inside(prog, f, at + 1)
    <2>1. SavedAre(prog, saved, at, "sema")
      BY <1>1 DEF IInv, SemaInv
    <2> QED BY <1>1, <2>1, SavedLeave
  <1>4. \E f \in 0..Len(prog) : Inside(prog, f, at + 1) /\ curReturnType' = ReturnType(prog, f)
    <2>1. CASE Head(saved).op = "proc"
      BY <1>1, <1>3, <2>1 DEF Keeps
    <2>2. CASE Head(saved).op # "proc"
      BY <1>1, <1>3, <2>2 DEF IInv, SemaInv
    <2> QED BY <2>1, <2>2
  <1>5. Checked(prog, resolved[at], at)
    BY <1>1 DEF Checked, Declares, Procedures, Uses
  <1>6. /\ resolved \in [DOMAIN prog -> Positions]
        /\ resolved[at] # 0 => Denotes(prog, resolved[at], at)
    BY <1>1 DEF IInv, TypeOK, HistoryInv
  <1> QED BY <1>1, <1>2, <1>3, <1>4, <1>5, <1>6, SemaAdvances

LEMMA SemaUseStep == IInv /\ SemaUse => IInv'
  <1> SUFFICES ASSUME IInv, SemaUse PROVE IInv'
    OBVIOUS
  <1> DEFINE d == Lookup(scopes, prog[at].name)
  <1>1. /\ phase = "sema" /\ at \in 1..Len(prog) /\ Here = prog[at] /\ prog \in Programs
        /\ prog[at].op \in Uses /\ DOMAIN prog = 1..Len(prog) /\ Len(prog) \in Nat
        /\ Positions = 0..Len(prog)
    BY Basics DEF SemaUse, SemaAt, At, Here
  <1>2. /\ ScopesAre(prog, scopes, at, Declares)
        /\ d # 0 => Denotes(prog, d, at)
        /\ d = 0 => \A e \in DOMAIN prog : ~Denotes(prog, e, at)
    <2>1. ScopesAre(prog, scopes, at, Declares)
      BY <1>1 DEF IInv, SemaInv
    <2> QED BY <1>1, <2>1, LookupDenotes
  <1>3. CASE d = 0
    <2>1. Fail("undefined")
      BY <1>1, <1>3 DEF SemaUse
    <2> QED BY <1>2, <1>3, <2>1, FailStep DEF Outcomes
  <1>4. CASE d # 0 /\ ~SemaAccepts(d)
    <2>1. Fail("misused")
      BY <1>1, <1>4 DEF SemaUse
    <2> QED BY <2>1, FailStep DEF Outcomes
  <1>5. CASE d # 0 /\ SemaAccepts(d)
    <2>1. /\ Advance /\ UNCHANGED genVars /\ saved' = saved /\ scopes' = scopes
          /\ curReturnType' = curReturnType /\ resolved' = [resolved EXCEPT ![at] = d]
      BY <1>1, <1>5 DEF SemaUse
    <2>2. d \in 1..Len(prog)
      BY <1>1, <1>2, <1>5 DEF Denotes, Visible
    <2>3. /\ prog[at].op \notin {"block", "proc", "end"} /\ prog[at].op \notin Declares
          /\ prog[at].op # "return"
      BY <1>1 DEF Uses, Declares, Procedures
    <2>4. ScopesAre(prog, scopes', at + 1, Declares)
      BY <1>1, <1>2, <2>1, <2>3, ScopesStay
    <2>5. SavedAre(prog, saved', at + 1, "sema")
      BY <1>1, <2>1, <2>3, SavedStay DEF IInv, SemaInv
    <2>6. \E f \in 0..Len(prog) : Inside(prog, f, at + 1) /\ curReturnType' = ReturnType(prog, f)
      BY <1>1, <2>1, <2>3, InsideStays DEF IInv, SemaInv
    <2>7. /\ resolved' \in [DOMAIN prog -> Positions] /\ resolved'[at] = d
          /\ \A j \in DOMAIN prog \ {at} : resolved'[j] = resolved[j]
      <3> HIDE DEF d
      <3> QED BY <1>1, <2>1, <2>2 DEF IInv, TypeOK
    <2>8. Fits(prog, d, at)
      <3> HIDE DEF d
      <3> QED BY <1>1, <1>5 DEF SemaAccepts, Fits, Uses, Procedures
    <2>9. Checked(prog, d, at)
      BY <1>2, <1>5, <2>3, <2>8 DEF Checked
    <2> QED BY <1>1, <1>2, <1>5, <2>1, <2>4, <2>5, <2>6, <2>7, <2>9, SemaAdvances
  <1> QED BY <1>3, <1>4, <1>5

LEMMA SemaReturnStep == IInv /\ SemaReturn => IInv'
  <1> SUFFICES ASSUME IInv, SemaReturn PROVE IInv'
    OBVIOUS
  <1>1. /\ phase = "sema" /\ at \in 1..Len(prog) /\ Here = prog[at] /\ prog \in Programs
        /\ prog[at].op = "return"
    BY Basics DEF SemaReturn, SemaAt, At, Here
  <1>2. CASE Here.ret # curReturnType
    BY <1>2, FailStep DEF SemaReturn, Outcomes
  <1>3. CASE Here.ret = curReturnType
    <2>1. /\ Advance /\ UNCHANGED genVars /\ saved' = saved /\ scopes' = scopes
          /\ curReturnType' = curReturnType /\ resolved' = resolved
      BY <1>3 DEF SemaReturn, semaVars
    <2>2. prog[at].op \notin Declares /\ prog[at].op \notin Uses
      BY <1>1 DEF Uses, Declares, Procedures
    <2>3. ScopesAre(prog, scopes', at + 1, Declares)
      BY <1>1, <2>1, <2>2, ScopesStay DEF IInv, SemaInv
    <2>4. SavedAre(prog, saved', at + 1, "sema")
      BY <1>1, <2>1, SavedStay DEF IInv, SemaInv
    <2>5. \E f \in 0..Len(prog) : Inside(prog, f, at + 1) /\ curReturnType' = ReturnType(prog, f)
      BY <1>1, <2>1, InsideStays DEF IInv, SemaInv
    <2>6. Checked(prog, resolved[at], at)
      BY <1>1, <1>3, <2>2 DEF Checked, IInv, SemaInv
    <2>7. /\ resolved \in [DOMAIN prog -> Positions]
          /\ resolved[at] # 0 => Denotes(prog, resolved[at], at)
      BY <1>1 DEF IInv, TypeOK, HistoryInv
    <2> QED BY <1>1, <2>1, <2>3, <2>4, <2>5, <2>6, <2>7, SemaAdvances
  <1> QED BY <1>2, <1>3

(* Sema has passed every node and closed every block.                      *)
LEMMA SemaDoneStep == IInv /\ SemaDone => IInv'
  <1> SUFFICES ASSUME IInv, SemaDone PROVE IInv'
    OBVIOUS
  <1>1. /\ phase = "sema" /\ at = Len(prog) + 1 /\ prog \in Programs /\ Len(prog) \in Nat
        /\ Positions = 0..Len(prog) /\ at - 1 = Len(prog)
        /\ prog' = prog /\ phase' = "codegen" /\ at' = 1
        /\ scopes' = PopScope(scopes) /\ genScopes' = <<NoSymbols>>
        /\ UNCHANGED <<saved, curReturnType, resolved, curFunc, owner, emitted>>
    BY Basics DEF SemaDone
  <1>2. /\ DepthIn(prog, at) = 0 /\ DepthIn(prog, 1) = 0
    BY <1>1, DepthType
  <1>3. /\ ScopesAre(prog, scopes, at, Declares) /\ SavedAre(prog, saved, at, "sema")
        /\ \A j \in 1..Len(prog) : Checked(prog, resolved[j], j)
        /\ curFunc = 0
    BY <1>1 DEF IInv, SemaInv
  <1>4. ScopesAre(prog, genScopes', 1, Declares \ {"forward"})
    BY <1>1, FirstScope
  <1>5. SavedAre(prog, saved, 1, "codegen")
    BY <1>2, <1>3 DEF SavedAre
  <1>6. TypeOK'
    <2>1. genScopes' \in Seq(ScopeSet) /\ Len(genScopes') = Len(saved') + 1
      BY <1>1, <1>4, <1>5 DEF ScopesAre, SavedAre, ScopeSet
    <2>2. scopes \in Seq(ScopeSet) /\ Len(scopes) = 1
      BY <1>1, <1>2, <1>3 DEF ScopesAre, ScopeSet
    <2>3. scopes' \in Seq(ScopeSet)
      BY <1>1, <2>2 DEF PopScope
    <2> QED BY <1>1, <2>1, <2>3 DEF IInv, TypeOK, Positions, ScopeSet
  <1>7. SemaInv' /\ GenInv'
    BY <1>1, <1>3, <1>4, <1>5, InsideFirst DEF SemaInv, GenInv
  <1>8. HistoryInv'
    BY <1>1 DEF IInv, HistoryInv
  <1> QED BY <1>1, <1>6, <1>7, <1>8 DEF IInv

(* What codegen has from Sema, of the node it is at.                       *)
LEMMA GenHere ==
    ASSUME IInv, phase = "codegen", at <= Len(prog)
    PROVE  /\ at \in 1..Len(prog) /\ Here = prog[at] /\ prog \in Programs
           /\ DOMAIN prog = 1..Len(prog) /\ Len(prog) \in Nat /\ Positions = 0..Len(prog)
           /\ ScopesAre(prog, genScopes, at, Declares \ {"forward"})
           /\ SavedAre(prog, saved, at, "codegen")
           /\ Inside(prog, curFunc, at) /\ curFunc \in 0..Len(prog)
           /\ Checked(prog, resolved[at], at)
           /\ owner \in [DOMAIN prog -> Positions]
           /\ emitted \in [DOMAIN prog -> [fn : Positions, decl : Positions]]
           /\ EmittedRight(prog, resolved[at], emitted[at], at)
  <1>1. /\ at \in 1..Len(prog) /\ DOMAIN prog = 1..Len(prog) /\ Len(prog) \in Nat
        /\ Positions = 0..Len(prog) /\ prog \in Programs
    BY Basics
  <1> QED BY <1>1 DEF IInv, GenInv, HistoryInv, TypeOK, Here

LEMMA GenBeginStep == IInv /\ GenBegin => IInv'
  <1> SUFFICES ASSUME IInv, GenBegin PROVE IInv'
    OBVIOUS
  <1>1. /\ phase = "codegen" /\ at <= Len(prog) /\ Here.op = "block"
        /\ Advance /\ UNCHANGED semaVars /\ Enter
        /\ UNCHANGED <<curFunc, owner, emitted>> /\ genScopes' = PushScope(genScopes)
    BY DEF GenBegin, GenAt, At
  <1>2. ScopesAre(prog, genScopes', at + 1, Declares \ {"forward"})
    BY <1>1, GenHere, ScopesPush
  <1>3. SavedAre(prog, saved', at + 1, "codegen")
    BY <1>1, GenHere, EnterSaved
  <1>4. Inside(prog, curFunc', at + 1)
    BY <1>1, GenHere, InsideStays
  <1> QED BY <1>1, <1>2, <1>3, <1>4, GenHere, GenAdvances

LEMMA GenDeclStep == IInv /\ GenDecl => IInv'
  <1> SUFFICES ASSUME IInv, GenDecl PROVE IInv'
    OBVIOUS
  <1>1. /\ phase = "codegen" /\ at <= Len(prog) /\ Here.op \in {"var", "const", "param"}
        /\ Advance /\ UNCHANGED semaVars /\ UNCHANGED <<saved, curFunc, emitted>>
        /\ genScopes' = SetSymbol(genScopes, Here.name, at)
        /\ owner' = [owner EXCEPT ![at] = curFunc]
    BY DEF GenDecl, GenAt, At
  <1>2. prog[at].op \in Declares \ {"forward"} /\ Fresh(prog, at)
    BY <1>1, GenHere DEF Checked, Declares, Procedures
  <1>3. ScopesAre(prog, genScopes', at + 1, Declares \ {"forward"})
    BY <1>1, <1>2, GenHere, ScopesSet
  <1>4. SavedAre(prog, saved', at + 1, "codegen")
    BY <1>1, GenHere, SavedStay
  <1>5. Inside(prog, curFunc', at + 1)
    BY <1>1, GenHere, InsideStays
  <1>6. owner' \in [DOMAIN prog -> Positions]
    BY <1>1, GenHere
  <1> QED BY <1>1, <1>3, <1>4, <1>5, <1>6, GenHere, GenAdvances

LEMMA GenForwardStep == IInv /\ GenForward => IInv'
  <1> SUFFICES ASSUME IInv, GenForward PROVE IInv'
    OBVIOUS
  <1>1. /\ phase = "codegen" /\ at <= Len(prog) /\ Here.op = "forward"
        /\ Advance /\ UNCHANGED semaVars
        /\ UNCHANGED <<saved, genScopes, curFunc, owner, emitted>>
    BY DEF GenForward, GenAt, At, genVars
  <1>2. prog[at].op \in Declares /\ Fresh(prog, at)
    BY <1>1, GenHere DEF Checked, Declares, Procedures
  <1>3. ScopesAre(prog, genScopes', at + 1, Declares \ {"forward"})
    BY <1>1, <1>2, GenHere, ScopesStay
  <1>4. SavedAre(prog, saved', at + 1, "codegen")
    BY <1>1, GenHere, SavedStay
  <1>5. Inside(prog, curFunc', at + 1)
    BY <1>1, GenHere, InsideStays
  <1> QED BY <1>1, <1>3, <1>4, <1>5, GenHere, GenAdvances

LEMMA GenProcStep == IInv /\ GenProc => IInv'
  <1> SUFFICES ASSUME IInv, GenProc PROVE IInv'
    OBVIOUS
  <1>1. /\ phase = "codegen" /\ at <= Len(prog) /\ Here.op = "proc"
        /\ Advance /\ UNCHANGED semaVars /\ Enter
        /\ UNCHANGED <<owner, emitted>> /\ curFunc' = at
        /\ genScopes' = PushScope(SetSymbol(genScopes, Here.name, at))
    BY DEF GenProc, GenAt, At
  <1>2. prog[at].op \in Declares /\ "proc" \in Declares \ {"forward"} /\ Fresh(prog, at)
    BY <1>1, GenHere DEF Checked, Declares, Procedures
  <1>3. ScopesAre(prog, genScopes', at + 1, Declares \ {"forward"})
    BY <1>1, <1>2, GenHere, ScopesProc
  <1>4. SavedAre(prog, saved', at + 1, "codegen")
    BY <1>1, GenHere, EnterSaved
  <1>5. Inside(prog, curFunc', at + 1) /\ curFunc' \in Positions
    BY <1>1, GenHere, InsideProc
  <1> QED BY <1>1, <1>3, <1>4, <1>5, GenHere, GenAdvances

LEMMA GenEndStep == IInv /\ GenEnd => IInv'
  <1> SUFFICES ASSUME IInv, GenEnd PROVE IInv'
    OBVIOUS
  <1>1. /\ phase = "codegen" /\ at <= Len(prog) /\ Here.op = "end"
        /\ Advance /\ UNCHANGED semaVars /\ saved' = Tail(saved)
        /\ UNCHANGED <<owner, emitted>> /\ genScopes' = PopScope(genScopes)
        /\ curFunc' = IF Head(saved).op = "proc" THEN Head(saved).fn ELSE curFunc
    BY DEF GenEnd, GenAt, At, Leave, Leaving
  <1>2. ScopesAre(prog, genScopes', at + 1, Declares \ {"forward"})
    BY <1>1, GenHere, ScopesPop
  <1>3. /\ SavedAre(prog, Tail(saved), at + 1, "codegen")
        /\ Head(saved) \in SavedSet(prog)
        /\ Head(saved).op = "proc" =>
              \E f \in 0..Len(prog) : Inside(prog, f, at + 1) /\ Keeps(prog, Head(saved), f, "codegen")
        /\ Head(saved).op # "proc" =>
              \A f \in 0..Len(prog) : Inside(prog, f, at) => Inside(prog, f, at + 1)
    BY <1>1, GenHere, SavedLeave
  <1>4. Inside(prog, curFunc', at + 1) /\ curFunc' \in Positions
    <2>1. CASE Head(saved).op = "proc"
      BY <1>1, <1>3, <2>1, GenHere DEF Keeps
    <2>2. CASE Head(saved).op # "proc"
      BY <1>1, <1>3, <2>2, GenHere
    <2> QED BY <2>1, <2>2
  <1> QED BY <1>1, <1>2, <1>3, <1>4, GenHere, GenAdvances

LEMMA GenUseStep == IInv /\ GenUse => IInv'
  <1> SUFFICES ASSUME IInv, GenUse PROVE IInv'
    OBVIOUS
  <1> DEFINE d == Lookup(genScopes, prog[at].name)
             r == resolved[at]
  <1>1. /\ phase = "codegen" /\ at <= Len(prog) /\ prog[at].op \in Uses /\ Here = prog[at]
    BY GenHere DEF GenUse, GenAt, At
  <1>2. /\ Denotes(prog, r, at) /\ r # 0 /\ r \in 1..Len(prog) /\ Fits(prog, r, at)
        /\ prog[at].op \notin {"block", "proc", "end", "return"} /\ prog[at].op \notin Declares
    BY <1>1, GenHere DEF Checked, Denotes, Visible, Uses, Declares, Procedures
  <1>3. /\ d = r \/ prog[r].op = "forward"
        /\ d # 0 => d \in 1..Len(prog) /\ prog[d].op \in Declares \ {"forward"}
    BY <1>1, <1>2, GenHere, LookupAgrees
  <1>4. CASE d = 0
    <2>1. Fail("undefined late")
      BY <1>1, <1>4 DEF GenUse
    <2>2. IsForward(prog, r)
      BY <1>2, <1>3, <1>4 DEF IsForward
    <2> QED BY <2>1, <2>2, FailStep DEF Outcomes
  <1>5. CASE d # 0 /\ ~Provides(d)
    <2>1. Fail("crash") \/ Fail("misused late")
      BY <1>1, <1>5 DEF GenUse
    <2> QED BY <2>1, FailStep DEF Outcomes
  <1>6. CASE d # 0 /\ Provides(d)
    <2>1. /\ Advance /\ UNCHANGED semaVars /\ UNCHANGED <<saved, genScopes, curFunc, owner>>
          /\ emitted' = [emitted EXCEPT ![at] = [fn |-> curFunc, decl |-> d]]
      BY <1>1, <1>6 DEF GenUse
    <2>2. ScopesAre(prog, genScopes', at + 1, Declares \ {"forward"})
      BY <1>1, <1>2, <2>1, GenHere, ScopesStay
    <2>3. SavedAre(prog, saved', at + 1, "codegen")
      BY <1>1, <1>2, <2>1, GenHere, SavedStay
    <2>4. Inside(prog, curFunc', at + 1)
      BY <1>1, <1>2, <2>1, GenHere, InsideStays
    <2>5. /\ emitted' \in [DOMAIN prog -> [fn : Positions, decl : Positions]]
          /\ emitted'[at] = [fn |-> curFunc, decl |-> d]
          /\ \A j \in DOMAIN prog \ {at} : emitted'[j] = emitted[j]
      <3> HIDE DEF d
      <3> QED BY <1>1, <1>3, <1>6, <2>1, GenHere
    <2>6. \/ IsForward(prog, r)
          \/ prog[d].op \in {"var", "const", "param"}
          \/ prog[at].n = Len(prog[d].modes)
      <3>1. prog[d].op \in {"var", "const", "param"} \/ prog[d].op = "proc"
        BY <1>3, <1>6 DEF Declares, Procedures
      <3>2. CASE prog[d].op = "proc"
        <4>1. prog[at].op \in {"call", "apply"}
          BY <1>1, <1>6, <3>2 DEF Provides, Uses
        <4>2. d = r => prog[at].n = Len(prog[d].modes)
          BY <1>2, <3>2, <4>1 DEF Fits, Procedures
        <4> QED BY <1>2, <1>3, <4>2 DEF IsForward
      <3> QED BY <3>1, <3>2
    <2>7. d = r \/ IsForward(prog, r)
      BY <1>2, <1>3 DEF IsForward
    <2>8. EmittedRight(prog, r, [fn |-> curFunc, decl |-> d], at)
      <3> HIDE DEF d, r
      <3> QED BY <1>2, <2>6, <2>7 DEF EmittedRight
    <2> QED BY <1>1, <2>1, <2>2, <2>3, <2>4, <2>5, <2>8, GenHere, GenAdvances
  <1> QED BY <1>4, <1>5, <1>6

LEMMA GenReturnStep == IInv /\ GenReturn => IInv'
  <1> SUFFICES ASSUME IInv, GenReturn PROVE IInv'
    OBVIOUS
  <1>1. /\ phase = "codegen" /\ at <= Len(prog) /\ Here.op = "return"
        /\ Advance /\ UNCHANGED semaVars /\ UNCHANGED <<saved, genScopes, curFunc, owner>>
        /\ emitted' = [emitted EXCEPT ![at] = [fn |-> curFunc, decl |-> 0]]
    BY DEF GenReturn, GenAt, At
  <1>2. /\ prog[at].op \notin {"block", "proc", "end"} /\ prog[at].op \notin Declares
    BY <1>1, GenHere DEF Declares, Procedures
  <1>3. ScopesAre(prog, genScopes', at + 1, Declares \ {"forward"})
    BY <1>1, <1>2, GenHere, ScopesStay
  <1>4. SavedAre(prog, saved', at + 1, "codegen")
    BY <1>1, <1>2, GenHere, SavedStay
  <1>5. Inside(prog, curFunc', at + 1)
    BY <1>1, <1>2, GenHere, InsideStays
  <1>6. /\ emitted' \in [DOMAIN prog -> [fn : Positions, decl : Positions]]
        /\ emitted'[at] = [fn |-> curFunc, decl |-> 0]
        /\ \A j \in DOMAIN prog \ {at} : emitted'[j] = emitted[j]
    BY <1>1, GenHere
  <1>7. EmittedRight(prog, resolved[at], [fn |-> curFunc, decl |-> 0], at)
    <2>1. PICK f \in 0..Len(prog) : Inside(prog, f, at) /\ prog[at].ret = ReturnType(prog, f)
      BY <1>1, GenHere DEF Checked
    <2>2. f = curFunc
      <3>1. at \in 1..(Len(prog) + 1)
        BY <1>1, GenHere
      <3> QED BY <1>1, <2>1, <3>1, GenHere, InsideOne
    <2>3. curFunc # 0 => prog[at].ret = prog[curFunc].ret
      BY <2>1, <2>2 DEF ReturnType
    <2> QED BY <2>3 DEF EmittedRight
  <1> QED BY <1>1, <1>3, <1>4, <1>5, <1>6, <1>7, GenHere, GenAdvances

LEMMA GenDoneStep == IInv /\ GenDone => IInv'
  <1> SUFFICES ASSUME IInv, GenDone PROVE IInv'
    OBVIOUS
  <1>1. /\ phase = "codegen" /\ at = Len(prog) + 1 /\ prog \in Programs /\ Len(prog) \in Nat
        /\ phase' \in {"verified", "rejected"} /\ genScopes' = PopScope(genScopes)
        /\ UNCHANGED <<prog, at, saved, semaVars, curFunc, owner, emitted>>
        /\ Positions = 0..Len(prog)
    BY Basics DEF GenDone
  <1>2. genScopes' \in Seq(ScopeSet)
    <2>1. genScopes \in Seq(ScopeSet) /\ Len(genScopes) = DepthIn(prog, at) + 1
      BY <1>1 DEF IInv, GenInv, ScopesAre, ScopeSet
    <2>2. DepthIn(prog, at) = 0
      BY <1>1, DepthType
    <2> QED BY <1>1, <2>1, <2>2 DEF PopScope
  <1>3. TypeOK'
    BY <1>1, <1>2 DEF IInv, TypeOK, Outcomes, Positions, ScopeSet, semaVars
  <1>4. SemaInv' /\ GenInv' /\ HistoryInv'
    BY <1>1 DEF IInv, SemaInv, GenInv, HistoryInv, semaVars
  <1> QED BY <1>1, <1>3, <1>4 DEF IInv

LEMMA NextInvariant == IInv /\ [Next]_vars => IInv'
  <1> SUFFICES ASSUME IInv, [Next]_vars PROVE IInv'
    OBVIOUS
  <1>1. CASE Next
    BY <1>1, SemaBeginStep, SemaDeclStep, SemaProcStep, SemaEndStep, SemaUseStep,
       SemaReturnStep, SemaDoneStep, GenBeginStep, GenDeclStep, GenForwardStep, GenProcStep,
       GenEndStep, GenUseStep, GenReturnStep, GenDoneStep DEF Next
  <1>2. CASE UNCHANGED vars
    BY <1>2 DEF vars, semaVars, genVars, IInv, TypeOK, SemaInv, GenInv, HistoryInv,
                Positions, ScopeSet
  <1> QED BY <1>1, <1>2

LEMMA Invariant == Spec => []IInv
  BY InitInvariant, NextInvariant, PTL DEF Spec

-----------------------------------------------------------------------------
(***************************************************************************)
(* What it is for.                                                         *)
(***************************************************************************)

(* For every program, the state has its types, and each pass has as many   *)
(* scopes as handlers are active in it and one of its own.                 *)
THEOREM NamesTypeCorrect == Spec => []TypeOK
  <1>1. IInv => TypeOK
    BY DEF IInv
  <1> QED BY <1>1, Invariant, PTL

(* For every program, Sema takes a name for the declaration in the         *)
(* innermost enclosing scope, and calls it undefined only if there is none.*)
THEOREM NamesAreLexical == Spec => []SemaIsLexical
  <1>1. IInv => SemaIsLexical
    <2> SUFFICES ASSUME IInv PROVE SemaIsLexical
      OBVIOUS
    <2>1. DOMAIN prog = 1..Len(prog) /\ Len(prog) \in Nat
      BY Basics
    <2>2. ASSUME NEW i, NEW d \in DOMAIN prog, NEW e \in DOMAIN prog,
                 Denotes(prog, d, i), Denotes(prog, e, i)
          PROVE  d = e
      <3>1. d <= e /\ e <= d
        BY <2>2 DEF Denotes
      <3> QED BY <2>1, <3>1
    <2>3. ASSUME NEW i \in DOMAIN prog, resolved[i] # 0
          PROVE  resolved[i] = Denoted(i)
      <3>1. Denotes(prog, resolved[i], i) /\ resolved[i] \in DOMAIN prog
        BY <2>1, <2>3 DEF IInv, HistoryInv, Denotes, Visible
      <3>2. Denotes(prog, CHOOSE d \in DOMAIN prog : Denotes(prog, d, i), i)
            /\ (CHOOSE d \in DOMAIN prog : Denotes(prog, d, i)) \in DOMAIN prog
        BY <3>1
      <3>3. (CHOOSE d \in DOMAIN prog : Denotes(prog, d, i)) = resolved[i]
        BY <2>2, <3>1, <3>2
      <3> QED BY <3>1, <3>3 DEF Denoted
    <2>4. ASSUME phase = "undefined"
          PROVE  Denoted(at) = 0
      BY <2>4 DEF IInv, HistoryInv, Denoted
    <2> QED BY <2>3, <2>4 DEF SemaIsLexical
  <1> QED BY <1>1, Invariant, PTL

(* For every program, what codegen emits for a use is of the declaration   *)
(* that Sema resolved it to, unless that is a FORWARD.                     *)
THEOREM NamesPassesAgree == Spec => []PassesAgree
  <1>1. IInv => PassesAgree
    <2> SUFFICES ASSUME IInv, NEW i \in EmittedUses
                 PROVE  emitted[i].decl = resolved[i] \/ Announced(resolved[i])
      BY DEF PassesAgree
    <2>1. i \in 1..Len(prog) /\ emitted[i].decl # 0
      BY Basics DEF EmittedUses
    <2> QED BY <2>1 DEF IInv, HistoryInv, EmittedRight, IsForward, Announced
  <1> QED BY <1>1, Invariant, PTL

(* For every program that Sema accepts, codegen finds every name that is   *)
(* not announced FORWARD.                                                  *)
THEOREM NamesNothingUndefinedLate == Spec => []NothingUndefinedLate
  <1>1. IInv => NothingUndefinedLate
    BY DEF IInv, HistoryInv, NothingUndefinedLate, IsForward, Announced
  <1> QED BY <1>1, Invariant, PTL

(* For every program, a RETURN in a procedure is emitted into the one that *)
(* Sema checked it against.                                                *)
THEOREM NamesReturnsFit == Spec => []ReturnsFitTheirFunction
  <1>1. IInv => ReturnsFitTheirFunction
    <2> SUFFICES ASSUME IInv, NEW i \in DOMAIN prog, emitted[i].fn # 0
                 PROVE  RetFits(i)
      BY DEF ReturnsFitTheirFunction
    <2>1. i \in 1..Len(prog)
      BY Basics
    <2> QED BY <2>1 DEF IInv, HistoryInv, EmittedRight, RetFits
  <1> QED BY <1>1, Invariant, PTL

(* For every program, a call that Sema accepts of a procedure with IN      *)
(* parameters is a call the verifier accepts.                              *)
THEOREM NamesCallsFit == Spec => []CallsFit
  <1>1. IInv => CallsFit
    <2> SUFFICES ASSUME IInv, NEW i \in EmittedUses
                 PROVE  FitsCallee(i) \/ Announced(resolved[i]) \/ HasOut(emitted[i].decl)
      BY DEF CallsFit
    <2> DEFINE d == emitted[i].decl
    <2>1. i \in 1..Len(prog) /\ d # 0 /\ d \in 1..Len(prog) /\ prog \in Programs
      BY Basics DEF EmittedUses, IInv, TypeOK
    <2>2. \/ IsForward(prog, resolved[i])
          \/ prog[d].op \in {"var", "const", "param"}
          \/ prog[i].n = Len(prog[d].modes)
      BY <2>1 DEF IInv, HistoryInv, EmittedRight
    <2>3. \A k \in DOMAIN prog[d].modes : prog[d].modes[k] \in {"in", "out"}
      BY <2>1, NodeType
    <2>4. ~HasOut(d) => \A k \in DOMAIN prog[d].modes : prog[d].modes[k] = "in"
      BY <2>3 DEF HasOut
    <2> QED BY <2>2, <2>4 DEF FitsCallee, HasAlloca, Announced, IsForward
  <1> QED BY <1>1, Invariant, PTL
=============================================================================
