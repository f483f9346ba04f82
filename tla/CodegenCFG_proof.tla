-------------------------- MODULE CodegenCFG_proof --------------------------
(***************************************************************************)
(* Theorems about the basic-block builder, for every program: every set of *)
(* nodes, names and expressions, and statements nested to any depth.       *)
(*                                                                         *)
(* The four safety properties of CodegenCFG lean on one another.  A        *)
(* handler such as EndRepeat emits a branch without looking, so nothing is *)
(* emitted behind a terminator only because the insertion block is open    *)
(* when the handler runs; it is open because the handler that opened it    *)
(* left it to its sub-statement empty, and because no other activation of  *)
(* genStmt fills it meanwhile; and the CASE arms are the exception, with   *)
(* the insertion block closed by the switch from one arm to the next.      *)
(* IInv says all of this, of every frame of the recursion at once.         *)
(*                                                                         *)
(* The proof is in three layers: what the IRBuilder primitives and the     *)
(* sequence operations do; HandlerStep, which shows that any handler that  *)
(* keeps to its own blocks (Mine) preserves IInv; and one lemma per action *)
(* that shows that it is such a handler.                                   *)
(*                                                                         *)
(* The part after it is about where the branches go.  Its invariant        *)
(* BranchInv gives every frame of the recursion the function it generates  *)
(* into and its depth of nesting: what is in labels_ belongs to that       *)
(* function or to a procedure declared deeper in it, and the hypothesis on *)
(* the programs, LabelsAtOneDepth, tells the two apart.                    *)
(*                                                                         *)
(* LegalPrograms_proof builds on both.                                     *)
(***************************************************************************)
EXTENDS CodegenCFG, SequenceTheorems, WellFoundedInduction, TLAPS

-----------------------------------------------------------------------------
(***************************************************************************)
(* Instruction sequences: whether one holds a terminator, and whether only *)
(* its last instruction may be one.                                        *)
(***************************************************************************)
Ends(ins) == \E i \in DOMAIN ins : IsTerminator(ins[i])
Tidy(ins) == \A i \in DOMAIN ins : IsTerminator(ins[i]) => i = Len(ins)

Closed(bs, b) == Ends(bs[b].ins)
Clean(bs, b)  == Tidy(bs[b].ins)

(* Where the elements of a concatenation come from.                        *)
LEMMA ConcatElements ==
    ASSUME NEW S, NEW s \in Seq(S), NEW t \in Seq(S)
    PROVE  /\ s \o t \in Seq(S)
           /\ Len(s \o t) = Len(s) + Len(t)
           /\ DOMAIN (s \o t) = 1..(Len(s) + Len(t))
           /\ DOMAIN s = 1..Len(s) /\ DOMAIN t = 1..Len(t)
           /\ Len(s) \in Nat /\ Len(t) \in Nat
           /\ \A i \in DOMAIN s : i \in DOMAIN (s \o t) /\ (s \o t)[i] = s[i]
           /\ \A i \in DOMAIN t : /\ Len(s) + i \in DOMAIN (s \o t)
                                  /\ (s \o t)[Len(s) + i] = t[i]
           /\ \A i \in DOMAIN (s \o t) :
                 \/ i \in DOMAIN s /\ (s \o t)[i] = s[i]
                 \/ i - Len(s) \in DOMAIN t /\ (s \o t)[i] = t[i - Len(s)]
  <1>1. /\ s \o t \in Seq(S)
        /\ Len(s \o t) = Len(s) + Len(t)
        /\ \A i \in 1..(Len(s) + Len(t)) :
              (s \o t)[i] = IF i <= Len(s) THEN s[i] ELSE t[i - Len(s)]
    BY ConcatProperties
  <1>2. /\ DOMAIN (s \o t) = 1..(Len(s) + Len(t))
        /\ DOMAIN s = 1..Len(s) /\ DOMAIN t = 1..Len(t)
        /\ Len(s) \in Nat /\ Len(t) \in Nat
    BY <1>1, LenProperties
  <1> QED BY <1>1, <1>2

(* Whether a concatenation holds a terminator, and only as its last one.   *)
LEMMA EndsConcat ==
    ASSUME NEW S, NEW s \in Seq(S), NEW t \in Seq(S)
    PROVE  /\ Ends(s \o t) <=> Ends(s) \/ Ends(t)
           /\ ~Ends(s) /\ Tidy(t) => Tidy(s \o t)
  <1>1. Ends(s) \/ Ends(t) => Ends(s \o t)
    <2>1. Ends(s) => Ends(s \o t)
      <3> SUFFICES ASSUME NEW i \in DOMAIN s, IsTerminator(s[i]) PROVE Ends(s \o t)
        BY DEF Ends
      <3> QED BY ConcatElements DEF Ends
    <2>2. Ends(t) => Ends(s \o t)
      <3> SUFFICES ASSUME NEW i \in DOMAIN t, IsTerminator(t[i]) PROVE Ends(s \o t)
        BY DEF Ends
      <3>1. /\ Len(s) + i \in DOMAIN (s \o t)
            /\ (s \o t)[Len(s) + i] = t[i]
        BY ConcatElements
      <3> QED BY <3>1 DEF Ends
    <2> QED BY <2>1, <2>2
  <1>2. Ends(s \o t) => Ends(s) \/ Ends(t)
    <2> SUFFICES ASSUME NEW i \in DOMAIN (s \o t), IsTerminator((s \o t)[i])
                 PROVE  Ends(s) \/ Ends(t)
      BY DEF Ends
    <2>1. CASE i \in DOMAIN s /\ (s \o t)[i] = s[i]
      BY <2>1 DEF Ends
    <2>2. CASE i - Len(s) \in DOMAIN t /\ (s \o t)[i] = t[i - Len(s)]
      BY <2>2 DEF Ends
    <2> QED BY <2>1, <2>2, ConcatElements
  <1>3. ~Ends(s) /\ Tidy(t) => Tidy(s \o t)
    <2> SUFFICES ASSUME ~Ends(s), Tidy(t),
                        NEW i \in DOMAIN (s \o t), IsTerminator((s \o t)[i])
                 PROVE  i = Len(s \o t)
      BY DEF Tidy
    <2>1. CASE i \in DOMAIN s /\ (s \o t)[i] = s[i]
      BY <2>1 DEF Ends
    <2>2. CASE i - Len(s) \in DOMAIN t /\ (s \o t)[i] = t[i - Len(s)]
      <3>1. i - Len(s) = Len(t)
        BY <2>2 DEF Tidy
      <3>2. i \in 1..(Len(s) + Len(t)) /\ Len(s) \in Nat /\ Len(t) \in Nat
        BY ConcatElements
      <3>3. Len(s \o t) = Len(s) + Len(t)
        BY ConcatElements
      <3> QED BY <3>1, <3>2, <3>3
    <2> QED BY <2>1, <2>2, ConcatElements
  <1> QED BY <1>1, <1>2, <1>3

(* The instructions that the handlers emit together.                       *)
LEMMA OneInstruction ==
    ASSUME NEW i \in InstructionSet
    PROVE  /\ <<i>> \in Seq(InstructionSet)
           /\ Tidy(<<i>>)
           /\ Ends(<<i>>) <=> IsTerminator(i)
  <1>1. DOMAIN <<i>> = {1} /\ Len(<<i>>) = 1 /\ <<i>>[1] = i
    OBVIOUS
  <1> QED BY <1>1 DEF Tidy, Ends

-----------------------------------------------------------------------------
(***************************************************************************)
(* The IRBuilder primitives.                                               *)
(***************************************************************************)
(* BasicBlock::Create adds empty blocks and changes none.                  *)
LEMMA CreateProperties ==
    ASSUME NEW bs \in Seq(BlockSet), NEW n \in Nat, NEW fn \in Nat
    PROVE  /\ Create(bs, n, fn) \in Seq(BlockSet)
           /\ Len(Create(bs, n, fn)) = Len(bs) + n
           /\ \A b \in 1..Len(bs) : Create(bs, n, fn)[b] = bs[b]
           /\ \A b \in (Len(bs) + 1)..(Len(bs) + n) :
                 ~Closed(Create(bs, n, fn), b) /\ Clean(Create(bs, n, fn), b)
  <1> DEFINE new == [i \in 1..n |-> [fn |-> fn, ins |-> <<>>]]
  <1>1. [fn |-> fn, ins |-> <<>>] \in BlockSet
    BY DEF BlockSet
  <1>2. new \in Seq(BlockSet) /\ Len(new) = n /\ DOMAIN new = 1..n
    BY <1>1
  <1>3. Create(bs, n, fn) = bs \o new
    BY DEF Create
  <1>4. \A i \in 1..n : new[i].ins = <<>>
    OBVIOUS
  <1> HIDE DEF new
  <1>5. /\ bs \o new \in Seq(BlockSet)
        /\ Len(bs \o new) = Len(bs) + n
        /\ \A b \in 1..Len(bs) : (bs \o new)[b] = bs[b]
    BY <1>2, ConcatElements
  <1>6. ASSUME NEW b \in (Len(bs) + 1)..(Len(bs) + n)
        PROVE  Create(bs, n, fn)[b].ins = <<>>
    <2>1. b - Len(bs) \in 1..n /\ Len(bs) \in Nat /\ b = Len(bs) + (b - Len(bs))
      BY LenProperties
    <2>2. (bs \o new)[b] = new[b - Len(bs)]
      BY <1>2, <2>1, ConcatElements
    <2> QED BY <1>3, <1>4, <2>1, <2>2
  <1> QED BY <1>3, <1>5, <1>6 DEF Closed, Clean, Ends, Tidy

(* Emit appends to one block and changes no other.                         *)
LEMMA EmitProperties ==
    ASSUME NEW bs \in Seq(BlockSet), NEW b \in 1..Len(bs),
           NEW instrs \in Seq(InstructionSet)
    PROVE  /\ Emit(bs, b, instrs) \in Seq(BlockSet)
           /\ Len(Emit(bs, b, instrs)) = Len(bs)
           /\ \A c \in 1..Len(bs) : c # b => Emit(bs, b, instrs)[c] = bs[c]
           /\ Closed(Emit(bs, b, instrs), b) <=> Closed(bs, b) \/ Ends(instrs)
           /\ ~Closed(bs, b) /\ Tidy(instrs) => Clean(Emit(bs, b, instrs), b)
  <1>1. bs[b] \in BlockSet
    OBVIOUS
  <1>2. bs[b].ins \in Seq(InstructionSet)
    BY <1>1 DEF BlockSet
  <1>3. bs[b].ins \o instrs \in Seq(InstructionSet)
    BY <1>2
  <1> DEFINE new == [bs[b] EXCEPT !.ins = bs[b].ins \o instrs]
  <1>4. new \in BlockSet /\ new.ins = bs[b].ins \o instrs
    BY <1>1, <1>3 DEF BlockSet
  <1>5. Emit(bs, b, instrs) = [bs EXCEPT ![b] = new]
    BY DEF Emit
  <1> HIDE DEF new
  <1>6. /\ Emit(bs, b, instrs) \in Seq(BlockSet)
        /\ Len(Emit(bs, b, instrs)) = Len(bs)
        /\ \A c \in 1..Len(bs) : c # b => Emit(bs, b, instrs)[c] = bs[c]
        /\ Emit(bs, b, instrs)[b].ins = bs[b].ins \o instrs
    BY <1>4, <1>5, ExceptSeq
  <1> QED BY <1>2, <1>6, EndsConcat DEF Closed, Clean

(* FallTo closes the block, whether it has to or not.                      *)
LEMMA FallToProperties ==
    ASSUME NEW bs \in Seq(BlockSet), NEW b \in 1..Len(bs), NEW to \in Nat
    PROVE  /\ FallTo(bs, b, to) \in Seq(BlockSet)
           /\ Len(FallTo(bs, b, to)) = Len(bs)
           /\ \A c \in 1..Len(bs) : c # b => FallTo(bs, b, to)[c] = bs[c]
           /\ Closed(FallTo(bs, b, to), b)
           /\ Clean(bs, b) => Clean(FallTo(bs, b, to), b)
  <1>1. Br(to) \in InstructionSet /\ IsTerminator(Br(to))
    BY DEF Br, Instruction, InstructionSet, Ops, Terminators, IsTerminator, Optional
  <1>2. <<Br(to)>> \in Seq(InstructionSet) /\ Tidy(<<Br(to)>>) /\ Ends(<<Br(to)>>)
    BY <1>1, OneInstruction
  <1>3. bs[b].ins \in Seq(InstructionSet)
    <2>1. bs[b] \in BlockSet
      OBVIOUS
    <2> QED BY <2>1 DEF BlockSet
  <1>4. CASE Terminated(bs, b)
    <2>1. Len(bs[b].ins) \in DOMAIN bs[b].ins
      BY <1>3, <1>4 DEF Terminated
    <2>2. Closed(bs, b)
      BY <1>4, <2>1 DEF Closed, Ends, Terminated
    <2> QED BY <1>4, <2>2 DEF FallTo
  <1>5. CASE ~Terminated(bs, b)
    <2>1. FallTo(bs, b, to) = Emit(bs, b, <<Br(to)>>)
      BY <1>5 DEF FallTo
    <2>2. Clean(bs, b) => ~Closed(bs, b)
      <3> SUFFICES ASSUME Clean(bs, b), NEW i \in DOMAIN bs[b].ins,
                          IsTerminator(bs[b].ins[i])
                   PROVE  FALSE
        BY DEF Closed, Ends
      <3>1. i = Len(bs[b].ins)
        BY DEF Clean, Tidy
      <3>2. bs[b].ins # <<>>
        BY <1>3
      <3> QED BY <1>5, <3>1, <3>2 DEF Terminated
    <2> QED BY <1>2, <2>1, <2>2, EmitProperties
  <1> QED BY <1>4, <1>5

(* addCase changes the operands of an instruction, not what kind it is.    *)
LEMMA AddCaseProperties ==
    ASSUME NEW bs \in Seq(BlockSet), NEW b \in 1..Len(bs),
           NEW p \in DOMAIN bs[b].ins, NEW value \in Nat, NEW to \in Nat
    PROVE  /\ AddCase(bs, b, p, value, to) \in Seq(BlockSet)
           /\ Len(AddCase(bs, b, p, value, to)) = Len(bs)
           /\ \A c \in 1..Len(bs) :
                 /\ Len(AddCase(bs, b, p, value, to)[c].ins) = Len(bs[c].ins)
                 /\ Closed(AddCase(bs, b, p, value, to), c) <=> Closed(bs, c)
                 /\ Clean(bs, c) => Clean(AddCase(bs, b, p, value, to), c)
  <1> DEFINE old == bs[b].ins
             switch == [old[p] EXCEPT !.arg = Append(old[p].arg, value),
                                      !.to  = Append(old[p].to, to)]
             ins == [old EXCEPT ![p] = switch]
             block == [bs[b] EXCEPT !.ins = ins]
  <1>1. bs[b] \in BlockSet
    OBVIOUS
  <1>2. old \in Seq(InstructionSet) /\ p \in 1..Len(old)
    BY <1>1 DEF BlockSet
  <1>3. old[p] \in InstructionSet
    BY <1>2
  <1>4. switch \in InstructionSet /\ switch.op = old[p].op
    <2>1. /\ Append(old[p].arg, value) \in Seq(Nat)
          /\ Append(old[p].to, to) \in Seq(Nat)
      BY <1>3, AppendProperties DEF InstructionSet
    <2> QED BY <1>3, <2>1 DEF InstructionSet
  <1> HIDE DEF switch
  <1>5. /\ ins \in Seq(InstructionSet) /\ Len(ins) = Len(old)
        /\ \A i \in 1..Len(old) : ins[i].op = old[i].op
    BY <1>2, <1>4, ExceptSeq
  <1>6. DOMAIN ins = 1..Len(old) /\ DOMAIN old = 1..Len(old)
    BY <1>2, <1>5, LenProperties
  <1>7. AddCase(bs, b, p, value, to) = [bs EXCEPT ![b] = block]
    BY DEF AddCase, switch
  <1> HIDE DEF ins
  <1>8. block \in BlockSet /\ block.ins = ins
    BY <1>1, <1>5 DEF BlockSet
  <1> HIDE DEF block
  <1> DEFINE new == AddCase(bs, b, p, value, to)
  <1>9. /\ new \in Seq(BlockSet) /\ Len(new) = Len(bs)
        /\ new[b] = block
        /\ \A c \in 1..Len(bs) : c # b => new[c] = bs[c]
    BY <1>7, <1>8, ExceptSeq
  <1> HIDE DEF new
  <1>10. (Ends(ins) <=> Ends(old)) /\ (Tidy(old) => Tidy(ins))
    BY <1>5, <1>6 DEF Ends, Tidy, IsTerminator
  <1>11. /\ Len(new[b].ins) = Len(bs[b].ins)
         /\ Closed(new, b) <=> Closed(bs, b)
         /\ Clean(bs, b) => Clean(new, b)
    BY <1>5, <1>8, <1>9, <1>10 DEF Closed, Clean
  <1>12. ASSUME NEW c \in 1..Len(bs), c # b
         PROVE  /\ Len(new[c].ins) = Len(bs[c].ins)
                /\ Closed(new, c) <=> Closed(bs, c)
                /\ Clean(bs, c) => Clean(new, c)
    BY <1>9, <1>12 DEF Closed, Clean
  <1>13. \A c \in 1..Len(bs) :
            /\ Len(new[c].ins) = Len(bs[c].ins)
            /\ Closed(new, c) <=> Closed(bs, c)
            /\ Clean(bs, c) => Clean(new, c)
    BY <1>11, <1>12
  <1> QED BY <1>9, <1>13 DEF new

-----------------------------------------------------------------------------
(***************************************************************************)
(* Frames: what each kind of frame holds, given nb blocks and nf functions. *)
(***************************************************************************)
NodeOf == [endthen |-> "If", endwhile |-> "While", endfor |-> "For",
           enddo |-> "Do", endrepeat |-> "Repeat", arm |-> "Case",
           endproc |-> "Proc"]

FrameOK(f, nb, nf) ==
    /\ OwedBy(f) \subseteq 1..nb
    /\ f.k \in DOMAIN NodeOf => f.s.kind = NodeOf[f.k]
    /\ f.k \in {"gen", "endblock", "enddo", "arm", "endarm"} => f.owed = <<>>
    /\ f.k \in {"endelse", "endwhile", "endfor", "endrepeat", "endproc"}
         => Len(f.owed) = 1
    /\ f.k = "endthen" => Len(f.owed) = IF f.s.alt = <<>> THEN 1 ELSE 2
    /\ f.k = "endcase" => Len(f.owed) = 2
    /\ Len(f.owed) = 2 => f.owed[1] # f.owed[2]
    /\ f.k \in {"endwhile", "endfor", "enddo", "endrepeat", "endarm", "endproc"}
         => Len(f.to) = 1
    /\ f.k = "arm" => Len(f.to) = 4 /\ f.to[3] \in DOMAIN f.s.stmts
    /\ f.k = "endproc" => f.to[1] \in 1..nf

FramesOK(fs, nb, nf) == \A i \in DOMAIN fs : FrameOK(fs[i], nb, nf)

OwedIn(fs) == UNION {OwedBy(fs[i]) : i \in DOMAIN fs}
Apart(fs)  == \A i, j \in DOMAIN fs :
                  i # j => OwedBy(fs[i]) \cap OwedBy(fs[j]) = {}

(* An arm, and the end of one, is followed by another arm or the end of    *)
(* the CASE, and nothing else is.                                          *)
InCase(f)    == f.k \in {"arm", "endarm"}
AtSwitch(f)  == f.k \in {"arm", "endcase"}
SwitchFirst(fs) == fs # <<>> /\ AtSwitch(fs[1])
Linked(fs, last) ==
    \A i \in DOMAIN fs :
        InCase(fs[i]) <=> IF i + 1 \in DOMAIN fs THEN AtSwitch(fs[i + 1]) ELSE last
Chained(fs) == Linked(fs, FALSE)

(* Blocks and functions are never deleted.                                 *)
LEMMA FrameOKMonotonic ==
    ASSUME NEW nb \in Nat, NEW nf \in Nat, NEW nb2 \in Nat, NEW nf2 \in Nat,
           nb <= nb2, nf <= nf2, NEW f \in FrameSet, FrameOK(f, nb, nf)
    PROVE  FrameOK(f, nb2, nf2)
  <1>1. 1..nb \subseteq 1..nb2 /\ 1..nf \subseteq 1..nf2
    OBVIOUS
  <1> QED BY <1>1 DEF FrameOK

(* What a stack owes is what its two parts owe.                            *)
LEMMA OwedConcat ==
    ASSUME NEW s \in Seq(FrameSet), NEW t \in Seq(FrameSet)
    PROVE  OwedIn(s \o t) = OwedIn(s) \cup OwedIn(t)
  <1>1. ASSUME NEW b \in OwedIn(s \o t) PROVE b \in OwedIn(s) \cup OwedIn(t)
    <2>1. PICK i \in DOMAIN (s \o t) : b \in OwedBy((s \o t)[i])
      BY DEF OwedIn
    <2> QED BY <2>1, ConcatElements DEF OwedIn
  <1>2. ASSUME NEW b \in OwedIn(s) PROVE b \in OwedIn(s \o t)
    <2>1. PICK i \in DOMAIN s : b \in OwedBy(s[i])
      BY DEF OwedIn
    <2>2. i \in DOMAIN (s \o t) /\ (s \o t)[i] = s[i]
      BY ConcatElements
    <2> QED BY <2>1, <2>2 DEF OwedIn
  <1>3. ASSUME NEW b \in OwedIn(t) PROVE b \in OwedIn(s \o t)
    <2>1. PICK i \in DOMAIN t : b \in OwedBy(t[i])
      BY DEF OwedIn
    <2>2. Len(s) + i \in DOMAIN (s \o t) /\ (s \o t)[Len(s) + i] = t[i]
      BY ConcatElements
    <2> QED BY <2>1, <2>2 DEF OwedIn
  <1> QED BY <1>1, <1>2, <1>3

(* Frames stay apart when two stacks that owe different blocks are joined. *)
LEMMA ApartConcat ==
    ASSUME NEW s \in Seq(FrameSet), NEW t \in Seq(FrameSet),
           Apart(s), Apart(t), OwedIn(s) \cap OwedIn(t) = {}
    PROVE  Apart(s \o t)
  <1> SUFFICES ASSUME NEW i \in DOMAIN (s \o t), NEW j \in DOMAIN (s \o t), i # j
               PROVE  OwedBy((s \o t)[i]) \cap OwedBy((s \o t)[j]) = {}
    BY DEF Apart
  <1>0. \A n \in DOMAIN (s \o t) :
           \/ n \in DOMAIN s /\ (s \o t)[n] = s[n]
           \/ n - Len(s) \in DOMAIN t /\ (s \o t)[n] = t[n - Len(s)]
    BY ConcatElements
  <1>1. CASE i \in DOMAIN s /\ (s \o t)[i] = s[i]
    <2>1. CASE j \in DOMAIN s /\ (s \o t)[j] = s[j]
      BY <1>1, <2>1 DEF Apart
    <2>2. CASE j - Len(s) \in DOMAIN t /\ (s \o t)[j] = t[j - Len(s)]
      BY <1>1, <2>2 DEF OwedIn
    <2> QED BY <1>0, <2>1, <2>2
  <1>2. CASE i - Len(s) \in DOMAIN t /\ (s \o t)[i] = t[i - Len(s)]
    <2>1. CASE j \in DOMAIN s /\ (s \o t)[j] = s[j]
      BY <1>2, <2>1 DEF OwedIn
    <2>2. CASE j - Len(s) \in DOMAIN t /\ (s \o t)[j] = t[j - Len(s)]
      <3>1. i - Len(s) # j - Len(s)
        BY ConcatElements
      <3> QED BY <1>2, <2>2, <3>1 DEF Apart
    <2> QED BY <1>0, <2>1, <2>2
  <1> QED BY <1>0, <1>1, <1>2

(* A sequence with an element is not empty.                                *)
LEMMA NonEmpty ==
    ASSUME NEW S, NEW s \in Seq(S)
    PROVE  s # <<>> <=> 1 \in DOMAIN s
  <1>1. DOMAIN s = 1..Len(s)
    BY LenProperties
  <1>2. CASE s # <<>>
    BY <1>1, <1>2, EmptySeq
  <1>3. CASE s = <<>>
    <2>1. Len(s) = 0
      BY <1>3, EmptySeq
    <2>2. 1 \notin DOMAIN s
      BY <1>1, <2>1
    <2> QED BY <1>3, <2>2
  <1> QED BY <1>2, <1>3

(* What the top of the stack owes and what the rest owes.                  *)
LEMMA TailProperties ==
    ASSUME NEW w \in Seq(FrameSet), w # <<>>
    PROVE  /\ Head(w) \in FrameSet /\ Head(w) = w[1]
           /\ Tail(w) \in Seq(FrameSet)
           /\ Len(w) \in Nat \ {0} /\ DOMAIN w = 1..Len(w)
           /\ DOMAIN Tail(w) = 1..(Len(w) - 1)
           /\ \A i \in DOMAIN Tail(w) : i + 1 \in DOMAIN w /\ Tail(w)[i] = w[i + 1]
           /\ OwedIn(w) = OwedBy(Head(w)) \cup OwedIn(Tail(w))
           /\ Apart(w) => /\ Apart(Tail(w))
                          /\ OwedBy(Head(w)) \cap OwedIn(Tail(w)) = {}
           /\ Chained(w) => /\ Chained(Tail(w))
                            /\ InCase(Head(w)) <=> SwitchFirst(Tail(w))
  <1>1. /\ Head(w) \in FrameSet /\ Head(w) = w[1]
        /\ Tail(w) \in Seq(FrameSet)
        /\ Len(w) \in Nat \ {0} /\ DOMAIN w = 1..Len(w)
        /\ DOMAIN Tail(w) = 1..(Len(w) - 1)
        /\ \A i \in DOMAIN Tail(w) : i + 1 \in DOMAIN w /\ Tail(w)[i] = w[i + 1]
    OBVIOUS
  <1>2. \A i \in DOMAIN w : i = 1 \/ (i - 1 \in DOMAIN Tail(w) /\ w[i] = Tail(w)[i - 1])
    <2> TAKE i \in DOMAIN w
    <2>1. CASE i # 1
      <3>1. i - 1 \in DOMAIN Tail(w) /\ (i - 1) + 1 = i
        BY <1>1, <2>1
      <3>2. Tail(w)[i - 1] = w[(i - 1) + 1]
        BY <1>1, <3>1
      <3> QED BY <3>1, <3>2
    <2>2. CASE i = 1
      BY <2>2
    <2> QED BY <2>1, <2>2
  <1>3. OwedIn(w) \subseteq OwedBy(Head(w)) \cup OwedIn(Tail(w))
    <2> SUFFICES ASSUME NEW b, NEW i \in DOMAIN w, b \in OwedBy(w[i])
                 PROVE  b \in OwedBy(Head(w)) \cup OwedIn(Tail(w))
      BY DEF OwedIn
    <2> QED BY <1>1, <1>2 DEF OwedIn
  <1>4. OwedBy(Head(w)) \cup OwedIn(Tail(w)) \subseteq OwedIn(w)
    <2>1. 1 \in DOMAIN w
      BY <1>1
    <2>2. OwedBy(Head(w)) \subseteq OwedIn(w)
      BY <1>1, <2>1 DEF OwedIn
    <2>3. ASSUME NEW i \in DOMAIN Tail(w) PROVE OwedBy(Tail(w)[i]) \subseteq OwedIn(w)
      BY <1>1 DEF OwedIn
    <2>4. OwedIn(Tail(w)) \subseteq OwedIn(w)
      BY <2>3 DEF OwedIn
    <2> QED BY <2>2, <2>4
  <1>5. ASSUME Apart(w) PROVE Apart(Tail(w))
    <2> SUFFICES ASSUME NEW i \in DOMAIN Tail(w), NEW j \in DOMAIN Tail(w), i # j
                 PROVE  OwedBy(Tail(w)[i]) \cap OwedBy(Tail(w)[j]) = {}
      BY DEF Apart
    <2>1. i + 1 # j + 1
      BY <1>1
    <2> QED BY <1>1, <1>5, <2>1 DEF Apart
  <1>6. ASSUME Apart(w) PROVE OwedBy(Head(w)) \cap OwedIn(Tail(w)) = {}
    <2> SUFFICES ASSUME NEW i \in DOMAIN Tail(w)
                 PROVE  OwedBy(Head(w)) \cap OwedBy(Tail(w)[i]) = {}
      BY DEF OwedIn
    <2>1. 1 \in DOMAIN w /\ 1 # i + 1
      BY <1>1
    <2> QED BY <1>1, <1>6, <2>1 DEF Apart
  <1>7. ASSUME Chained(w) PROVE Chained(Tail(w))
    <2> SUFFICES ASSUME NEW i \in DOMAIN Tail(w)
                 PROVE  InCase(Tail(w)[i]) <=> /\ i + 1 \in DOMAIN Tail(w)
                                              /\ AtSwitch(Tail(w)[i + 1])
      BY DEF Chained, Linked
    <2>1. InCase(w[i + 1]) <=> (i + 1) + 1 \in DOMAIN w /\ AtSwitch(w[(i + 1) + 1])
      BY <1>1, <1>7 DEF Chained, Linked
    <2>2. (i + 1) + 1 \in DOMAIN w <=> i + 1 \in DOMAIN Tail(w)
      BY <1>1
    <2> QED BY <1>1, <2>1, <2>2
  <1>8. ASSUME Chained(w) PROVE InCase(Head(w)) <=> SwitchFirst(Tail(w))
    <2>1. InCase(w[1]) <=> 2 \in DOMAIN w /\ AtSwitch(w[2])
      <3>1. 1 \in DOMAIN w /\ 1 + 1 = 2
        BY <1>1
      <3> QED BY <1>8, <3>1 DEF Chained, Linked
    <2>2. 2 \in DOMAIN w <=> 1 \in DOMAIN Tail(w)
      BY <1>1
    <2>3. Tail(w) # <<>> <=> 1 \in DOMAIN Tail(w)
      BY <1>1, NonEmpty
    <2>4. 1 \in DOMAIN Tail(w) => Tail(w)[1] = w[2]
      <3>1. 1 + 1 = 2
        OBVIOUS
      <3> QED BY <1>1, <3>1
    <2>5. SwitchFirst(Tail(w)) <=> 2 \in DOMAIN w /\ AtSwitch(w[2])
      BY <2>2, <2>3, <2>4 DEF SwitchFirst
    <2> QED BY <1>1, <2>1, <2>5
  <1> QED BY <1>1, <1>3, <1>4, <1>5, <1>6, <1>7, <1>8

(* Two linked stacks can be joined when the first ends as the second begins. *)
LEMMA ChainedConcat ==
    ASSUME NEW s \in Seq(FrameSet), NEW t \in Seq(FrameSet),
           Chained(t), Linked(s, SwitchFirst(t))
    PROVE  /\ Chained(s \o t)
           /\ SwitchFirst(s \o t) <=> IF s = <<>> THEN SwitchFirst(t)
                                     ELSE AtSwitch(s[1])
  <1>1. CASE s = <<>>
    <2>1. s \o t = t
      BY <1>1, ConcatEmptySeq
    <2> QED BY <1>1, <2>1
  <1>2. CASE s # <<>>
    <2> DEFINE n == Len(s)
               c == s \o t
    <2>1. /\ n \in Nat \ {0} /\ DOMAIN s = 1..n
          /\ Len(t) \in Nat /\ DOMAIN t = 1..Len(t)
          /\ c \in Seq(FrameSet) /\ DOMAIN c = 1..(n + Len(t))
          /\ \A i \in 1..n : c[i] = s[i]
          /\ \A i \in 1..Len(t) : c[n + i] = t[i]
      BY <1>2, ConcatElements, EmptySeq
    <2> HIDE DEF n, c
    <2>2. SwitchFirst(t) <=> n + 1 \in DOMAIN c /\ AtSwitch(c[n + 1])
      <3>1. t # <<>> <=> 1 \in DOMAIN t
        BY NonEmpty
      <3>2. 1 \in DOMAIN t <=> n + 1 \in DOMAIN c
        BY <2>1
      <3>3. 1 \in DOMAIN t => c[n + 1] = t[1]
        BY <2>1
      <3> QED BY <3>1, <3>2, <3>3 DEF SwitchFirst
    <2>3. ASSUME NEW i \in 1..n
          PROVE  InCase(c[i]) <=> i + 1 \in DOMAIN c /\ AtSwitch(c[i + 1])
      <3>1. CASE i = n
        <4>1. i \in DOMAIN s /\ i + 1 \notin DOMAIN s
          BY <2>1, <3>1
        <4>2. InCase(s[i]) <=> SwitchFirst(t)
          BY <4>1 DEF Linked
        <4> QED BY <2>1, <2>2, <3>1, <4>2
      <3>2. CASE i # n
        <4>1. i \in DOMAIN s /\ i + 1 \in DOMAIN s /\ i + 1 \in 1..n /\ i + 1 \in DOMAIN c
          BY <2>1, <3>2
        <4>2. InCase(s[i]) <=> AtSwitch(s[i + 1])
          BY <4>1 DEF Linked
        <4> QED BY <2>1, <4>1, <4>2
      <3> QED BY <3>1, <3>2
    <2>4. ASSUME NEW i \in 1..Len(t)
          PROVE  InCase(c[n + i]) <=> /\ (n + i) + 1 \in DOMAIN c
                                     /\ AtSwitch(c[(n + i) + 1])
      <3>1. InCase(t[i]) <=> i + 1 \in DOMAIN t /\ AtSwitch(t[i + 1])
        BY <2>1 DEF Chained, Linked
      <3>2. i + 1 \in DOMAIN t <=> (n + i) + 1 \in DOMAIN c
        BY <2>1
      <3>3. i + 1 \in DOMAIN t => c[(n + i) + 1] = t[i + 1]
        <4>1. (n + i) + 1 = n + (i + 1)
          BY <2>1
        <4> QED BY <2>1, <4>1
      <3> QED BY <2>1, <3>1, <3>2, <3>3
    <2>5. \A i \in DOMAIN c : InCase(c[i]) <=> i + 1 \in DOMAIN c /\ AtSwitch(c[i + 1])
      <3> TAKE i \in DOMAIN c
      <3>1. CASE i \in 1..n
        BY <2>3, <3>1
      <3>2. CASE i \notin 1..n
        <4>1. i - n \in 1..Len(t) /\ n + (i - n) = i
          BY <2>1, <3>2
        <4> QED BY <2>4, <4>1
      <3> QED BY <3>1, <3>2
    <2>6. Chained(c)
      BY <2>5 DEF Chained, Linked
    <2>7. SwitchFirst(c) <=> AtSwitch(s[1])
      <3>1. 1 \in DOMAIN c /\ c[1] = s[1]
        BY <2>1
      <3> QED BY <2>1, <3>1, NonEmpty DEF SwitchFirst
    <2> QED BY <1>2, <2>6, <2>7 DEF c
  <1> QED BY <1>1, <1>2

-----------------------------------------------------------------------------
(***************************************************************************)
(* The inductive invariant.                                                *)
(***************************************************************************)
Typed == /\ TypeOK
         /\ FramesOK(work, Len(blocks), Len(funcs))
         /\ \A l \in Name : labels[l] \in 0..Len(blocks)
         /\ pending \subseteq 1..Len(blocks)

(* The insertion block is closed exactly while the arms of a CASE are      *)
(* generated, behind the switch or behind an arm.                          *)
SwitchClosed ==
    status = "generating" =>
        /\ SwitchFirst(work) => Closed(blocks, insert)
        /\ Closed(blocks, insert) => SwitchFirst(work) \/ insert \in relabelled

(* A block is where code is emitted, or owed by one handler, or announced  *)
(* by a GOTO, and never two of these.                                      *)
Separate == /\ OwedToOneHandler
            /\ insert \notin pending
            /\ pending \cap Owed = {}
            /\ \A l \in Name : labels[l] \notin Owed

(* A block that has still to be made the insertion point is not closed.    *)
Unfilled == \A b \in Owed \cup pending : ~Closed(blocks, b) \/ b \in relabelled

Ended == status \in {"verified", "rejected"} =>
             work = <<>> /\ Closed(blocks, insert)

IInv == /\ Typed
        /\ Chained(work)
        /\ SwitchClosed
        /\ OpenBlocksAreOwed
        /\ Separate
        /\ NothingAfterTerminator
        /\ Unfilled
        /\ Ended

-----------------------------------------------------------------------------
(***************************************************************************)
(* What every handler does when it replaces the top of the stack by items. *)
(* The blocks it may touch are its own: the insertion block, those that    *)
(* the frame on top owes, and those it creates.                            *)
(***************************************************************************)
New  == (Len(blocks) + 1)..Len(blocks')
Mine == {insert} \cup OwedBy(Top) \cup New

HandlerFrames(items) ==
    /\ work' = items \o Tail(work)
    /\ items \in Seq(FrameSet)
    /\ FramesOK(items, Len(blocks'), Len(funcs'))
    /\ Apart(items)
    /\ Linked(items, InCase(Top))

HandlerTypes ==
    /\ status' = "generating"
    /\ prog' = prog
    /\ funcs' \in Seq(Optional(Node)) /\ Len(funcs) <= Len(funcs')
    /\ curFunc' \in 1..Len(funcs')
    /\ scopes' \in Seq([Name -> Nat])
    /\ labels' \in [Name -> Nat]
    /\ pending' \subseteq 1..Len(blocks')
    /\ relabelled \subseteq relabelled' /\ relabelled' \subseteq Nat
    /\ blocks' \in Seq(BlockSet) /\ Len(blocks) <= Len(blocks')
    /\ insert' \in 1..Len(blocks')

HandlerBlocks(items) ==
    /\ \A b \in 1..Len(blocks) : Closed(blocks, b) => Closed(blocks', b)
    /\ \A b \in (1..Len(blocks)) \ Mine :
          /\ Closed(blocks', b) => Closed(blocks, b)
          /\ Clean(blocks, b) => Clean(blocks', b)
    /\ \A b \in Mine :
          /\ \/ Closed(blocks', b)
             \/ b \in {insert'} \cup OwedIn(items) \cup pending'
          /\ Clean(blocks', b) \/ b \in relabelled'
    /\ \A b \in OwedIn(items) \cup (pending' \ pending) :
          ~Closed(blocks', b) \/ b \in relabelled'

HandlerOwed(items) ==
    /\ OwedIn(items) \subseteq Mine
    /\ insert' \notin OwedIn(items) \cup pending'
    /\ insert' \in Mine \/ \E l \in Name : insert' = labels[l]
    /\ pending' \subseteq pending \cup New
    /\ pending \subseteq pending' \cup {insert'}
    /\ pending' \cap OwedIn(items) = {}
    /\ \A l \in Name : /\ labels'[l] \notin OwedIn(items)
                       /\ labels'[l] \in {0, labels[l]} \cup New

HandlerSwitch(items) ==
    LET switch == IF items = <<>> THEN InCase(Top) ELSE AtSwitch(items[1])
    IN /\ switch => Closed(blocks', insert')
       /\ Closed(blocks', insert') => switch \/ insert' \in relabelled'

Handler(items) == /\ status = "generating" /\ work # <<>>
                  /\ HandlerFrames(items)
                  /\ HandlerTypes
                  /\ HandlerBlocks(items)
                  /\ HandlerOwed(items)
                  /\ HandlerSwitch(items)

(* The rest of the stack owes none of the handler's own blocks.            *)
LEMMA OthersOwe ==
    ASSUME IInv, work # <<>>
    PROVE  /\ Owed = OwedBy(Top) \cup OwedIn(Tail(work))
           /\ OwedIn(Tail(work)) \subseteq (1..Len(blocks)) \ Mine
           /\ Apart(Tail(work))
           /\ OwedBy(Top) \subseteq 1..Len(blocks)
           /\ 0 \notin Owed
  <1>1. work \in Seq(FrameSet) /\ Len(blocks) \in Nat
    BY LenProperties DEF IInv, Typed, TypeOK
  <1>2. Owed = OwedIn(work)
    BY DEF Owed, OwedIn
  <1>3. Apart(work) /\ insert \notin Owed
    BY DEF IInv, Separate, OwedToOneHandler, Apart
  <1>4. /\ OwedIn(work) = OwedBy(Top) \cup OwedIn(Tail(work))
        /\ Apart(Tail(work))
        /\ OwedBy(Top) \cap OwedIn(Tail(work)) = {}
    BY <1>1, <1>3, TailProperties DEF Top
  <1>5. OwedIn(work) \subseteq 1..Len(blocks)
    BY DEF IInv, Typed, FramesOK, FrameOK, OwedIn
  <1>6. OwedIn(work) \cap New = {} /\ 0 \notin OwedIn(work)
    BY <1>1, <1>5 DEF New
  <1> QED BY <1>2, <1>3, <1>4, <1>5, <1>6 DEF Mine

(* The stack after a handler: its items on the rest, well formed and apart. *)
LEMMA HandlerStack ==
    ASSUME IInv, NEW items, Handler(items)
    PROVE  /\ work' \in Seq(FrameSet)
           /\ FramesOK(work', Len(blocks'), Len(funcs'))
           /\ Owed' = OwedIn(items) \cup OwedIn(Tail(work))
           /\ Apart(work')
           /\ Chained(work')
           /\ SwitchFirst(work') <=> IF items = <<>> THEN InCase(Top)
                                    ELSE AtSwitch(items[1])
  <1> DEFINE rest == Tail(work)
  <1>1. work \in Seq(FrameSet) /\ work # <<>> /\ Chained(work)
    BY DEF IInv, Typed, TypeOK, Handler
  <1>2. items \in Seq(FrameSet) /\ work' = items \o rest
    BY DEF Handler, HandlerFrames
  <1>3. rest \in Seq(FrameSet) /\ Chained(rest) /\ (InCase(Top) <=> SwitchFirst(rest))
    BY <1>1, TailProperties DEF Top
  <1>4. work' \in Seq(FrameSet)
    BY <1>2, <1>3, ConcatElements
  <1>5. FramesOK(work', Len(blocks'), Len(funcs'))
    <2>1. /\ Len(blocks) \in Nat /\ Len(funcs) \in Nat
          /\ Len(blocks') \in Nat /\ Len(funcs') \in Nat
          /\ Len(blocks) <= Len(blocks') /\ Len(funcs) <= Len(funcs')
      BY LenProperties DEF IInv, Typed, TypeOK, Handler, HandlerTypes
    <2>2. ASSUME NEW i \in DOMAIN rest
          PROVE  FrameOK(rest[i], Len(blocks'), Len(funcs'))
      <3>1. rest[i] = work[i + 1] /\ i + 1 \in DOMAIN work
        BY <1>1, TailProperties
      <3>2. FrameOK(rest[i], Len(blocks), Len(funcs))
        BY <3>1 DEF IInv, Typed, FramesOK
      <3>3. rest[i] \in FrameSet
        BY <1>3
      <3> QED BY <2>1, <3>2, <3>3, FrameOKMonotonic
    <2>3. ASSUME NEW i \in DOMAIN items
          PROVE  FrameOK(items[i], Len(blocks'), Len(funcs'))
      BY DEF Handler, HandlerFrames, FramesOK
    <2>4. ASSUME NEW i \in DOMAIN work'
          PROVE  FrameOK(work'[i], Len(blocks'), Len(funcs'))
      <3>1. \/ i \in DOMAIN items /\ (items \o rest)[i] = items[i]
            \/ i - Len(items) \in DOMAIN rest /\ (items \o rest)[i] = rest[i - Len(items)]
        BY <1>2, <1>3, ConcatElements
      <3> QED BY <1>2, <2>2, <2>3, <3>1
    <2> QED BY <2>4 DEF FramesOK
  <1>6. Owed' = OwedIn(items) \cup OwedIn(rest)
    <2>1. Owed' = OwedIn(work')
      BY DEF Owed, OwedIn
    <2> QED BY <1>2, <1>3, <2>1, OwedConcat
  <1>7. Apart(work')
    <2>1. Apart(items) /\ OwedIn(items) \subseteq Mine
      BY DEF Handler, HandlerFrames, HandlerOwed
    <2>2. Apart(rest) /\ OwedIn(items) \cap OwedIn(rest) = {}
      BY <1>1, <2>1, OthersOwe
    <2> QED BY <1>2, <1>3, <2>1, <2>2, ApartConcat
  <1>8. Linked(items, SwitchFirst(rest))
    <2>1. Linked(items, InCase(Top))
      BY DEF Handler, HandlerFrames
    <2> QED BY <1>3, <2>1 DEF Linked
  <1>9. /\ Chained(work')
        /\ SwitchFirst(work') <=> IF items = <<>> THEN InCase(Top)
                                 ELSE AtSwitch(items[1])
    BY <1>2, <1>3, <1>8, ChainedConcat
  <1> QED BY <1>4, <1>5, <1>6, <1>7, <1>9

(* Such a step keeps the invariant.                                        *)
LEMMA HandlerStep ==
    ASSUME IInv, NEW items, Handler(items)
    PROVE  IInv'
  <1> DEFINE rest == Tail(work)
  <1>1. /\ work # <<>> /\ status = "generating"
        /\ HandlerFrames(items) /\ HandlerTypes /\ HandlerBlocks(items)
        /\ HandlerOwed(items) /\ HandlerSwitch(items)
    BY DEF Handler
  <1>2. /\ Owed = OwedBy(Top) \cup OwedIn(rest)
        /\ OwedIn(rest) \subseteq (1..Len(blocks)) \ Mine
        /\ 0 \notin Owed
    BY <1>1, OthersOwe
  <1>3. /\ work' \in Seq(FrameSet)
        /\ FramesOK(work', Len(blocks'), Len(funcs'))
        /\ Owed' = OwedIn(items) \cup OwedIn(rest)
        /\ Apart(work')
        /\ Chained(work')
        /\ SwitchFirst(work') <=> IF items = <<>> THEN InCase(Top)
                                 ELSE AtSwitch(items[1])
    BY HandlerStack
  <1> HIDE DEF rest
  <1>4. /\ Len(blocks) \in Nat /\ Len(blocks') \in Nat /\ Len(blocks) <= Len(blocks')
        /\ DOMAIN blocks = 1..Len(blocks) /\ DOMAIN blocks' = 1..Len(blocks')
        /\ DOMAIN funcs' = 1..Len(funcs')
    BY <1>1, LenProperties DEF IInv, Typed, TypeOK, HandlerTypes
  <1>5. 1..Len(blocks') \subseteq (1..Len(blocks)) \cup New
    BY <1>4 DEF New
  <1>6. Typed'
    <2>1. TypeOK'
      BY <1>1, <1>3, <1>4 DEF IInv, Typed, TypeOK, HandlerTypes
    <2>2. \A l \in Name : labels'[l] \in 0..Len(blocks')
      <3> TAKE l \in Name
      <3>1. labels[l] \in 0..Len(blocks)
        BY DEF IInv, Typed
      <3> QED BY <1>1, <1>4, <3>1 DEF HandlerOwed, New
    <2> QED BY <1>1, <1>3, <2>1, <2>2 DEF Typed, HandlerTypes
  <1>7. SwitchClosed'
    BY <1>1, <1>3 DEF SwitchClosed, HandlerSwitch
  <1>8. OpenBlocksAreOwed'
    <2> SUFFICES ASSUME NEW b \in 1..Len(blocks')
                 PROVE  \/ Closed(blocks', b) \/ b = insert'
                        \/ b \in Owed' \/ b \in pending'
      BY <1>4 DEF OpenBlocksAreOwed, HasTerminator, Closed, Ends
    <2>1. CASE b \in Mine
      BY <1>1, <1>3, <2>1 DEF HandlerBlocks
    <2>2. CASE b \notin Mine
      <3>1. b \in 1..Len(blocks)
        BY <1>5, <2>2 DEF Mine
      <3>2. Closed(blocks, b) \/ b = insert \/ b \in Owed \/ b \in pending
        BY <1>4, <3>1 DEF IInv, OpenBlocksAreOwed, HasTerminator, Closed, Ends
      <3>3. b # insert /\ b \notin OwedBy(Top)
        BY <2>2 DEF Mine
      <3> QED BY <1>1, <1>2, <1>3, <3>1, <3>2, <3>3 DEF HandlerBlocks, HandlerOwed
    <2> QED BY <2>1, <2>2
  <1>9. \A l \in Name : labels[l] \notin OwedIn(rest)
    BY <1>2 DEF IInv, Separate
  <1>10. Separate'
    <2>1. insert' \notin Owed'
      BY <1>1, <1>2, <1>3, <1>9 DEF HandlerOwed
    <2>2. OwedToOneHandler'
      BY <1>3, <2>1 DEF OwedToOneHandler, Apart
    <2>3. pending' \cap Owed' = {}
      <3>1. pending \cap OwedIn(rest) = {}
        BY <1>2 DEF IInv, Separate
      <3>2. New \cap OwedIn(rest) = {}
        BY <1>2 DEF Mine
      <3> QED BY <1>1, <1>3, <3>1, <3>2 DEF HandlerOwed
    <2>4. \A l \in Name : labels'[l] \notin Owed'
      <3> TAKE l \in Name
      <3>1. 0 \notin OwedIn(rest) /\ New \cap OwedIn(rest) = {}
        BY <1>2 DEF Mine
      <3> QED BY <1>1, <1>3, <1>9, <3>1 DEF HandlerOwed
    <2> QED BY <1>1, <2>2, <2>3, <2>4 DEF Separate, HandlerOwed
  <1>11. NothingAfterTerminator'
    <2> SUFFICES ASSUME NEW b \in 1..Len(blocks'), b \notin relabelled'
                 PROVE  Clean(blocks', b)
      BY <1>4 DEF NothingAfterTerminator, Clean, Tidy
    <2>1. CASE b \in Mine
      BY <1>1, <2>1 DEF HandlerBlocks
    <2>2. CASE b \notin Mine
      <3>1. b \in 1..Len(blocks) /\ b \notin relabelled
        BY <1>1, <1>5, <2>2 DEF Mine, HandlerTypes
      <3>2. Clean(blocks, b)
        BY <1>4, <3>1 DEF IInv, NothingAfterTerminator, Clean, Tidy
      <3> QED BY <1>1, <2>2, <3>1, <3>2 DEF HandlerBlocks
    <2> QED BY <2>1, <2>2
  <1>12. Unfilled'
    <2> SUFFICES ASSUME NEW b \in Owed' \cup pending'
                 PROVE  ~Closed(blocks', b) \/ b \in relabelled'
      BY DEF Unfilled
    <2>1. CASE b \in OwedIn(items) \cup (pending' \ pending)
      BY <1>1, <2>1 DEF HandlerBlocks
    <2>2. CASE b \in OwedIn(rest) \cup pending
      <3>1. b \in (1..Len(blocks)) \ Mine
        <4>1. CASE b \in OwedIn(rest)
          BY <1>2, <4>1
        <4>2. CASE b \in pending
          <5>1. b \in 1..Len(blocks) /\ b # insert /\ b \notin OwedBy(Top)
            BY <1>2, <4>2 DEF IInv, Separate, Typed
          <5>2. b \notin New
            BY <1>4, <5>1 DEF New
          <5> QED BY <5>1, <5>2 DEF Mine
        <4> QED BY <2>2, <4>1, <4>2
      <3>2. ~Closed(blocks, b) \/ b \in relabelled
        BY <1>2, <2>2 DEF IInv, Unfilled
      <3> QED BY <1>1, <3>1, <3>2 DEF HandlerBlocks, HandlerTypes
    <2> QED BY <1>3, <2>1, <2>2
  <1>13. Ended'
    BY <1>1 DEF Ended, HandlerTypes
  <1> QED BY <1>3, <1>6, <1>7, <1>8, <1>10, <1>11, <1>12, <1>13 DEF IInv

-----------------------------------------------------------------------------
(***************************************************************************)
(* The state in which a handler begins.                                    *)
(***************************************************************************)
LEMMA Begin ==
    ASSUME IInv, status = "generating", work # <<>>
    PROVE  /\ blocks \in Seq(BlockSet) /\ Len(blocks) \in Nat
           /\ insert \in 1..Len(blocks)
           /\ curFunc \in Nat /\ curFunc \in 1..Len(funcs) /\ Len(funcs) \in Nat
           /\ Top \in FrameSet /\ FrameOK(Top, Len(blocks), Len(funcs))
           /\ Top.s \in Node /\ WellFormedNode(Top.s, Node, Name, Expr)
           /\ OwedBy(Top) \subseteq 1..Len(blocks)
           /\ insert \notin OwedBy(Top)
           /\ \A b \in OwedBy(Top) : ~Closed(blocks, b) \/ b \in relabelled
           /\ \A b \in 1..Len(blocks) : Clean(blocks, b) \/ b \in relabelled
           /\ AtSwitch(Top) => Closed(blocks, insert)
           /\ ~AtSwitch(Top) => ~Closed(blocks, insert) \/ insert \in relabelled
  <1>1. /\ blocks \in Seq(BlockSet) /\ Len(blocks) \in Nat
        /\ DOMAIN blocks = 1..Len(blocks) /\ DOMAIN funcs = 1..Len(funcs)
        /\ insert \in 1..Len(blocks)
        /\ curFunc \in Nat /\ curFunc \in 1..Len(funcs) /\ Len(funcs) \in Nat
    BY LenProperties DEF IInv, Typed, TypeOK
  <1>2. /\ work \in Seq(FrameSet) /\ Top \in FrameSet /\ Top = work[1] /\ 1 \in DOMAIN work
    BY TailProperties DEF IInv, Typed, TypeOK, Top
  <1>3. FrameOK(Top, Len(blocks), Len(funcs))
    BY <1>2 DEF IInv, Typed, FramesOK
  <1>4. Top.s \in Node /\ WellFormedNode(Top.s, Node, Name, Expr)
    BY <1>2, NodeAssumption DEF FrameSet, WellFormed
  <1>5. /\ OwedBy(Top) \subseteq 1..Len(blocks)
        /\ OwedBy(Top) \subseteq Owed
    BY OthersOwe
  <1>6. insert \notin OwedBy(Top)
    BY <1>5 DEF IInv, Separate, OwedToOneHandler
  <1>7. \A b \in OwedBy(Top) : ~Closed(blocks, b) \/ b \in relabelled
    BY <1>5 DEF IInv, Unfilled
  <1>8. \A b \in 1..Len(blocks) : Clean(blocks, b) \/ b \in relabelled
    BY <1>1 DEF IInv, NothingAfterTerminator, Clean, Tidy
  <1>9. /\ AtSwitch(Top) => Closed(blocks, insert)
        /\ ~AtSwitch(Top) => ~Closed(blocks, insert) \/ insert \in relabelled
    BY <1>2 DEF IInv, SwitchClosed, SwitchFirst
  <1> QED BY <1>1, <1>2, <1>3, <1>4, <1>5, <1>6, <1>7, <1>8, <1>9

(* The lists of items that handlers push: some nodes to generate, followed *)
(* by a frame that owes blocks.                                            *)
GenNodes(g) == g \in Seq(FrameSet) /\ \A i \in DOMAIN g : g[i].k = "gen" /\ g[i].owed = <<>>

(* A single node is a list of nodes to generate.                           *)
LEMMA GenNodeFrame ==
    ASSUME NEW x \in Node
    PROVE  GenNodes(<<Gen(x)>>)
  <1>1. Gen(x) \in FrameSet /\ Gen(x).k = "gen" /\ Gen(x).owed = <<>>
    BY DEF Gen, Frame, FrameSet, FrameKinds
  <1> QED BY <1>1 DEF GenNodes

(* So is a list of statements.                                             *)
LEMMA GenAllFrames ==
    ASSUME NEW q \in Seq(Node)
    PROVE  GenNodes(GenAll(q))
  <1>1. \A i \in 1..Len(q) : /\ Gen(q[i]) \in FrameSet /\ Gen(q[i]).k = "gen"
                             /\ Gen(q[i]).owed = <<>>
    BY DEF Gen, Frame, FrameSet, FrameKinds
  <1>2. GenAll(q) \in Seq(FrameSet) /\ DOMAIN GenAll(q) = 1..Len(q)
    BY <1>1 DEF GenAll
  <1> QED BY <1>1, <1>2 DEF GenNodes, GenAll

(* And two lists, one after the other.                                     *)
LEMMA GenNodesConcat ==
    ASSUME NEW g, NEW h, GenNodes(g), GenNodes(h)
    PROVE  GenNodes(g \o h)
  <1>1. g \in Seq(FrameSet) /\ h \in Seq(FrameSet)
    BY DEF GenNodes
  <1> QED BY <1>1, ConcatElements DEF GenNodes

(* Nodes and a frame behind them, put on the stack of a handler.           *)
LEMMA NodesThenFrame ==
    ASSUME NEW g, GenNodes(g), NEW f \in FrameSet, NEW nb \in Nat, NEW nf \in Nat,
           FrameOK(f, nb, nf), f.k \notin {"arm", "endarm", "endcase"}
    PROVE  /\ g \o <<f>> \in Seq(FrameSet)
           /\ g \o <<f>> # <<>>
           /\ FramesOK(g \o <<f>>, nb, nf)
           /\ OwedIn(g \o <<f>>) = OwedBy(f)
           /\ Apart(g \o <<f>>)
           /\ Linked(g \o <<f>>, FALSE)
           /\ ~AtSwitch((g \o <<f>>)[1])
  <1> DEFINE c == g \o <<f>>
  <1>1. /\ g \in Seq(FrameSet) /\ <<f>> \in Seq(FrameSet)
        /\ DOMAIN <<f>> = {1} /\ Len(<<f>>) = 1 /\ <<f>>[1] = f
    BY DEF GenNodes
  <1>2. /\ c \in Seq(FrameSet) /\ Len(g) \in Nat
        /\ DOMAIN c = 1..(Len(g) + 1) /\ DOMAIN g = 1..Len(g)
        /\ \A i \in DOMAIN g : c[i] = g[i]
        /\ c[Len(g) + 1] = f
    BY <1>1, ConcatElements
  <1> HIDE DEF c
  <1>3. \A i \in DOMAIN c : \/ c[i] = f
                            \/ c[i].k = "gen" /\ c[i].owed = <<>>
    BY <1>2 DEF GenNodes
  <1>4. 1 \in DOMAIN c /\ c # <<>>
    BY <1>2, NonEmpty
  <1>5. FramesOK(c, nb, nf)
    BY <1>3 DEF FramesOK, FrameOK, OwedBy, NodeOf
  <1>6. \A i \in DOMAIN c : ~AtSwitch(c[i]) /\ ~InCase(c[i])
    BY <1>3 DEF AtSwitch, InCase
  <1>7. OwedIn(g) = {} /\ OwedIn(<<f>>) = OwedBy(f)
    BY <1>1 DEF GenNodes, OwedIn, OwedBy
  <1>8. OwedIn(c) = OwedBy(f)
    <2>1. c = g \o <<f>>
      BY DEF c
    <2>2. OwedIn(g \o <<f>>) = OwedIn(g) \cup OwedIn(<<f>>)
      BY <1>1, OwedConcat
    <2> QED BY <1>7, <2>1, <2>2
  <1>9. Apart(c)
    <2>1. Apart(g) /\ Apart(<<f>>)
      BY <1>1 DEF GenNodes, Apart, OwedBy
    <2> QED BY <1>1, <1>7, <2>1, ApartConcat DEF c
  <1>10. Linked(c, FALSE)
    BY <1>6 DEF Linked
  <1> QED BY <1>2, <1>4, <1>5, <1>6, <1>8, <1>9, <1>10 DEF c

(* No items at all, and a single node.                                     *)
LEMMA NoItems ==
    ASSUME NEW nb, NEW nf, NEW last
    PROVE  /\ <<>> \in Seq(FrameSet) /\ FramesOK(<<>>, nb, nf)
           /\ OwedIn(<<>>) = {} /\ Apart(<<>>) /\ Linked(<<>>, last)
  BY DEF FramesOK, OwedIn, Apart, Linked

(* A node alone owes nothing and is no part of a CASE.                     *)
LEMMA OneNode ==
    ASSUME NEW x \in Node, NEW nb \in Nat, NEW nf \in Nat
    PROVE  /\ <<Gen(x)>> \in Seq(FrameSet) /\ <<Gen(x)>> # <<>>
           /\ FramesOK(<<Gen(x)>>, nb, nf)
           /\ OwedIn(<<Gen(x)>>) = {} /\ Apart(<<Gen(x)>>)
           /\ Linked(<<Gen(x)>>, FALSE) /\ ~AtSwitch(<<Gen(x)>>[1])
  <1>1. /\ Gen(x) \in FrameSet /\ Gen(x).k = "gen" /\ Gen(x).owed = <<>>
        /\ DOMAIN <<Gen(x)>> = {1} /\ <<Gen(x)>>[1] = Gen(x)
    BY DEF Gen, Frame, FrameSet, FrameKinds
  <1> HIDE DEF Gen
  <1>2. <<Gen(x)>> \in Seq(FrameSet) /\ <<Gen(x)>> # <<>>
    BY <1>1
  <1>3. FramesOK(<<Gen(x)>>, nb, nf)
    BY <1>1 DEF FramesOK, FrameOK, OwedBy, NodeOf
  <1>4. OwedIn(<<Gen(x)>>) = {} /\ Apart(<<Gen(x)>>)
    <2>1. OwedBy(Gen(x)) = {}
      BY <1>1 DEF OwedBy
    <2> QED BY <1>1, <2>1 DEF OwedIn, Apart
  <1>5. Linked(<<Gen(x)>>, FALSE) /\ ~AtSwitch(<<Gen(x)>>[1])
    BY <1>1 DEF Linked, InCase, AtSwitch
  <1> QED BY <1>2, <1>3, <1>4, <1>5

-----------------------------------------------------------------------------
(***************************************************************************)
(* Handlers that close the insertion block and open others.                *)
(***************************************************************************)
(* bs is blocks with the insertion block closed and some blocks more.      *)
Built(bs) ==
    /\ bs \in Seq(BlockSet) /\ Len(bs) \in Nat /\ Len(blocks) <= Len(bs)
    /\ \A b \in 1..Len(blocks) : b # insert => bs[b] = blocks[b]
    /\ Closed(bs, insert)
    /\ Clean(bs, insert) \/ insert \in relabelled
    /\ \A b \in (Len(blocks) + 1)..Len(bs) : Clean(bs, b)

(* n new blocks are empty and leave the others as they are.                *)
LEMMA CreateStarts ==
    ASSUME IInv, status = "generating", work # <<>>, NEW n \in Nat
    PROVE  /\ Create(blocks, n, curFunc) \in Seq(BlockSet)
           /\ Len(Create(blocks, n, curFunc)) = Len(blocks) + n
           /\ insert \in 1..Len(Create(blocks, n, curFunc))
           /\ \A b \in 1..Len(blocks) : Create(blocks, n, curFunc)[b] = blocks[b]
           /\ \A b \in (Len(blocks) + 1)..(Len(blocks) + n) :
                 /\ ~Closed(Create(blocks, n, curFunc), b)
                 /\ Clean(Create(blocks, n, curFunc), b)
           /\ Closed(Create(blocks, n, curFunc), insert) <=> Closed(blocks, insert)
           /\ Clean(Create(blocks, n, curFunc), insert) <=> Clean(blocks, insert)
  <1>1. /\ Create(blocks, n, curFunc) \in Seq(BlockSet)
        /\ Len(Create(blocks, n, curFunc)) = Len(blocks) + n
        /\ \A b \in 1..Len(blocks) : Create(blocks, n, curFunc)[b] = blocks[b]
        /\ \A b \in (Len(blocks) + 1)..(Len(blocks) + n) :
              /\ ~Closed(Create(blocks, n, curFunc), b)
              /\ Clean(Create(blocks, n, curFunc), b)
    BY Begin, CreateProperties
  <1>2. insert \in 1..Len(Create(blocks, n, curFunc))
    BY <1>1, Begin
  <1> QED BY <1>1, <1>2, Begin DEF Closed, Clean

(* A terminator emitted into an open insertion block, after n new blocks.  *)
LEMMA EmitBuilds ==
    ASSUME IInv, status = "generating", work # <<>>, ~AtSwitch(Top), NEW n \in Nat,
           NEW instrs \in Seq(InstructionSet), Tidy(instrs), Ends(instrs),
           NEW bs, bs = Emit(Create(blocks, n, curFunc), insert, instrs)
    PROVE  /\ Built(bs) /\ Len(bs) = Len(blocks) + n
           /\ \A b \in (Len(blocks) + 1)..(Len(blocks) + n) : ~Closed(bs, b)
  <1> DEFINE new == Create(blocks, n, curFunc)
  <1>1. /\ new \in Seq(BlockSet) /\ Len(new) = Len(blocks) + n
        /\ insert \in 1..Len(new) /\ insert \in 1..Len(blocks) /\ Len(blocks) \in Nat
        /\ \A b \in 1..Len(blocks) : new[b] = blocks[b]
        /\ \A b \in (Len(blocks) + 1)..(Len(blocks) + n) :
              ~Closed(new, b) /\ Clean(new, b)
        /\ ~Closed(new, insert) \/ insert \in relabelled
    BY CreateStarts, Begin
  <1> HIDE DEF new
  <1>2. /\ bs \in Seq(BlockSet) /\ Len(bs) = Len(new)
        /\ \A c \in 1..Len(new) : c # insert => bs[c] = new[c]
        /\ Closed(bs, insert)
        /\ ~Closed(new, insert) => Clean(bs, insert)
    BY <1>1, EmitProperties DEF new
  <1>3. \A b \in (Len(blocks) + 1)..(Len(blocks) + n) : bs[b] = new[b]
    BY <1>1, <1>2
  <1>4. \A b \in 1..Len(blocks) : b # insert => bs[b] = blocks[b]
    BY <1>1, <1>2
  <1>5. \A b \in (Len(blocks) + 1)..(Len(blocks) + n) :
           ~Closed(bs, b) /\ Clean(bs, b)
    BY <1>1, <1>3 DEF Closed, Clean
  <1>6. Len(bs) = Len(blocks) + n /\ Len(bs) \in Nat /\ Len(blocks) <= Len(bs)
    BY <1>1, <1>2
  <1> QED BY <1>1, <1>2, <1>4, <1>5, <1>6 DEF Built

(* The same with a branch that is left out when the block is closed.       *)
LEMMA FallToBuilds ==
    ASSUME IInv, status = "generating", work # <<>>, NEW n \in Nat, NEW to \in Nat,
           NEW bs, bs = FallTo(Create(blocks, n, curFunc), insert, to)
    PROVE  /\ Built(bs) /\ Len(bs) = Len(blocks) + n
           /\ \A b \in (Len(blocks) + 1)..(Len(blocks) + n) : ~Closed(bs, b)
  <1> DEFINE new == Create(blocks, n, curFunc)
  <1>1. /\ new \in Seq(BlockSet) /\ Len(new) = Len(blocks) + n
        /\ insert \in 1..Len(new) /\ insert \in 1..Len(blocks) /\ Len(blocks) \in Nat
        /\ \A b \in 1..Len(blocks) : new[b] = blocks[b]
        /\ \A b \in (Len(blocks) + 1)..(Len(blocks) + n) :
              ~Closed(new, b) /\ Clean(new, b)
        /\ Clean(new, insert) \/ insert \in relabelled
    BY CreateStarts, Begin
  <1> HIDE DEF new
  <1>2. /\ bs \in Seq(BlockSet) /\ Len(bs) = Len(new)
        /\ \A c \in 1..Len(new) : c # insert => bs[c] = new[c]
        /\ Closed(bs, insert)
        /\ Clean(new, insert) => Clean(bs, insert)
    <2>1. bs = FallTo(new, insert, to)
      BY DEF new
    <2>2. /\ FallTo(new, insert, to) \in Seq(BlockSet)
          /\ Len(FallTo(new, insert, to)) = Len(new)
          /\ \A c \in 1..Len(new) : c # insert => FallTo(new, insert, to)[c] = new[c]
          /\ Closed(FallTo(new, insert, to), insert)
          /\ Clean(new, insert) => Clean(FallTo(new, insert, to), insert)
      BY <1>1, FallToProperties, SMTT(30)
    <2> QED BY <2>1, <2>2, Zenon
  <1>3. \A b \in (Len(blocks) + 1)..(Len(blocks) + n) : bs[b] = new[b]
    BY <1>1, <1>2
  <1>4. \A b \in 1..Len(blocks) : b # insert => bs[b] = blocks[b]
    BY <1>1, <1>2
  <1>5. \A b \in (Len(blocks) + 1)..(Len(blocks) + n) :
           ~Closed(bs, b) /\ Clean(bs, b)
    BY <1>1, <1>3 DEF Closed, Clean
  <1>6. Len(bs) = Len(blocks) + n /\ Len(bs) \in Nat /\ Len(blocks) <= Len(bs)
    BY <1>1, <1>2
  <1> QED BY <1>1, <1>2, <1>4, <1>5, <1>6 DEF Built

(* The same without a new block.                                           *)
LEMMA FallToHere ==
    ASSUME IInv, status = "generating", work # <<>>, NEW to \in Nat,
           NEW bs, bs = FallTo(blocks, insert, to)
    PROVE  Built(bs) /\ Len(bs) = Len(blocks)
  <1>1. /\ blocks \in Seq(BlockSet) /\ insert \in 1..Len(blocks) /\ Len(blocks) \in Nat
        /\ Clean(blocks, insert) \/ insert \in relabelled
    BY Begin
  <1>2. /\ bs \in Seq(BlockSet) /\ Len(bs) = Len(blocks)
        /\ \A c \in 1..Len(blocks) : c # insert => bs[c] = blocks[c]
        /\ Closed(bs, insert)
        /\ Clean(blocks, insert) => Clean(bs, insert)
    BY <1>1, FallToProperties
  <1>3. (Len(blocks) + 1)..Len(bs) = {}
    BY <1>1, <1>2
  <1> QED BY <1>1, <1>2, <1>3 DEF Built

(* A new block is filled and closed at once.                               *)
LEMMA EmitNew ==
    ASSUME IInv, status = "generating", work # <<>>,
           NEW bs, Built(bs), NEW c, c \in (Len(blocks) + 1)..Len(bs),
           ~Closed(bs, c),
           NEW instrs \in Seq(InstructionSet), Tidy(instrs), Ends(instrs),
           NEW to, to = Emit(bs, c, instrs)
    PROVE  /\ Built(to) /\ Len(to) = Len(bs)
           /\ Closed(to, c)
           /\ \A b \in 1..Len(bs) : b # c => (Closed(to, b) <=> Closed(bs, b))
  <1>1. /\ Len(blocks) \in Nat /\ insert \in 1..Len(blocks) /\ Len(bs) \in Nat
        /\ bs \in Seq(BlockSet) /\ c \in 1..Len(bs) /\ Len(blocks) <= Len(bs)
    BY Begin DEF Built
  <1>2. /\ to \in Seq(BlockSet) /\ Len(to) = Len(bs)
        /\ \A b \in 1..Len(bs) : b # c => to[b] = bs[b]
        /\ Closed(to, c) /\ Clean(to, c)
    BY <1>1, EmitProperties
  <1>3. insert # c /\ insert \in 1..Len(bs) /\ to[insert] = bs[insert]
    BY <1>1, <1>2
  <1>4. \A b \in 1..Len(blocks) : b # insert => to[b] = blocks[b]
    BY <1>1, <1>2 DEF Built
  <1>5. \A b \in (Len(blocks) + 1)..Len(bs) : Clean(to, b)
    BY <1>1, <1>2 DEF Built, Clean
  <1>6. Built(to)
    BY <1>1, <1>2, <1>3, <1>4, <1>5 DEF Built, Closed, Clean
  <1> QED BY <1>2, <1>6 DEF Closed

(* What a handler of this kind does with its own blocks.                   *)
LEMMA BuilderStep ==
    ASSUME IInv, status = "generating", work # <<>>, OnlyBlocks, Built(blocks'),
           NEW items, HandlerFrames(items),
           OwedIn(items) \subseteq OwedBy(Top) \cup New,
           insert' \in OwedBy(Top) \cup New,
           insert' \notin OwedIn(items),
           \A b \in OwedBy(Top) : b \in {insert'} \cup OwedIn(items),
           \A b \in New : IF b \in {insert'} \cup OwedIn(items)
                          THEN ~Closed(blocks', b) ELSE Closed(blocks', b),
           IF items = <<>> THEN ~InCase(Top) ELSE ~AtSwitch(items[1])
    PROVE  IInv'
  <1>1. /\ blocks \in Seq(BlockSet) /\ Len(blocks) \in Nat
        /\ insert \in 1..Len(blocks)
        /\ curFunc \in 1..Len(funcs)
        /\ OwedBy(Top) \subseteq 1..Len(blocks)
        /\ insert \notin OwedBy(Top)
        /\ \A b \in OwedBy(Top) : ~Closed(blocks, b) \/ b \in relabelled
        /\ \A b \in 1..Len(blocks) : Clean(blocks, b) \/ b \in relabelled
    BY Begin
  <1>2. /\ status' = status /\ prog' = prog /\ funcs' = funcs /\ curFunc' = curFunc
        /\ scopes' = scopes /\ labels' = labels
        /\ pending' = pending /\ relabelled' = relabelled
    BY DEF OnlyBlocks, LabelsUnchanged, FunctionUnchanged
  <1>3. /\ blocks' \in Seq(BlockSet) /\ Len(blocks') \in Nat /\ Len(blocks) <= Len(blocks')
        /\ \A b \in 1..Len(blocks) : b # insert => blocks'[b] = blocks[b]
        /\ Closed(blocks', insert)
        /\ Clean(blocks', insert) \/ insert \in relabelled
        /\ \A b \in New : Clean(blocks', b)
    BY DEF Built, New
  <1>4. \A b \in 1..Len(blocks) : b # insert =>
            /\ Closed(blocks', b) <=> Closed(blocks, b)
            /\ Clean(blocks', b) <=> Clean(blocks, b)
    BY <1>3 DEF Closed, Clean
  <1>5. New \cap (1..Len(blocks)) = {} /\ New \subseteq 1..Len(blocks')
        /\ 1..Len(blocks) \subseteq 1..Len(blocks')
    BY <1>1, <1>3 DEF New
  <1>6. /\ Owed = OwedBy(Top) \cup OwedIn(Tail(work))
        /\ \A l \in Name : labels[l] \notin Owed /\ labels[l] \in 0..Len(blocks)
        /\ pending \cap Owed = {} /\ pending \subseteq 1..Len(blocks)
    BY OthersOwe DEF IInv, Separate, Typed
  <1>7. HandlerTypes
    <2>1. /\ funcs \in Seq(Optional(Node)) /\ scopes \in Seq([Name -> Nat])
          /\ labels \in [Name -> Nat] /\ relabelled \subseteq Nat
          /\ Len(funcs) \in Nat
      BY LenProperties DEF IInv, Typed, TypeOK
    <2>2. insert' \in 1..Len(blocks') /\ pending' \subseteq 1..Len(blocks')
      BY <1>1, <1>2, <1>5, <1>6
    <2> QED BY <1>1, <1>2, <1>3, <2>1, <2>2 DEF HandlerTypes
  <1>8. HandlerBlocks(items)
    <2>1. \A b \in 1..Len(blocks) : Closed(blocks, b) => Closed(blocks', b)
      BY <1>3, <1>4
    <2>2. \A b \in (1..Len(blocks)) \ Mine :
             /\ Closed(blocks', b) => Closed(blocks, b)
             /\ Clean(blocks, b) => Clean(blocks', b)
      BY <1>4 DEF Mine
    <2>3. \A b \in Mine : /\ \/ Closed(blocks', b)
                             \/ b \in {insert'} \cup OwedIn(items) \cup pending'
                          /\ Clean(blocks', b) \/ b \in relabelled'
      BY <1>1, <1>2, <1>3, <1>4 DEF Mine
    <2>4. \A b \in OwedIn(items) \cup (pending' \ pending) :
             ~Closed(blocks', b) \/ b \in relabelled'
      BY <1>1, <1>2, <1>4
    <2> QED BY <2>1, <2>2, <2>3, <2>4 DEF HandlerBlocks
  <1>9. HandlerOwed(items)
    <2>1. \A l \in Name : labels[l] \notin OwedIn(items)
      BY <1>1, <1>5, <1>6 DEF New
    <2>2. pending \cap OwedIn(items) = {} /\ insert' \notin pending
      BY <1>5, <1>6
    <2> QED BY <1>2, <2>1, <2>2 DEF HandlerOwed, Mine
  <1>10. HandlerSwitch(items)
    <2>1. ~Closed(blocks', insert') \/ insert' \in relabelled
      BY <1>1, <1>4
    <2> QED BY <1>2, <2>1 DEF HandlerSwitch
  <1> QED BY <1>7, <1>8, <1>9, <1>10, HandlerStep DEF Handler

(***************************************************************************)
(* The stack after a handler: frames pushed, or nothing.                   *)
(***************************************************************************)
LEMMA FramesPushed ==
    ASSUME IInv, status = "generating", work # <<>>, ~InCase(Top),
           Len(blocks') \in Nat, Len(funcs') \in Nat,
           NEW g, GenNodes(g), NEW f \in FrameSet,
           FrameOK(f, Len(blocks'), Len(funcs')),
           f.k \notin {"arm", "endarm", "endcase"},
           Continue(g \o <<f>>)
    PROVE  /\ HandlerFrames(g \o <<f>>)
           /\ OwedIn(g \o <<f>>) = OwedBy(f)
           /\ g \o <<f>> # <<>> /\ ~AtSwitch((g \o <<f>>)[1])
  <1>1. /\ g \o <<f>> \in Seq(FrameSet)
        /\ g \o <<f>> # <<>>
        /\ FramesOK(g \o <<f>>, Len(blocks'), Len(funcs'))
        /\ OwedIn(g \o <<f>>) = OwedBy(f)
        /\ Apart(g \o <<f>>)
        /\ Linked(g \o <<f>>, FALSE)
        /\ ~AtSwitch((g \o <<f>>)[1])
    BY NodesThenFrame
  <1>2. Linked(g \o <<f>>, InCase(Top))
    BY <1>1 DEF Linked
  <1> QED BY <1>1, <1>2 DEF HandlerFrames, Continue

(* A handler that returns pushes no item.                                  *)
LEMMA NothingPushed ==
    ASSUME Continue(<<>>)
    PROVE  HandlerFrames(<<>>) /\ OwedIn(<<>>) = {}
  BY NoItems DEF HandlerFrames, Continue

(* A handler that only generates a sub-statement pushes its node.          *)
LEMMA NodePushed ==
    ASSUME IInv, status = "generating", work # <<>>, ~InCase(Top),
           Len(blocks') \in Nat, Len(funcs') \in Nat,
           NEW x \in Node, Continue(<<Gen(x)>>)
    PROVE  /\ HandlerFrames(<<Gen(x)>>)
           /\ OwedIn(<<Gen(x)>>) = {}
           /\ <<Gen(x)>> # <<>> /\ ~AtSwitch(<<Gen(x)>>[1])
  <1>1. /\ <<Gen(x)>> \in Seq(FrameSet) /\ <<Gen(x)>> # <<>>
        /\ FramesOK(<<Gen(x)>>, Len(blocks'), Len(funcs'))
        /\ OwedIn(<<Gen(x)>>) = {} /\ Apart(<<Gen(x)>>)
        /\ Linked(<<Gen(x)>>, FALSE) /\ ~AtSwitch(<<Gen(x)>>[1])
    BY OneNode
  <1>2. Linked(<<Gen(x)>>, InCase(Top))
    BY <1>1 DEF Linked
  <1> QED BY <1>1, <1>2 DEF HandlerFrames, Continue

(* A pair is a concatenation (the form in which actions push two items).   *)
LEMMA PairIsConcat ==
    ASSUME NEW a, NEW b
    PROVE  <<a, b>> = <<a>> \o <<b>>
  <1> DEFINE S == {a, b}
  <1>1. <<a>> \in Seq(S) /\ <<b>> \in Seq(S) /\ <<a, b>> \in Seq(S)
    OBVIOUS
  <1>2. Len(<<a>>) = 1 /\ Len(<<b>>) = 1 /\ Len(<<a, b>>) = 2
    OBVIOUS
  <1>3. /\ <<a>> \o <<b>> \in Seq(S) /\ Len(<<a>> \o <<b>>) = 2
        /\ (<<a>> \o <<b>>)[1] = a /\ (<<a>> \o <<b>>)[2] = b
    BY <1>1, <1>2, ConcatProperties
  <1> HIDE DEF S
  <1>4. \A i \in 1..2 : <<a, b>>[i] = (<<a>> \o <<b>>)[i]
    <2>1. 1..2 = {1, 2}
      OBVIOUS
    <2> QED BY <1>3, <2>1
  <1> QED BY <1>1, <1>2, <1>3, <1>4, SeqEqual

(* The instructions that close a block.                                    *)
LEMMA Branches ==
    ASSUME NEW e \in Expr, NEW yes \in Nat, NEW no \in Nat
    PROVE  /\ Br(yes) \in InstructionSet /\ IsTerminator(Br(yes))
           /\ CondBr(e, yes, no) \in InstructionSet /\ IsTerminator(CondBr(e, yes, no))
           /\ Switch(e, yes) \in InstructionSet /\ IsTerminator(Switch(e, yes))
           /\ Eval(e) \in InstructionSet /\ ~IsTerminator(Eval(e))
           /\ Step(e) \in InstructionSet /\ ~IsTerminator(Step(e))
           /\ CallTo(yes) \in InstructionSet /\ ~IsTerminator(CallTo(yes))
  <1>1. <<e>> \in Optional(Expr) /\ <<>> \in Optional(Expr)
    BY DEF Optional
  <1>2. <<yes>> \in Seq(Nat) /\ <<yes, no>> \in Seq(Nat) /\ <<>> \in Seq(Nat)
    OBVIOUS
  <1> QED BY <1>1, <1>2 DEF Br, CondBr, Switch, Eval, Step, CallTo, Instruction,
            InstructionSet, Ops, Terminators, IsTerminator

(* Both forms of return are terminators.                                   *)
LEMMA Returns ==
    ASSUME NEW value \in Optional(Expr)
    PROVE  /\ RetVoid \in InstructionSet /\ IsTerminator(RetVoid)
           /\ Ret(value) \in InstructionSet /\ IsTerminator(Ret(value))
  <1>1. <<>> \in Optional(Expr) /\ <<>> \in Seq(Nat)
    BY DEF Optional
  <1> QED BY <1>1 DEF RetVoid, Ret, Instruction, InstructionSet, Ops, Terminators,
            IsTerminator

(* A branch is a tidy end of a block.                                      *)
LEMMA JumpCloses ==
    ASSUME NEW to \in Nat
    PROVE  /\ <<Br(to)>> \in Seq(InstructionSet)
           /\ Tidy(<<Br(to)>>) /\ Ends(<<Br(to)>>)
  <1>1. Br(to) \in InstructionSet /\ IsTerminator(Br(to))
    BY DEF Br, Instruction, InstructionSet, Ops, Terminators, IsTerminator, Optional
  <1> QED BY <1>1, OneInstruction

(* So are a conditional branch and a switch.                               *)
LEMMA BranchCloses ==
    ASSUME NEW e \in Expr, NEW yes \in Nat, NEW no \in Nat
    PROVE  /\ <<Br(yes)>> \in Seq(InstructionSet)
           /\ Tidy(<<Br(yes)>>) /\ Ends(<<Br(yes)>>)
           /\ <<CondBr(e, yes, no)>> \in Seq(InstructionSet)
           /\ Tidy(<<CondBr(e, yes, no)>>) /\ Ends(<<CondBr(e, yes, no)>>)
           /\ <<Switch(e, yes)>> \in Seq(InstructionSet)
           /\ Tidy(<<Switch(e, yes)>>) /\ Ends(<<Switch(e, yes)>>)
  BY Branches, OneInstruction

(***************************************************************************)
(* The frames that handlers push, each with what it owes.                  *)
(***************************************************************************)
(* A frame that has filled nothing yet and owes one block, or two.         *)
LEMMA FrameOwesOne ==
    ASSUME NEW k \in {"endthen", "endelse"}, NEW s \in Node, NEW nb \in Nat,
           NEW nf \in Nat, NEW a \in 1..nb, s.kind = "If",
           k = "endthen" => s.alt = <<>>
    PROVE  /\ Frame(k, s, <<>>, <<a>>) \in FrameSet
           /\ Frame(k, s, <<>>, <<a>>).k = k
           /\ OwedBy(Frame(k, s, <<>>, <<a>>)) = {a}
           /\ FrameOK(Frame(k, s, <<>>, <<a>>), nb, nf)
  <1> DEFINE f == Frame(k, s, <<>>, <<a>>)
  <1>1. f \in FrameSet
    BY DEF Frame, FrameSet, FrameKinds
  <1>2. f.k = k /\ f.s = s /\ f.owed = <<a>>
    BY DEF Frame
  <1> HIDE DEF f
  <1>3. OwedBy(f) = {a}
    BY <1>2 DEF OwedBy
  <1>4. FrameOK(f, nb, nf)
    BY <1>2, <1>3 DEF FrameOK, NodeOf
  <1> QED BY <1>1, <1>2, <1>3, <1>4 DEF f

(* The frame of an IF with an ELSE, or of the end of a CASE.               *)
LEMMA FrameOwesTwo ==
    ASSUME NEW k \in {"endthen", "endcase"}, NEW s \in Node, NEW nb \in Nat,
           NEW nf \in Nat, NEW a \in 1..nb, NEW b \in 1..nb, a # b,
           k = "endthen" => s.kind = "If" /\ s.alt # <<>>
    PROVE  /\ Frame(k, s, <<>>, <<a, b>>) \in FrameSet
           /\ Frame(k, s, <<>>, <<a, b>>).k = k
           /\ OwedBy(Frame(k, s, <<>>, <<a, b>>)) = {a, b}
           /\ FrameOK(Frame(k, s, <<>>, <<a, b>>), nb, nf)
  <1> DEFINE f == Frame(k, s, <<>>, <<a, b>>)
  <1>1. f \in FrameSet
    BY DEF Frame, FrameSet, FrameKinds
  <1>2. f.k = k /\ f.s = s /\ f.owed = <<a, b>>
    BY DEF Frame
  <1> HIDE DEF f
  <1>3. OwedBy(f) = {a, b}
    BY <1>2 DEF OwedBy
  <1>4. FrameOK(f, nb, nf)
    BY <1>2, <1>3 DEF FrameOK, NodeOf
  <1> QED BY <1>1, <1>2, <1>3, <1>4 DEF f

(* The frame of a loop knows where to jump back to and owes the exit.      *)
LEMMA LoopFrame ==
    ASSUME NEW k \in {"endwhile", "endfor", "endrepeat", "endproc"}, NEW s \in Node,
           NEW nb \in Nat, NEW nf \in Nat, NEW c \in Nat, NEW a \in 1..nb,
           s.kind = NodeOf[k], k = "endproc" => c \in 1..nf
    PROVE  /\ Frame(k, s, <<c>>, <<a>>) \in FrameSet
           /\ Frame(k, s, <<c>>, <<a>>).k = k
           /\ OwedBy(Frame(k, s, <<c>>, <<a>>)) = {a}
           /\ FrameOK(Frame(k, s, <<c>>, <<a>>), nb, nf)
  <1> DEFINE f == Frame(k, s, <<c>>, <<a>>)
  <1>1. f \in FrameSet
    BY DEF Frame, FrameSet, FrameKinds
  <1>2. f.k = k /\ f.s = s /\ f.owed = <<a>> /\ f.to = <<c>>
    BY DEF Frame
  <1> HIDE DEF f
  <1>3. OwedBy(f) = {a}
    BY <1>2 DEF OwedBy
  <1>4. FrameOK(f, nb, nf)
    BY <1>2, <1>3 DEF FrameOK, NodeOf
  <1> QED BY <1>1, <1>2, <1>3, <1>4 DEF f

(* DO and an arm of CASE owe nothing.                                      *)
LEMMA FrameOwesNone ==
    ASSUME NEW k \in {"enddo", "endarm"}, NEW s \in Node, NEW nb \in Nat,
           NEW nf \in Nat, NEW c \in Nat, k = "enddo" => s.kind = "Do"
    PROVE  /\ Frame(k, s, <<c>>, <<>>) \in FrameSet
           /\ Frame(k, s, <<c>>, <<>>).k = k
           /\ OwedBy(Frame(k, s, <<c>>, <<>>)) = {}
           /\ FrameOK(Frame(k, s, <<c>>, <<>>), nb, nf)
  <1> DEFINE f == Frame(k, s, <<c>>, <<>>)
  <1>1. f \in FrameSet
    BY DEF Frame, FrameSet, FrameKinds
  <1>2. f.k = k /\ f.s = s /\ f.owed = <<>> /\ f.to = <<c>>
    BY DEF Frame
  <1> HIDE DEF f
  <1>3. OwedBy(f) = {}
    BY <1>2 DEF OwedBy
  <1>4. FrameOK(f, nb, nf)
    BY <1>2, <1>3 DEF FrameOK, NodeOf
  <1> QED BY <1>1, <1>2, <1>3, <1>4 DEF f

(***************************************************************************)
(* BuilderStep for the two forms of handler: one that returns to its       *)
(* caller, and one that goes on to generate sub-statements g and will come *)
(* back to frame f.                                                        *)
(***************************************************************************)
LEMMA BuilderReturns ==
    ASSUME IInv, status = "generating", work # <<>>, OnlyBlocks, Built(blocks'),
           ~InCase(Top), Continue(<<>>),
           insert' \in OwedBy(Top) \cup New,
           OwedBy(Top) \subseteq {insert'},
           \A b \in New : IF b = insert' THEN ~Closed(blocks', b)
                          ELSE Closed(blocks', b)
    PROVE  IInv'
  <1>1. HandlerFrames(<<>>) /\ OwedIn(<<>>) = {}
    BY NothingPushed
  <1> DEFINE items == <<>>
  <1>2. HandlerFrames(items) /\ OwedIn(items) = {} /\ items = <<>>
    BY <1>1
  <1> HIDE DEF items
  <1> QED BY <1>2, BuilderStep

(* The handler generates g and will come back to f.                        *)
LEMMA BuilderGoesOn ==
    ASSUME IInv, status = "generating", work # <<>>, OnlyBlocks, Built(blocks'),
           ~InCase(Top), NEW g, GenNodes(g), NEW f \in FrameSet,
           FrameOK(f, Len(blocks'), Len(funcs)),
           f.k \notin {"arm", "endarm", "endcase"}, Continue(g \o <<f>>),
           insert' \in OwedBy(Top) \cup New, insert' \notin OwedBy(f),
           OwedBy(f) \subseteq OwedBy(Top) \cup New,
           OwedBy(Top) \subseteq {insert'} \cup OwedBy(f),
           \A b \in New : IF b \in {insert'} \cup OwedBy(f) THEN ~Closed(blocks', b)
                          ELSE Closed(blocks', b)
    PROVE  IInv'
  <1>1. funcs' = funcs /\ Len(funcs) \in Nat /\ Len(blocks') \in Nat
    BY Begin DEF OnlyBlocks, FunctionUnchanged, Built
  <1>2. /\ HandlerFrames(g \o <<f>>) /\ OwedIn(g \o <<f>>) = OwedBy(f)
        /\ g \o <<f>> # <<>> /\ ~AtSwitch((g \o <<f>>)[1])
    BY <1>1, FramesPushed
  <1> QED BY <1>2, BuilderStep

(***************************************************************************)
(* The two states in which handlers of this kind begin: at a node, where   *)
(* nothing is owed, and at the end of a construct that owes its exit.      *)
(***************************************************************************)
AtOpen  == Top.k = "gen" /\ Top.owed = <<>> /\ OwedBy(Top) = {}
             /\ ~AtSwitch(Top) /\ ~InCase(Top)
OneExit == /\ OwedBy(Top) = {Top.owed[1]} /\ Top.owed[1] \in 1..Len(blocks)
           /\ ~AtSwitch(Top) /\ ~InCase(Top)

(* At a node nothing is owed and no CASE is under way.                     *)
LEMMA NodeOpens ==
    ASSUME IInv, status = "generating", work # <<>>, Top.k = "gen"
    PROVE  AtOpen
  <1>1. Top.owed = <<>>
    BY Begin DEF FrameOK
  <1> QED BY <1>1 DEF AtOpen, OwedBy, AtSwitch, InCase

(* At the end of these constructs exactly the exit is owed.                *)
LEMMA OneExitOwed ==
    ASSUME IInv, status = "generating", work # <<>>,
           Top.k \in {"endelse", "endwhile", "endfor", "endrepeat", "endproc"}
    PROVE  OneExit
  <1>1. /\ Len(Top.owed) = 1 /\ Top.owed \in Seq(Nat)
        /\ OwedBy(Top) \subseteq 1..Len(blocks)
    BY Begin DEF FrameOK, FrameSet
  <1>2. OwedBy(Top) = {Top.owed[1]}
    BY <1>1 DEF OwedBy
  <1> QED BY <1>1, <1>2 DEF OneExit, AtSwitch, InCase

(* WHILE and FOR: three blocks for the condition, the body and the exit;   *)
(* the condition's block is filled at once.                                *)
LEMMA LoopOpens ==
    ASSUME IInv, status = "generating", work # <<>>, Top.k = "gen", OnlyBlocks,
           NEW k \in {"endwhile", "endfor"}, Top.s.kind = NodeOf[k],
           Top.s.expr \in Expr, Top.s.stmts[1] \in Node,
           NEW instrs \in Seq(InstructionSet), Tidy(instrs), Ends(instrs),
           blocks' = Emit(Emit(Create(blocks, 3, curFunc), insert, instrs), Fresh(1),
                          <<CondBr(Top.s.expr, Fresh(2), Fresh(3))>>),
           insert' = Fresh(2),
           Continue(<<Gen(Top.s.stmts[1]),
                      Frame(k, Top.s, <<Fresh(1)>>, <<Fresh(3)>>)>>)
    PROVE  IInv'
  <1> DEFINE s  == Top.s
             f  == Frame(k, s, <<Fresh(1)>>, <<Fresh(3)>>)
             g  == <<Gen(s.stmts[1])>>
             bs == Emit(Create(blocks, 3, curFunc), insert, instrs)
             close == <<CondBr(s.expr, Fresh(2), Fresh(3))>>
  <1>1. Len(blocks) \in Nat /\ Len(funcs) \in Nat /\ s \in Node /\ AtOpen
    BY Begin, NodeOpens
  <1>2. Fresh(1) \in Nat /\ Fresh(2) \in Nat /\ Fresh(3) \in Nat
    BY <1>1 DEF Fresh
  <1>3. close \in Seq(InstructionSet) /\ Tidy(close) /\ Ends(close)
    BY <1>2, BranchCloses
  <1>4. blocks' = Emit(bs, Fresh(1), close)
    OBVIOUS
  <1>5. /\ Built(bs) /\ Len(bs) = Len(blocks) + 3
        /\ \A b \in (Len(blocks) + 1)..(Len(blocks) + 3) : ~Closed(bs, b)
    BY <1>1, EmitBuilds DEF AtOpen
  <1> HIDE DEF bs, close
  <1>6. Fresh(1) \in (Len(blocks) + 1)..Len(bs) /\ ~Closed(bs, Fresh(1))
    BY <1>1, <1>5 DEF Fresh
  <1>7. /\ Built(blocks') /\ Len(blocks') = Len(bs) /\ Closed(blocks', Fresh(1))
        /\ \A b \in 1..Len(bs) : b # Fresh(1) => (Closed(blocks', b) <=> Closed(bs, b))
    BY <1>3, <1>4, <1>5, <1>6, EmitNew
  <1>8. New = {Fresh(1), Fresh(2), Fresh(3)}
    BY <1>1, <1>5, <1>7 DEF New, Fresh
  <1>9. Fresh(3) \in 1..Len(blocks') /\ Len(blocks') \in Nat
    BY <1>1, <1>5, <1>7 DEF Fresh
  <1>10. Continue(g \o <<f>>) /\ GenNodes(g)
    BY PairIsConcat, GenNodeFrame
  <1>11. /\ f \in FrameSet /\ f.k = k /\ OwedBy(f) = {Fresh(3)}
         /\ FrameOK(f, Len(blocks'), Len(funcs))
    <2> DEFINE c == Fresh(1)
               a == Fresh(3)
    <2>1. f = Frame(k, s, <<c>>, <<a>>)
      OBVIOUS
    <2>2. /\ s.kind = NodeOf[k] /\ k # "endproc"
          /\ k \in {"endwhile", "endfor", "endrepeat", "endproc"}
          /\ c \in Nat /\ a \in 1..Len(blocks') /\ Len(blocks') \in Nat
      BY <1>2, <1>9
    <2> HIDE DEF f, s, a, c
    <2>3. /\ Frame(k, s, <<c>>, <<a>>) \in FrameSet
          /\ Frame(k, s, <<c>>, <<a>>).k = k
          /\ OwedBy(Frame(k, s, <<c>>, <<a>>)) = {a}
          /\ FrameOK(Frame(k, s, <<c>>, <<a>>), Len(blocks'), Len(funcs))
      BY <1>1, <2>2, LoopFrame
    <2> QED BY <2>1, <2>3 DEF a
  <1> HIDE DEF f, g
  <1>12. Fresh(1) # Fresh(2) /\ Fresh(1) # Fresh(3) /\ Fresh(2) # Fresh(3)
    BY <1>1 DEF Fresh
  <1>13. ~Closed(blocks', Fresh(2)) /\ ~Closed(blocks', Fresh(3))
    BY <1>1, <1>5, <1>7, <1>12 DEF Fresh
  <1> QED BY <1>1, <1>7, <1>8, <1>10, <1>11, <1>12, <1>13, BuilderGoesOn DEF AtOpen

(* IF opens then, merge and, with an ELSE, else.                           *)
LEMMA GenIfKeeps == ASSUME IInv, GenIf PROVE IInv'
  <1> DEFINE s      == Top.s
             n      == IF s.alt = <<>> THEN 2 ELSE 3
             elseBB == IF s.alt = <<>> THEN Fresh(2) ELSE Fresh(3)
             owed   == IF s.alt = <<>> THEN <<Fresh(2)>> ELSE <<Fresh(2), Fresh(3)>>
             f      == Frame("endthen", s, <<>>, owed)
             g      == <<Gen(s.stmts[1])>>
  <1>1. /\ status = "generating" /\ work # <<>> /\ Top.k = "gen" /\ s.kind = "If"
        /\ OnlyBlocks
        /\ blocks' = Emit(Create(blocks, n, curFunc), insert,
                          <<CondBr(s.expr, Fresh(1), elseBB)>>)
        /\ insert' = Fresh(1)
        /\ Continue(<<Gen(s.stmts[1]), f>>)
    BY DEF GenIf, AtNode
  <1>2. /\ Len(blocks) \in Nat /\ s \in Node /\ Top.owed = <<>> /\ Len(funcs) \in Nat
        /\ s.expr \in Expr /\ s.stmts[1] \in Node /\ s.alt \in Optional(Node)
    BY <1>1, Begin DEF FrameOK, WellFormedNode
  <1>3. ~AtSwitch(Top) /\ ~InCase(Top) /\ OwedBy(Top) = {}
    BY <1>1, <1>2 DEF AtSwitch, InCase, OwedBy
  <1>4. n \in Nat /\ Fresh(1) \in Nat /\ elseBB \in Nat
    BY <1>2 DEF Fresh
  <1>5. /\ Built(blocks') /\ Len(blocks') = Len(blocks) + n
        /\ \A b \in (Len(blocks) + 1)..(Len(blocks) + n) : ~Closed(blocks', b)
    BY <1>1, <1>2, <1>3, <1>4, BranchCloses, EmitBuilds
  <1>6. /\ f \in FrameSet /\ f.k = "endthen" /\ FrameOK(f, Len(blocks'), Len(funcs))
        /\ s.alt = <<>> => OwedBy(f) = {Fresh(2)}
        /\ s.alt # <<>> => OwedBy(f) = {Fresh(2), Fresh(3)}
    <2>1. CASE s.alt = <<>>
      <3>1. f = Frame("endthen", s, <<>>, <<Fresh(2)>>) /\ Fresh(2) \in 1..Len(blocks')
        BY <1>2, <1>5, <2>1 DEF Fresh
      <3> HIDE DEF f, s
      <3>2. /\ f \in FrameSet /\ OwedBy(f) = {Fresh(2)} /\ f.k = "endthen"
            /\ FrameOK(f, Len(blocks'), Len(funcs))
        BY <1>1, <1>2, <1>5, <2>1, <3>1, FrameOwesOne
      <3> QED BY <2>1, <3>2
    <2>2. CASE s.alt # <<>>
      <3>1. /\ f = Frame("endthen", s, <<>>, <<Fresh(2), Fresh(3)>>)
            /\ Fresh(2) \in 1..Len(blocks') /\ Fresh(3) \in 1..Len(blocks')
            /\ Fresh(2) # Fresh(3)
        BY <1>2, <1>5, <2>2 DEF Fresh
      <3> HIDE DEF f, s
      <3>2. /\ f \in FrameSet /\ OwedBy(f) = {Fresh(2), Fresh(3)} /\ f.k = "endthen"
            /\ FrameOK(f, Len(blocks'), Len(funcs))
        BY <1>1, <1>2, <1>5, <2>2, <3>1, FrameOwesTwo
      <3> QED BY <2>2, <3>2
    <2> QED BY <2>1, <2>2
  <1>7. Continue(g \o <<f>>) /\ GenNodes(g)
    BY <1>1, <1>2, PairIsConcat, GenNodeFrame
  <1> HIDE DEF f, g
  <1>8. New = (Len(blocks) + 1)..(Len(blocks) + n)
    BY <1>5 DEF New
  <1>9. New = {insert'} \cup OwedBy(f) /\ insert' \notin OwedBy(f)
    BY <1>1, <1>2, <1>6, <1>8 DEF Fresh
  <1> QED BY <1>1, <1>3, <1>5, <1>6, <1>7, <1>8, <1>9, BuilderGoesOn

(* THEN has been generated: on to merge, or to ELSE.                       *)
LEMMA EndThenKeeps == ASSUME IInv, EndThen PROVE IInv'
  <1> DEFINE s == Top.s
  <1>1. /\ status = "generating" /\ work # <<>> /\ Top.k = "endthen" /\ OnlyBlocks
        /\ blocks' = FallTo(blocks, insert, Top.owed[1])
        /\ \/ s.alt = <<>> /\ insert' = Top.owed[1] /\ Continue(<<>>)
           \/ /\ s.alt # <<>> /\ insert' = Top.owed[2]
              /\ Continue(<<Gen(s.alt[1]), Frame("endelse", s, <<>>, <<Top.owed[1]>>)>>)
    BY DEF EndThen, AtFrame
  <1>2. /\ Len(blocks) \in Nat /\ s \in Node /\ Len(funcs) \in Nat /\ s.kind = "If"
        /\ Len(Top.owed) = (IF s.alt = <<>> THEN 1 ELSE 2)
        /\ s.alt \in Optional(Node)
        /\ Top.owed \in Seq(Nat) /\ OwedBy(Top) \subseteq 1..Len(blocks)
        /\ Len(Top.owed) = 2 => Top.owed[1] # Top.owed[2]
    BY <1>1, Begin DEF FrameOK, NodeOf, WellFormedNode, FrameSet
  <1>3. ~AtSwitch(Top) /\ ~InCase(Top)
    BY <1>1 DEF AtSwitch, InCase
  <1>4. /\ s.alt = <<>> => OwedBy(Top) = {Top.owed[1]}
        /\ s.alt # <<>> => OwedBy(Top) = {Top.owed[1], Top.owed[2]}
    BY <1>2 DEF OwedBy
  <1>5. Top.owed[1] \in 1..Len(blocks)
    BY <1>2, <1>4
  <1>6. Built(blocks') /\ Len(blocks') = Len(blocks) /\ New = {}
    BY <1>1, <1>2, <1>5, FallToHere DEF New
  <1>7. CASE s.alt = <<>>
    BY <1>1, <1>3, <1>4, <1>6, <1>7, BuilderReturns
  <1>8. CASE s.alt # <<>>
    <2> DEFINE f == Frame("endelse", s, <<>>, <<Top.owed[1]>>)
               g == <<Gen(s.alt[1])>>
    <2>1. s.alt[1] \in Node
      BY <1>2, <1>8 DEF Optional
    <2>2. /\ f \in FrameSet /\ f.k = "endelse" /\ OwedBy(f) = {Top.owed[1]}
          /\ FrameOK(f, Len(blocks'), Len(funcs))
      <3>1. f = Frame("endelse", s, <<>>, <<Top.owed[1]>>)
        OBVIOUS
      <3>2. Top.owed[1] \in 1..Len(blocks') /\ Len(blocks') \in Nat
        BY <1>2, <1>5, <1>6
      <3>3. s \in Node /\ s.kind = "If" /\ Len(funcs) \in Nat
        BY <1>2
      <3> HIDE DEF f, s
      <3> QED BY <3>1, <3>2, <3>3, FrameOwesOne
    <2> HIDE DEF s
    <2>3. Continue(g \o <<f>>) /\ GenNodes(g)
      BY <1>1, <1>8, <2>1, PairIsConcat, GenNodeFrame
    <2> HIDE DEF f, g
    <2>4. /\ insert' = Top.owed[2] /\ OwedBy(Top) = {insert'} \cup OwedBy(f)
          /\ insert' \notin OwedBy(f)
      BY <1>1, <1>2, <1>4, <1>8, <2>2
    <2> QED BY <1>1, <1>3, <1>6, <2>2, <2>3, <2>4, BuilderGoesOn
  <1> QED BY <1>7, <1>8

(* ELSE has been generated: on to merge.                                   *)
LEMMA EndElseKeeps == ASSUME IInv, EndElse PROVE IInv'
  <1>1. /\ status = "generating" /\ work # <<>> /\ Top.k = "endelse" /\ OnlyBlocks
        /\ blocks' = FallTo(blocks, insert, Top.owed[1])
        /\ insert' = Top.owed[1] /\ Continue(<<>>)
    BY DEF EndElse, AtFrame
  <1>2. OneExit
    BY <1>1, OneExitOwed
  <1>3. Built(blocks') /\ Len(blocks') = Len(blocks) /\ New = {}
    BY <1>1, <1>2, FallToHere DEF New, OneExit
  <1> QED BY <1>1, <1>2, <1>3, BuilderReturns DEF OneExit, InCase

(* WHILE branches to its condition.                                        *)
LEMMA GenWhileKeeps == ASSUME IInv, GenWhile PROVE IInv'
  <1> DEFINE jump == <<Br(Fresh(1))>>
  <1>1. /\ status = "generating" /\ work # <<>> /\ Top.k = "gen"
        /\ Top.s.kind = "While" /\ OnlyBlocks
        /\ blocks' = Emit(Emit(Create(blocks, 3, curFunc), insert, jump), Fresh(1),
                          <<CondBr(Top.s.expr, Fresh(2), Fresh(3))>>)
        /\ insert' = Fresh(2)
        /\ Continue(<<Gen(Top.s.stmts[1]),
                      Frame("endwhile", Top.s, <<Fresh(1)>>, <<Fresh(3)>>)>>)
    BY DEF GenWhile, AtNode
  <1>2. /\ Top.s \in Node /\ Top.s.expr \in Expr /\ Top.s.stmts[1] \in Node
        /\ Fresh(1) \in Nat
    BY <1>1, Begin DEF WellFormedNode, Fresh
  <1>3. jump \in Seq(InstructionSet) /\ Tidy(jump) /\ Ends(jump)
    BY <1>2, BranchCloses
  <1>4. "endwhile" \in {"endwhile", "endfor"} /\ NodeOf["endwhile"] = "While"
    BY DEF NodeOf
  <1> HIDE DEF jump
  <1> QED BY <1>1, <1>2, <1>3, <1>4, LoopOpens

(* Into the UNTIL block, which is the first new one and is filled at once. *)
LEMMA UntilBuilds ==
    ASSUME IInv, status = "generating", work # <<>>, NEW n \in Nat, n >= 1,
           NEW e \in Expr, NEW yes \in Nat, NEW no \in Nat,
           NEW bs, bs = Emit(FallTo(Create(blocks, n, curFunc), insert, Fresh(1)),
                             Fresh(1), <<CondBr(e, yes, no)>>)
    PROVE  /\ Built(bs) /\ Len(bs) = Len(blocks) + n
           /\ Closed(bs, Len(blocks) + 1)
           /\ \A b \in (Len(blocks) + 2)..(Len(blocks) + n) : ~Closed(bs, b)
  <1> DEFINE mid == FallTo(Create(blocks, n, curFunc), insert, Fresh(1))
             close == <<CondBr(e, yes, no)>>
             u == Fresh(1)
  <1>1. Len(blocks) \in Nat /\ u = Len(blocks) + 1 /\ u \in Nat
    BY Begin DEF Fresh
  <1>2. close \in Seq(InstructionSet) /\ Tidy(close) /\ Ends(close)
    BY BranchCloses
  <1>3. bs = Emit(mid, u, close) /\ mid = FallTo(Create(blocks, n, curFunc), insert, u)
    OBVIOUS
  <1> HIDE DEF mid, close, u
  <1>4. /\ Built(mid) /\ Len(mid) = Len(blocks) + n
        /\ \A b \in (Len(blocks) + 1)..(Len(blocks) + n) : ~Closed(mid, b)
    BY <1>1, <1>3, FallToBuilds
  <1>5. u \in (Len(blocks) + 1)..Len(mid) /\ ~Closed(mid, u)
    BY <1>1, <1>4
  <1>6. /\ Built(bs) /\ Len(bs) = Len(mid) /\ Closed(bs, u)
        /\ \A b \in 1..Len(mid) : b # u => (Closed(bs, b) <=> Closed(mid, b))
    BY <1>2, <1>3, <1>4, <1>5, EmitNew
  <1>7. ASSUME NEW b \in (Len(blocks) + 2)..(Len(blocks) + n)
        PROVE  ~Closed(bs, b)
    <2>1. b \in 1..Len(mid) /\ b # u /\ b \in (Len(blocks) + 1)..(Len(blocks) + n)
      BY <1>1, <1>4
    <2> QED BY <1>4, <1>6, <2>1
  <1> QED BY <1>1, <1>4, <1>6, <1>7

(* The end of WHILE: back to the condition, or through the UNTIL block.    *)
LEMMA EndWhileKeeps == ASSUME IInv, EndWhile PROVE IInv'
  <1> DEFINE s == Top.s
             condBB == Top.to[1]
             exitBB == Top.owed[1]
  <1>1. /\ status = "generating" /\ work # <<>> /\ Top.k = "endwhile" /\ OnlyBlocks
        /\ \/ s.until = <<>> /\ blocks' = FallTo(blocks, insert, condBB)
           \/ /\ s.until # <<>>
              /\ blocks' = Emit(FallTo(Create(blocks, 1, curFunc), insert, Fresh(1)),
                                Fresh(1), <<CondBr(s.until[1], exitBB, condBB)>>)
        /\ insert' = exitBB /\ Continue(<<>>)
    BY DEF EndWhile, AtFrame
  <1>2. /\ Len(blocks) \in Nat /\ condBB \in Nat /\ exitBB \in Nat
        /\ s.until \in Optional(Expr)
    <2>1. Top \in FrameSet /\ Len(Top.to) = 1 /\ Len(Top.owed) = 1
      BY <1>1, Begin DEF FrameOK
    <2>2. s.kind = "While"
      BY <1>1, Begin DEF FrameOK, NodeOf
    <2> QED BY <1>1, <2>1, <2>2, Begin DEF FrameSet, WellFormedNode
  <1>3. OneExit
    BY <1>1, OneExitOwed
  <1> HIDE DEF condBB, s
  <1>4. CASE s.until = <<>>
    <2>1. Built(blocks') /\ Len(blocks') = Len(blocks) /\ New = {}
      BY <1>1, <1>2, <1>4, FallToHere DEF New
    <2> QED BY <1>1, <1>3, <2>1, BuilderReturns DEF OneExit
  <1>5. CASE s.until # <<>>
    <2>1. s.until[1] \in Expr
      BY <1>2, <1>5 DEF Optional
    <2>2. /\ Built(blocks') /\ Len(blocks') = Len(blocks) + 1
          /\ Closed(blocks', Len(blocks) + 1)
      BY <1>1, <1>2, <1>5, <2>1, UntilBuilds
    <2>3. New = {Len(blocks) + 1} /\ exitBB \notin New
      BY <1>2, <1>3, <2>2 DEF New, OneExit
    <2> QED BY <1>1, <1>3, <2>2, <2>3, BuilderReturns DEF OneExit
  <1> QED BY <1>4, <1>5

(* FOR evaluates its bounds before it branches.                            *)
LEMMA EvalsOpen ==
    ASSUME NEW es \in Seq(Expr), NEW to \in Nat
    PROVE  /\ Evals(es) \o <<Br(to)>> \in Seq(InstructionSet)
           /\ Tidy(Evals(es) \o <<Br(to)>>) /\ Ends(Evals(es) \o <<Br(to)>>)
  <1> DEFINE before == Evals(es)
             jump == <<Br(to)>>
  <1>1. \A i \in 1..Len(es) : /\ Eval(es[i]) \in InstructionSet
                              /\ ~IsTerminator(Eval(es[i]))
    BY Branches
  <1>2. before \in Seq(InstructionSet) /\ DOMAIN before = 1..Len(es)
    BY <1>1 DEF Evals
  <1>3. ~Ends(before) /\ Tidy(before)
    BY <1>1, <1>2 DEF Evals, Ends, Tidy
  <1>4. jump \in Seq(InstructionSet) /\ Tidy(jump) /\ Ends(jump)
    BY JumpCloses
  <1> HIDE DEF before, jump
  <1>5. before \o jump \in Seq(InstructionSet)
    BY <1>2, <1>4, ConcatElements
  <1>6. Tidy(before \o jump) /\ Ends(before \o jump)
    BY <1>2, <1>3, <1>4, EndsConcat
  <1> QED BY <1>5, <1>6 DEF before, jump

(* FOR evaluates end, step and start before the branch to its condition.   *)
LEMMA GenForKeeps == ASSUME IInv, GenFor PROVE IInv'
  <1> DEFINE es == <<Top.s.end>> \o Top.s.step \o Top.s.start
             instrs == Evals(es) \o <<Br(Fresh(1))>>
  <1>1. /\ status = "generating" /\ work # <<>> /\ Top.k = "gen"
        /\ Top.s.kind = "For" /\ OnlyBlocks
        /\ blocks' = Emit(Emit(Create(blocks, 3, curFunc), insert, instrs), Fresh(1),
                          <<CondBr(Top.s.expr, Fresh(2), Fresh(3))>>)
        /\ insert' = Fresh(2)
        /\ Continue(<<Gen(Top.s.stmts[1]),
                      Frame("endfor", Top.s, <<Fresh(1)>>, <<Fresh(3)>>)>>)
    BY DEF GenFor, AtNode
  <1>2. /\ Top.s \in Node /\ Top.s.expr \in Expr /\ Top.s.stmts[1] \in Node
        /\ Fresh(1) \in Nat
    BY <1>1, Begin DEF WellFormedNode, Fresh
  <1>3. es \in Seq(Expr)
    <2>1. <<Top.s.end>> \in Seq(Expr) /\ Top.s.step \in Seq(Expr) /\ Top.s.start \in Seq(Expr)
      BY <1>1, Begin DEF WellFormedNode, Optional
    <2>2. <<Top.s.end>> \o Top.s.step \in Seq(Expr)
      BY <2>1, ConcatProperties
    <2> QED BY <2>1, <2>2, ConcatProperties
  <1> HIDE DEF es
  <1>4. instrs \in Seq(InstructionSet) /\ Tidy(instrs) /\ Ends(instrs)
    BY <1>2, <1>3, EvalsOpen
  <1>5. "endfor" \in {"endwhile", "endfor"} /\ NodeOf["endfor"] = "For"
    BY DEF NodeOf
  <1> HIDE DEF instrs
  <1> QED BY <1>1, <1>2, <1>4, <1>5, LoopOpens

(* The step of a FOR without UNTIL and the branch behind it.               *)
LEMMA StepFallsTo ==
    ASSUME IInv, status = "generating", work # <<>>, ~AtSwitch(Top),
           NEW e \in Expr, NEW to \in Nat,
           NEW bs, bs = FallTo(Emit(blocks, insert, <<Step(e)>>), insert, to)
    PROVE  Built(bs) /\ Len(bs) = Len(blocks)
  <1> DEFINE step == <<Step(e)>>
             mid  == Emit(blocks, insert, step)
  <1>1. /\ blocks \in Seq(BlockSet) /\ insert \in 1..Len(blocks) /\ Len(blocks) \in Nat
        /\ ~Closed(blocks, insert) \/ insert \in relabelled
    BY Begin
  <1>2. step \in Seq(InstructionSet) /\ Tidy(step) /\ ~Ends(step)
    <2>1. Step(e) \in InstructionSet /\ ~IsTerminator(Step(e))
      BY DEF Step, Instruction, InstructionSet, Ops, Terminators, IsTerminator, Optional
    <2> QED BY <2>1, OneInstruction
  <1> HIDE DEF step
  <1>3. /\ mid \in Seq(BlockSet) /\ Len(mid) = Len(blocks)
        /\ \A c \in 1..Len(blocks) : c # insert => mid[c] = blocks[c]
        /\ ~Closed(blocks, insert) => Clean(mid, insert)
    BY <1>1, <1>2, EmitProperties
  <1>4. bs = FallTo(mid, insert, to)
    BY DEF step
  <1> HIDE DEF mid
  <1>5. /\ bs \in Seq(BlockSet) /\ Len(bs) = Len(mid)
        /\ \A c \in 1..Len(mid) : c # insert => bs[c] = mid[c]
        /\ Closed(bs, insert)
        /\ Clean(mid, insert) => Clean(bs, insert)
    <2>1. insert \in 1..Len(mid)
      BY <1>1, <1>3
    <2>2. /\ FallTo(mid, insert, to) \in Seq(BlockSet)
          /\ Len(FallTo(mid, insert, to)) = Len(mid)
          /\ \A c \in 1..Len(mid) : c # insert => FallTo(mid, insert, to)[c] = mid[c]
          /\ Closed(FallTo(mid, insert, to), insert)
          /\ Clean(mid, insert) => Clean(FallTo(mid, insert, to), insert)
      BY <1>3, <2>1, FallToProperties
    <2> QED BY <1>4, <2>2
  <1>6. (Len(blocks) + 1)..Len(bs) = {}
    BY <1>1, <1>3, <1>5
  <1>7. \A c \in 1..Len(blocks) : c # insert => bs[c] = blocks[c]
    BY <1>3, <1>5
  <1> QED BY <1>1, <1>3, <1>5, <1>6, <1>7 DEF Built

(* The end of FOR: with UNTIL the step has a block of its own.             *)
LEMMA EndForKeeps == ASSUME IInv, EndFor PROVE IInv'
  <1> DEFINE s == Top.s
             condBB == Top.to[1]
             exitBB == Top.owed[1]
             untilled == Emit(FallTo(Create(blocks, 2, curFunc), insert, Fresh(1)),
                              Fresh(1), <<CondBr(s.until[1], exitBB, Fresh(2))>>)
             close == <<Step(s.expr), Br(condBB)>>
  <1>1. /\ status = "generating" /\ work # <<>> /\ Top.k = "endfor" /\ OnlyBlocks
        /\ \/ /\ s.until = <<>>
              /\ blocks' = FallTo(Emit(blocks, insert, <<Step(s.expr)>>), insert, condBB)
           \/ /\ s.until # <<>>
              /\ blocks' = Emit(untilled, Fresh(2), close)
        /\ insert' = exitBB /\ Continue(<<>>)
    BY DEF EndFor, AtFrame
  <1>2. /\ Len(blocks) \in Nat /\ condBB \in Nat /\ exitBB \in Nat
        /\ s.until \in Optional(Expr) /\ s.expr \in Expr
    <2>1. Top \in FrameSet /\ Len(Top.to) = 1 /\ Len(Top.owed) = 1
      BY <1>1, Begin DEF FrameOK
    <2>2. s.kind = "For"
      BY <1>1, Begin DEF FrameOK, NodeOf
    <2> QED BY <1>1, <2>1, <2>2, Begin DEF FrameSet, WellFormedNode
  <1>3. OneExit
    BY <1>1, OneExitOwed
  <1>4. close \in Seq(InstructionSet) /\ Tidy(close) /\ Ends(close)
    <2> DEFINE step == <<Step(s.expr)>>
               jump == <<Br(condBB)>>
    <2> HIDE DEF s, condBB
    <2>1. step \in Seq(InstructionSet) /\ Tidy(step) /\ ~Ends(step)
      <3>1. Step(s.expr) \in InstructionSet /\ ~IsTerminator(Step(s.expr))
        BY <1>2 DEF Step, Instruction, InstructionSet, Ops, Terminators, IsTerminator,
                    Optional
      <3> QED BY <3>1, OneInstruction
    <2>2. jump \in Seq(InstructionSet) /\ Tidy(jump) /\ Ends(jump)
      BY <1>2, JumpCloses
    <2>3. close = step \o jump
      BY PairIsConcat
    <2> HIDE DEF step, jump, close
    <2>4. step \o jump \in Seq(InstructionSet)
      BY <2>1, <2>2, ConcatElements
    <2> QED BY <2>1, <2>2, <2>3, <2>4, EndsConcat
  <1> HIDE DEF condBB, s, close
  <1>5. CASE s.until = <<>>
    <2>1. ~AtSwitch(Top)
      BY <1>3 DEF OneExit
    <2>2. Built(blocks') /\ Len(blocks') = Len(blocks)
      BY <1>1, <1>2, <1>5, <2>1, StepFallsTo
    <2>3. New = {}
      BY <1>2, <2>2 DEF New
    <2> QED BY <1>1, <1>3, <2>2, <2>3, BuilderReturns DEF OneExit
  <1>6. CASE s.until # <<>>
    <2> DEFINE stepBB == Fresh(2)
    <2>1. s.until[1] \in Expr /\ stepBB \in Nat /\ stepBB = Len(blocks) + 2
      BY <1>2, <1>6 DEF Optional, Fresh
    <2>2. blocks' = Emit(untilled, stepBB, close)
      BY <1>1, <1>6
    <2>3. untilled = Emit(FallTo(Create(blocks, 2, curFunc), insert, Fresh(1)),
                          Fresh(1), <<CondBr(s.until[1], exitBB, stepBB)>>)
      OBVIOUS
    <2> HIDE DEF untilled, stepBB
    <2>4. /\ Built(untilled) /\ Len(untilled) = Len(blocks) + 2
          /\ Closed(untilled, Len(blocks) + 1)
          /\ \A b \in (Len(blocks) + 2)..(Len(blocks) + 2) : ~Closed(untilled, b)
      <3>1. exitBB \in Nat /\ s.until[1] \in Expr /\ stepBB \in Nat
        BY <1>2, <2>1
      <3>2. Fresh(2) = stepBB
        BY DEF stepBB
      <3> HIDE DEF exitBB
      <3> QED BY <1>1, <2>3, <3>1, <3>2, UntilBuilds
    <2>5. /\ stepBB \in (Len(blocks) + 1)..Len(untilled) /\ ~Closed(untilled, stepBB)
      BY <1>2, <2>1, <2>4
    <2>6. /\ Built(blocks') /\ Len(blocks') = Len(untilled)
          /\ Closed(blocks', stepBB)
          /\ \A b \in 1..Len(untilled) :
                b # stepBB => (Closed(blocks', b) <=> Closed(untilled, b))
      BY <1>1, <1>4, <2>2, <2>4, <2>5, EmitNew
    <2>7. New = {Len(blocks) + 1, stepBB}
      BY <1>2, <2>1, <2>4, <2>6 DEF New
    <2>8. Closed(blocks', Len(blocks) + 1) /\ exitBB \notin New
      BY <1>2, <1>3, <2>1, <2>4, <2>6, <2>7 DEF OneExit
    <2> QED BY <1>1, <1>3, <2>6, <2>7, <2>8, BuilderReturns DEF OneExit
  <1> QED BY <1>5, <1>6

(* DO opens its body; at its end one block more is opened.                 *)
LEMMA GenDoKeeps == ASSUME IInv, GenDo PROVE IInv'
  <1> DEFINE s == Top.s
             g == GenAll(s.stmts)
             body == Fresh(1)
             f == Frame("enddo", s, <<body>>, <<>>)
             jump == <<Br(body)>>
  <1>1. /\ status = "generating" /\ work # <<>> /\ Top.k = "gen" /\ s.kind = "Do"
        /\ OnlyBlocks
        /\ blocks' = Emit(Create(blocks, 1, curFunc), insert, jump)
        /\ insert' = body /\ Continue(g \o <<f>>)
    BY DEF GenDo, AtNode
  <1>2. /\ Len(blocks) \in Nat /\ Len(funcs) \in Nat /\ s \in Node
        /\ s.stmts \in Seq(Node) /\ body \in Nat /\ body = Len(blocks) + 1
    BY <1>1, Begin DEF WellFormedNode, Fresh, Optional
  <1>3. AtOpen
    BY <1>1, NodeOpens
  <1> HIDE DEF body, s
  <1>4. jump \in Seq(InstructionSet) /\ Tidy(jump) /\ Ends(jump)
    BY <1>2, JumpCloses
  <1> HIDE DEF jump
  <1>5. /\ Built(blocks') /\ Len(blocks') = Len(blocks) + 1
        /\ \A b \in (Len(blocks) + 1)..(Len(blocks) + 1) : ~Closed(blocks', b)
    BY <1>1, <1>3, <1>4, EmitBuilds DEF AtOpen
  <1>6. /\ f \in FrameSet /\ f.k = "enddo" /\ OwedBy(f) = {}
        /\ FrameOK(f, Len(blocks'), Len(funcs))
    <2>1. Len(blocks') \in Nat
      BY <1>2, <1>5
    <2>2. /\ Frame("enddo", s, <<body>>, <<>>) \in FrameSet
          /\ Frame("enddo", s, <<body>>, <<>>).k = "enddo"
          /\ OwedBy(Frame("enddo", s, <<body>>, <<>>)) = {}
          /\ FrameOK(Frame("enddo", s, <<body>>, <<>>), Len(blocks'), Len(funcs))
      BY <1>1, <1>2, <2>1, FrameOwesNone
    <2> QED BY <2>2
  <1>7. GenNodes(g)
    BY <1>2, GenAllFrames
  <1> HIDE DEF f, g
  <1>8. New = {body}
    BY <1>2, <1>5 DEF New
  <1>9. ~Closed(blocks', body)
    BY <1>2, <1>5
  <1> QED BY <1>1, <1>3, <1>5, <1>6, <1>7, <1>8, <1>9, BuilderGoesOn DEF AtOpen

(* A block opened behind what has been built.                              *)
LEMMA CreateAfter ==
    ASSUME IInv, status = "generating", work # <<>>, NEW bs, Built(bs),
           NEW to, to = Create(bs, 1, curFunc)
    PROVE  /\ Built(to) /\ Len(to) = Len(bs) + 1 /\ ~Closed(to, Len(bs) + 1)
           /\ \A b \in 1..Len(bs) : Closed(to, b) <=> Closed(bs, b)
  <1>1. /\ bs \in Seq(BlockSet) /\ Len(bs) \in Nat /\ curFunc \in Nat
        /\ Len(blocks) \in Nat /\ Len(blocks) <= Len(bs) /\ insert \in 1..Len(blocks)
    BY Begin DEF Built
  <1>2. /\ to \in Seq(BlockSet) /\ Len(to) = Len(bs) + 1
        /\ \A b \in 1..Len(bs) : to[b] = bs[b]
        /\ \A b \in (Len(bs) + 1)..(Len(bs) + 1) : ~Closed(to, b) /\ Clean(to, b)
    <2> DEFINE n == 1
    <2>1. n \in Nat /\ to = Create(bs, n, curFunc) /\ n = 1
      OBVIOUS
    <2> HIDE DEF n
    <2>2. /\ Create(bs, n, curFunc) \in Seq(BlockSet)
          /\ Len(Create(bs, n, curFunc)) = Len(bs) + n
          /\ \A b \in 1..Len(bs) : Create(bs, n, curFunc)[b] = bs[b]
          /\ \A b \in (Len(bs) + 1)..(Len(bs) + n) :
                /\ ~Closed(Create(bs, n, curFunc), b)
                /\ Clean(Create(bs, n, curFunc), b)
      BY <1>1, <2>1, CreateProperties
    <2> QED BY <2>1, <2>2
  <1>3. ~Closed(to, Len(bs) + 1) /\ Clean(to, Len(bs) + 1)
    BY <1>1, <1>2
  <1>4. \A b \in 1..Len(bs) : /\ Closed(to, b) <=> Closed(bs, b)
                              /\ Clean(to, b) <=> Clean(bs, b)
    BY <1>2 DEF Closed, Clean
  <1>5. \A b \in 1..Len(blocks) : b # insert => to[b] = blocks[b]
    BY <1>1, <1>2 DEF Built
  <1>6. \A b \in (Len(blocks) + 1)..Len(to) : Clean(to, b)
    <2> SUFFICES ASSUME NEW b \in (Len(blocks) + 1)..Len(to) PROVE Clean(to, b)
      OBVIOUS
    <2>1. b = Len(bs) + 1 \/ (b \in (Len(blocks) + 1)..Len(bs) /\ b \in 1..Len(bs))
      BY <1>1, <1>2
    <2> QED BY <1>3, <1>4, <2>1 DEF Built
  <1>7. insert \in 1..Len(bs) /\ Len(blocks) <= Len(to) /\ Len(to) \in Nat
    BY <1>1, <1>2
  <1>8. Closed(to, insert) /\ (Clean(to, insert) \/ insert \in relabelled)
    BY <1>4, <1>7 DEF Built
  <1> QED BY <1>2, <1>3, <1>4, <1>5, <1>6, <1>7, <1>8 DEF Built

(* The end of DO: back to the body, or through the UNTIL block, and on in  *)
(* a new block.                                                            *)
LEMMA EndDoKeeps == ASSUME IInv, EndDo PROVE IInv'
  <1> DEFINE s == Top.s
             bodyBB == Top.to[1]
             fall == FallTo(blocks, insert, bodyBB)
  <1>1. /\ status = "generating" /\ work # <<>> /\ Top.k = "enddo" /\ OnlyBlocks
        /\ Continue(<<>>)
        /\ \/ /\ s.until = <<>>
              /\ blocks' = Create(fall, 1, curFunc) /\ insert' = Fresh(1)
           \/ /\ s.until # <<>>
              /\ blocks' = Emit(FallTo(Create(blocks, 2, curFunc), insert, Fresh(1)),
                                Fresh(1), <<CondBr(s.until[1], Fresh(2), bodyBB)>>)
              /\ insert' = Fresh(2)
    BY DEF EndDo, AtFrame
  <1>2. /\ Len(blocks) \in Nat /\ bodyBB \in Nat /\ s.until \in Optional(Expr)
        /\ Top.owed = <<>>
    <2>1. Top \in FrameSet /\ Len(Top.to) = 1 /\ Top.owed = <<>>
      BY <1>1, Begin DEF FrameOK
    <2>2. s.kind = "Do"
      BY <1>1, Begin DEF FrameOK, NodeOf
    <2> QED BY <1>1, <2>1, <2>2, Begin DEF FrameSet, WellFormedNode
  <1>3. OwedBy(Top) = {} /\ ~InCase(Top)
    BY <1>1, <1>2 DEF OwedBy, InCase
  <1> HIDE DEF s, bodyBB
  <1>4. CASE s.until = <<>>
    <2>1. fall = FallTo(blocks, insert, bodyBB) /\ blocks' = Create(fall, 1, curFunc)
      BY <1>1, <1>4
    <2> HIDE DEF fall
    <2>2. Built(fall) /\ Len(fall) = Len(blocks)
      BY <1>1, <1>2, <2>1, FallToHere
    <2>3. Built(blocks') /\ Len(blocks') = Len(fall) + 1 /\ ~Closed(blocks', Len(fall) + 1)
      BY <1>1, <2>1, <2>2, CreateAfter
    <2>4. New = {insert'} /\ ~Closed(blocks', insert')
      BY <1>1, <1>2, <1>4, <2>2, <2>3 DEF New, Fresh
    <2> QED BY <1>1, <1>3, <2>3, <2>4, BuilderReturns
  <1>5. CASE s.until # <<>>
    <2>1. s.until[1] \in Expr /\ Fresh(2) = Len(blocks) + 2 /\ Fresh(2) \in Nat
      BY <1>2, <1>5 DEF Optional, Fresh
    <2>2. /\ Built(blocks') /\ Len(blocks') = Len(blocks) + 2
          /\ Closed(blocks', Len(blocks) + 1)
          /\ \A b \in (Len(blocks) + 2)..(Len(blocks) + 2) : ~Closed(blocks', b)
      BY <1>1, <1>2, <1>5, <2>1, UntilBuilds
    <2>3. New = {Len(blocks) + 1, insert'} /\ insert' = Len(blocks) + 2
      BY <1>1, <1>2, <1>5, <2>1, <2>2 DEF New
    <2>4. ~Closed(blocks', insert')
      BY <1>2, <2>2, <2>3
    <2> QED BY <1>1, <1>2, <1>3, <2>2, <2>3, <2>4, BuilderReturns
  <1> QED BY <1>4, <1>5

(* REPEAT opens its body and owes its exit.                                *)
LEMMA GenRepeatKeeps == ASSUME IInv, GenRepeat PROVE IInv'
  <1> DEFINE s == Top.s
             g == GenAll(s.stmts)
             body == Fresh(1)
             exit == Fresh(2)
             f == Frame("endrepeat", s, <<body>>, <<exit>>)
             jump == <<Br(body)>>
  <1>1. /\ status = "generating" /\ work # <<>> /\ Top.k = "gen" /\ s.kind = "Repeat"
        /\ OnlyBlocks
        /\ blocks' = Emit(Create(blocks, 2, curFunc), insert, jump)
        /\ insert' = body /\ Continue(g \o <<f>>)
    BY DEF GenRepeat, AtNode
  <1>2. /\ Len(blocks) \in Nat /\ Len(funcs) \in Nat /\ s \in Node
        /\ s.stmts \in Seq(Node)
        /\ body \in Nat /\ body = Len(blocks) + 1 /\ exit = Len(blocks) + 2
    BY <1>1, Begin DEF WellFormedNode, Fresh
  <1>3. AtOpen
    BY <1>1, NodeOpens
  <1> HIDE DEF body, exit, s
  <1>4. jump \in Seq(InstructionSet) /\ Tidy(jump) /\ Ends(jump)
    BY <1>2, JumpCloses
  <1> HIDE DEF jump
  <1>5. /\ Built(blocks') /\ Len(blocks') = Len(blocks) + 2
        /\ \A b \in (Len(blocks) + 1)..(Len(blocks) + 2) : ~Closed(blocks', b)
    BY <1>1, <1>3, <1>4, EmitBuilds DEF AtOpen
  <1>6. /\ f \in FrameSet /\ f.k = "endrepeat" /\ OwedBy(f) = {exit}
        /\ FrameOK(f, Len(blocks'), Len(funcs))
    <2>1. Len(blocks') \in Nat /\ exit \in 1..Len(blocks')
      BY <1>2, <1>5
    <2> DEFINE k == "endrepeat"
    <2>2. /\ s.kind = NodeOf[k] /\ k # "endproc"
          /\ k \in {"endwhile", "endfor", "endrepeat", "endproc"}
      BY <1>1 DEF NodeOf
    <2>3. f = Frame(k, s, <<body>>, <<exit>>) /\ k = "endrepeat"
      OBVIOUS
    <2> HIDE DEF k, f
    <2>4. /\ Frame(k, s, <<body>>, <<exit>>) \in FrameSet
          /\ Frame(k, s, <<body>>, <<exit>>).k = k
          /\ OwedBy(Frame(k, s, <<body>>, <<exit>>)) = {exit}
          /\ FrameOK(Frame(k, s, <<body>>, <<exit>>), Len(blocks'), Len(funcs))
      <3>1. s \in Node /\ Len(funcs) \in Nat /\ body \in Nat
        BY <1>2
      <3> QED BY <2>1, <2>2, <3>1, LoopFrame
    <2> QED BY <2>3, <2>4
  <1>7. GenNodes(g)
    BY <1>2, GenAllFrames
  <1> HIDE DEF f, g
  <1>8. New = {body, exit} /\ body # exit
    BY <1>2, <1>5 DEF New
  <1>9. ~Closed(blocks', body) /\ ~Closed(blocks', exit)
    BY <1>2, <1>5
  <1> QED BY <1>1, <1>3, <1>5, <1>6, <1>7, <1>8, <1>9, BuilderGoesOn DEF AtOpen

(* Without creating a block.                                               *)
LEMMA EmitHere ==
    ASSUME IInv, status = "generating", work # <<>>, ~AtSwitch(Top),
           NEW instrs \in Seq(InstructionSet), Tidy(instrs), Ends(instrs),
           NEW bs, bs = Emit(blocks, insert, instrs)
    PROVE  Built(bs) /\ Len(bs) = Len(blocks)
  <1>1. /\ blocks \in Seq(BlockSet) /\ insert \in 1..Len(blocks) /\ Len(blocks) \in Nat
        /\ ~Closed(blocks, insert) \/ insert \in relabelled
    BY Begin
  <1>2. /\ bs \in Seq(BlockSet) /\ Len(bs) = Len(blocks)
        /\ \A c \in 1..Len(blocks) : c # insert => bs[c] = blocks[c]
        /\ Closed(bs, insert)
        /\ ~Closed(blocks, insert) => Clean(bs, insert)
    BY <1>1, EmitProperties
  <1>3. (Len(blocks) + 1)..Len(bs) = {}
    BY <1>1, <1>2
  <1> QED BY <1>1, <1>2, <1>3 DEF Built

(* REPEAT branches without looking for a terminator: the invariant says    *)
(* that the insertion block has none.                                      *)
LEMMA EndRepeatKeeps == ASSUME IInv, EndRepeat PROVE IInv'
  <1> DEFINE close == <<CondBr(Top.s.expr, Top.owed[1], Top.to[1])>>
  <1>1. /\ status = "generating" /\ work # <<>> /\ Top.k = "endrepeat" /\ OnlyBlocks
        /\ blocks' = Emit(blocks, insert, close)
        /\ insert' = Top.owed[1] /\ Continue(<<>>)
    BY DEF EndRepeat, AtFrame
  <1>2. Len(blocks) \in Nat /\ Top.to[1] \in Nat /\ Top.owed[1] \in Nat /\ Top.s.expr \in Expr
    <2>1. Top \in FrameSet /\ Len(Top.to) = 1 /\ Len(Top.owed) = 1
      BY <1>1, Begin DEF FrameOK
    <2>2. Top.s.kind = "Repeat"
      BY <1>1, Begin DEF FrameOK, NodeOf
    <2> QED BY <1>1, <2>1, <2>2, Begin DEF FrameSet, WellFormedNode
  <1>3. OneExit
    BY <1>1, OneExitOwed
  <1>4. close \in Seq(InstructionSet) /\ Tidy(close) /\ Ends(close)
    BY <1>2, BranchCloses
  <1> HIDE DEF close
  <1>5. Built(blocks') /\ Len(blocks') = Len(blocks) /\ New = {}
    BY <1>1, <1>2, <1>3, <1>4, EmitHere DEF New, OneExit
  <1> QED BY <1>1, <1>3, <1>5, BuilderReturns DEF OneExit

(* RETURN closes the block and opens one nobody branches to.               *)
LEMMA GenReturnKeeps == ASSUME IInv, GenReturn PROVE IInv'
  <1> DEFINE ret == IF Top.s.value = <<>> THEN RetVoid ELSE Ret(Top.s.value)
             close == <<ret>>
             closed == Emit(blocks, insert, close)
  <1>1. /\ status = "generating" /\ work # <<>> /\ Top.k = "gen"
        /\ Top.s.kind = "Return" /\ OnlyBlocks
        /\ blocks' = Create(closed, 1, curFunc)
        /\ insert' = Fresh(1) /\ Continue(<<>>)
    BY DEF GenReturn, AtNode
  <1>2. AtOpen /\ Len(blocks) \in Nat /\ Top.s.value \in Optional(Expr)
    BY <1>1, Begin, NodeOpens DEF WellFormedNode
  <1>3. ret \in InstructionSet /\ IsTerminator(ret)
    BY <1>2, Returns
  <1> HIDE DEF ret
  <1>4. close \in Seq(InstructionSet) /\ Tidy(close) /\ Ends(close)
    BY <1>3, OneInstruction
  <1>5. closed = Emit(blocks, insert, close)
    OBVIOUS
  <1> HIDE DEF close, closed
  <1>6. Built(closed) /\ Len(closed) = Len(blocks)
    BY <1>1, <1>2, <1>4, <1>5, EmitHere DEF AtOpen
  <1>7. /\ Built(blocks') /\ Len(blocks') = Len(closed) + 1
        /\ ~Closed(blocks', Len(closed) + 1)
    BY <1>1, <1>6, CreateAfter
  <1>8. New = {insert'} /\ ~Closed(blocks', insert')
    BY <1>1, <1>2, <1>6, <1>7 DEF New, Fresh
  <1> QED BY <1>1, <1>2, <1>7, <1>8, BuilderReturns DEF AtOpen

-----------------------------------------------------------------------------
(***************************************************************************)
(* Handlers that change more than blocks, or no block at all: each is a    *)
(* Handler(items) for the items it pushes.                                 *)
(***************************************************************************)
(* A handler that closes and opens no block, and stays where it is.        *)
LEMMA QuietStep ==
    ASSUME IInv, status = "generating", work # <<>>, OwedBy(Top) = {},
           NEW items, HandlerFrames(items), OwedIn(items) = {},
           blocks' = blocks, insert' = insert, prog' = prog, status' = status,
           funcs' = funcs, curFunc' = curFunc, LabelsUnchanged,
           scopes' \in Seq([Name -> Nat]),
           (IF items = <<>> THEN InCase(Top) ELSE AtSwitch(items[1])) <=> AtSwitch(Top)
    PROVE  IInv'
  <1>1. /\ blocks \in Seq(BlockSet) /\ Len(blocks) \in Nat
        /\ insert \in 1..Len(blocks) /\ curFunc \in 1..Len(funcs) /\ Len(funcs) \in Nat
        /\ \A b \in 1..Len(blocks) : Clean(blocks, b) \/ b \in relabelled
        /\ AtSwitch(Top) => Closed(blocks, insert)
        /\ ~AtSwitch(Top) => ~Closed(blocks, insert) \/ insert \in relabelled
    BY Begin
  <1>2. New = {} /\ Mine = {insert}
    BY <1>1 DEF New, Mine
  <1>3. labels' = labels /\ pending' = pending /\ relabelled' = relabelled
    BY DEF LabelsUnchanged
  <1>4. /\ funcs \in Seq(Optional(Node)) /\ labels \in [Name -> Nat]
        /\ relabelled \subseteq Nat /\ pending \subseteq 1..Len(blocks)
        /\ insert \notin pending
    BY DEF IInv, Typed, TypeOK, Separate
  <1>5. HandlerTypes
    BY <1>1, <1>3, <1>4 DEF HandlerTypes
  <1>6. HandlerBlocks(items)
    BY <1>1, <1>2, <1>3 DEF HandlerBlocks
  <1>7. HandlerOwed(items)
    BY <1>2, <1>3, <1>4 DEF HandlerOwed
  <1>8. HandlerSwitch(items)
    BY <1>1, <1>3 DEF HandlerSwitch
  <1> QED BY <1>5, <1>6, <1>7, <1>8, HandlerStep DEF Handler

(* A handler that only appends to the insertion block.                     *)
LEMMA InPlaceStep ==
    ASSUME IInv, status = "generating", work # <<>>, OwedBy(Top) = {},
           NEW items, HandlerFrames(items), OwedIn(items) = {},
           blocks' \in Seq(BlockSet), Len(blocks') = Len(blocks),
           \A b \in 1..Len(blocks) : b # insert => blocks'[b] = blocks[b],
           Closed(blocks, insert) => Closed(blocks', insert),
           Clean(blocks', insert) \/ insert \in relabelled,
           insert' = insert, OnlyBlocks,
           HandlerSwitch(items)
    PROVE  IInv'
  <1>1. /\ blocks \in Seq(BlockSet) /\ Len(blocks) \in Nat
        /\ insert \in 1..Len(blocks) /\ curFunc \in 1..Len(funcs) /\ Len(funcs) \in Nat
        /\ \A b \in 1..Len(blocks) : Clean(blocks, b) \/ b \in relabelled
    BY Begin
  <1>2. New = {} /\ Mine = {insert}
    BY <1>1 DEF New, Mine
  <1>3. /\ labels' = labels /\ pending' = pending /\ relabelled' = relabelled
        /\ status' = status /\ prog' = prog /\ funcs' = funcs /\ curFunc' = curFunc
        /\ scopes' = scopes
    BY DEF OnlyBlocks, LabelsUnchanged, FunctionUnchanged
  <1>4. /\ funcs \in Seq(Optional(Node)) /\ labels \in [Name -> Nat]
        /\ scopes \in Seq([Name -> Nat])
        /\ relabelled \subseteq Nat /\ pending \subseteq 1..Len(blocks)
        /\ insert \notin pending
    BY DEF IInv, Typed, TypeOK, Separate
  <1>5. HandlerTypes
    BY <1>1, <1>3, <1>4 DEF HandlerTypes
  <1>6. \A b \in 1..Len(blocks) : b # insert =>
            /\ Closed(blocks', b) <=> Closed(blocks, b)
            /\ Clean(blocks', b) <=> Clean(blocks, b)
    BY DEF Closed, Clean
  <1>7. HandlerBlocks(items)
    <2>1. \A b \in 1..Len(blocks) : Closed(blocks, b) => Closed(blocks', b)
      BY <1>6
    <2>2. \A b \in (1..Len(blocks)) \ Mine :
            /\ Closed(blocks', b) => Closed(blocks, b)
            /\ Clean(blocks, b) => Clean(blocks', b)
      BY <1>2, <1>6
    <2>3. \A b \in Mine : /\ \/ Closed(blocks', b)
                             \/ b \in {insert'} \cup OwedIn(items) \cup pending'
                          /\ Clean(blocks', b) \/ b \in relabelled'
      BY <1>2, <1>3
    <2> QED BY <1>3, <2>1, <2>2, <2>3 DEF HandlerBlocks
  <1>8. HandlerOwed(items)
    BY <1>2, <1>3, <1>4 DEF HandlerOwed
  <1> QED BY <1>5, <1>7, <1>8, HandlerStep DEF Handler

(* A FORWARD declaration emits nothing.                                    *)
LEMMA GenForwardKeeps == ASSUME IInv, GenForward PROVE IInv'
  <1>1. /\ status = "generating" /\ work # <<>> /\ Top.k = "gen" /\ OnlyBlocks
        /\ blocks' = blocks /\ insert' = insert /\ Continue(<<>>)
    BY DEF GenForward, AtNode
  <1>2. AtOpen
    BY <1>1, NodeOpens
  <1> DEFINE items == <<>>
  <1>3. HandlerFrames(items) /\ OwedIn(items) = {} /\ items = <<>>
    BY <1>1, NothingPushed
  <1>4. scopes' \in Seq([Name -> Nat])
    BY <1>1 DEF OnlyBlocks, IInv, Typed, TypeOK
  <1> HIDE DEF items
  <1> QED BY <1>1, <1>2, <1>3, <1>4, QuietStep DEF AtOpen, OnlyBlocks, FunctionUnchanged

(* The operations on scopes keep their type.                               *)
LEMMA ScopesKept ==
    ASSUME NEW sc \in Seq([Name -> Nat])
    PROVE  /\ PushScope(sc) \in Seq([Name -> Nat])
           /\ PopScope(sc) \in Seq([Name -> Nat])
           /\ \A n \in Name, f \in Nat : SetSymbol(sc, n, f) \in Seq([Name -> Nat])
  <1>1. NoSymbols \in [Name -> Nat]
    BY DEF NoSymbols
  <1>2. PushScope(sc) \in Seq([Name -> Nat])
    BY <1>1, AppendProperties DEF PushScope
  <1>3. PopScope(sc) \in Seq([Name -> Nat])
    <2>1. Len(sc) \in Nat
      BY LenProperties
    <2>2. CASE sc = <<>>
      <3>1. Len(sc) = 0
        BY <2>2
      <3> QED BY <3>1, SubSeqProperties DEF PopScope
    <2>3. CASE sc # <<>>
      BY <2>1, <2>3, EmptySeq, SubSeqProperties DEF PopScope
    <2> QED BY <2>2, <2>3
  <1>4. ASSUME NEW n \in Name, NEW f \in Nat
        PROVE  SetSymbol(sc, n, f) \in Seq([Name -> Nat])
    <2>1. CASE Len(sc) \in 1..Len(sc)
      <3>1. [sc[Len(sc)] EXCEPT ![n] = f] \in [Name -> Nat]
        BY <2>1
      <3> QED BY <2>1, <3>1, ExceptSeq DEF SetSymbol
    <2>2. CASE Len(sc) \notin 1..Len(sc)
      <3>1. DOMAIN sc = 1..Len(sc) /\ Len(sc) \notin DOMAIN sc
        BY <2>2, LenProperties
      <3>2. SetSymbol(sc, n, f) = [i \in DOMAIN sc |-> sc[i]]
        BY <3>1 DEF SetSymbol
      <3>3. sc = [i \in DOMAIN sc |-> sc[i]]
        BY <3>1
      <3> QED BY <3>2, <3>3
    <2> QED BY <2>1, <2>2
  <1> QED BY <1>2, <1>3, <1>4

(* A block's scope is entered, and its declarations and statements follow. *)
LEMMA GenBlockKeeps == ASSUME IInv, GenBlock PROVE IInv'
  <1> DEFINE s == Top.s
             f == Frame("endblock", s, <<>>, <<>>)
             g == GenAll(s.decls) \o GenAll(s.stmts)
             items == g \o <<f>>
  <1>1. /\ status = "generating" /\ work # <<>> /\ Top.k = "gen" /\ s.kind = "Block"
        /\ Continue(items) /\ scopes' = PushScope(scopes)
        /\ LabelsUnchanged /\ FunctionUnchanged
        /\ prog' = prog /\ blocks' = blocks /\ insert' = insert /\ status' = status
    BY DEF GenBlock, AtNode
  <1>2. AtOpen /\ Len(blocks') \in Nat /\ Len(funcs') \in Nat /\ s \in Node
    BY <1>1, Begin, NodeOpens DEF FunctionUnchanged
  <1>3. s.decls \in Seq(Node) /\ s.stmts \in Seq(Node)
    BY <1>1, Begin DEF WellFormedNode
  <1>4. GenNodes(g)
    BY <1>3, GenAllFrames, GenNodesConcat
  <1>5. /\ f \in FrameSet /\ f.k = "endblock" /\ OwedBy(f) = {}
        /\ FrameOK(f, Len(blocks'), Len(funcs'))
    <2> HIDE DEF s
    <2>1. f \in FrameSet
      BY <1>2 DEF Frame, FrameSet, FrameKinds
    <2>2. f.k = "endblock" /\ f.s = s /\ f.owed = <<>>
      BY DEF Frame
    <2> HIDE DEF f
    <2> QED BY <2>1, <2>2 DEF FrameOK, NodeOf, OwedBy
  <1> HIDE DEF f, g
  <1>6. /\ HandlerFrames(items) /\ OwedIn(items) = OwedBy(f)
        /\ items # <<>> /\ ~AtSwitch(items[1])
    BY <1>1, <1>2, <1>4, <1>5, FramesPushed DEF AtOpen
  <1>7. scopes' \in Seq([Name -> Nat])
    BY <1>1, ScopesKept DEF IInv, Typed, TypeOK
  <1> HIDE DEF items
  <1> QED BY <1>1, <1>2, <1>5, <1>6, <1>7, QuietStep DEF AtOpen, FunctionUnchanged

(* The scope of a block is left.                                           *)
LEMMA EndBlockKeeps == ASSUME IInv, EndBlock PROVE IInv'
  <1>1. /\ status = "generating" /\ work # <<>> /\ Top.k = "endblock"
        /\ Continue(<<>>) /\ scopes' = PopScope(scopes)
        /\ LabelsUnchanged /\ FunctionUnchanged
        /\ prog' = prog /\ blocks' = blocks /\ insert' = insert /\ status' = status
    BY DEF EndBlock, AtFrame
  <1>2. OwedBy(Top) = {} /\ ~InCase(Top) /\ ~AtSwitch(Top)
    <2>1. Top.owed = <<>>
      BY <1>1, Begin DEF FrameOK
    <2> QED BY <1>1, <2>1 DEF OwedBy, InCase, AtSwitch
  <1> DEFINE items == <<>>
  <1>3. HandlerFrames(items) /\ OwedIn(items) = {} /\ items = <<>>
    BY <1>1, NothingPushed
  <1>4. scopes' \in Seq([Name -> Nat])
    BY <1>1, ScopesKept DEF IInv, Typed, TypeOK
  <1> HIDE DEF items
  <1> QED BY <1>1, <1>2, <1>3, <1>4, QuietStep DEF FunctionUnchanged

(* One more instruction that is not a terminator.                          *)
LEMMA StraightLineKeeps ==
    ASSUME IInv, status = "generating", work # <<>>, Top.k = "gen", OnlyBlocks,
           NEW i \in InstructionSet, ~IsTerminator(i),
           blocks' = Emit(blocks, insert, <<i>>), insert' = insert, Continue(<<>>)
    PROVE  IInv'
  <1> DEFINE instrs == <<i>>
             items  == <<>>
  <1>1. AtOpen
    BY NodeOpens
  <1>2. /\ blocks \in Seq(BlockSet) /\ Len(blocks) \in Nat
        /\ insert \in 1..Len(blocks)
        /\ ~AtSwitch(Top) => ~Closed(blocks, insert) \/ insert \in relabelled
    BY Begin
  <1>3. instrs \in Seq(InstructionSet) /\ Tidy(instrs) /\ ~Ends(instrs)
    BY OneInstruction
  <1>4. blocks' = Emit(blocks, insert, instrs)
    OBVIOUS
  <1> HIDE DEF instrs
  <1>5. /\ blocks' \in Seq(BlockSet) /\ Len(blocks') = Len(blocks)
        /\ \A c \in 1..Len(blocks) : c # insert => blocks'[c] = blocks[c]
        /\ Closed(blocks', insert) <=> Closed(blocks, insert)
        /\ ~Closed(blocks, insert) => Clean(blocks', insert)
    <2>1. PICK new : new = Emit(blocks, insert, instrs)
      OBVIOUS
    <2>2. /\ new \in Seq(BlockSet) /\ Len(new) = Len(blocks)
          /\ \A c \in 1..Len(blocks) : c # insert => new[c] = blocks[c]
          /\ Closed(new, insert) <=> Closed(blocks, insert) \/ Ends(instrs)
          /\ ~Closed(blocks, insert) /\ Tidy(instrs) => Clean(new, insert)
      BY <1>2, <1>3, <2>1, EmitProperties
    <2>3. blocks' = new
      BY <1>4, <2>1
    <2> QED BY <1>3, <2>2, <2>3
  <1>6. HandlerFrames(items) /\ OwedIn(items) = {} /\ items = <<>>
    BY NothingPushed
  <1> HIDE DEF items
  <1>7. Clean(blocks', insert) \/ insert \in relabelled
    BY <1>1, <1>2, <1>5 DEF AtOpen
  <1>8. HandlerSwitch(items)
    BY <1>1, <1>2, <1>5, <1>6
    DEF HandlerSwitch, AtOpen, OnlyBlocks, LabelsUnchanged
  <1> QED BY <1>1, <1>5, <1>6, <1>7, <1>8, InPlaceStep DEF AtOpen

(* Straight-line statements stay in the insertion block.                   *)
LEMMA GenStraightLineKeeps == ASSUME IInv, GenStraightLine PROVE IInv'
  <1>1. /\ status = "generating" /\ work # <<>> /\ Top.k = "gen" /\ OnlyBlocks
        /\ Top.s.kind \in StraightLine
        /\ blocks' = Emit(blocks, insert, <<Eval(Top.s.expr)>>)
        /\ insert' = insert /\ Continue(<<>>)
    BY DEF GenStraightLine, AtNode
  <1>2. Top.s.expr \in Expr
    BY <1>1, Begin DEF WellFormedNode
  <1>3. Eval(Top.s.expr) \in InstructionSet /\ ~IsTerminator(Eval(Top.s.expr))
    BY <1>2 DEF Eval, Instruction, InstructionSet, Ops, Terminators, IsTerminator,
                Optional
  <1> QED BY <1>1, <1>3, StraightLineKeeps

(* The innermost of the scopes that have a name.                           *)
LEMMA InnermostDeclaring ==
    ASSUME NEW sc \in Seq([Name -> Nat]), NEW n, Declaring(sc, n) # {}
    PROVE  \E i \in Declaring(sc, n) : \A j \in Declaring(sc, n) : j <= i
  <1> DEFINE R == {p \in Nat \X Nat : p[1] < p[2]}
             T == {Len(sc) - i : i \in Declaring(sc, n)}
  <1>1. Declaring(sc, n) \subseteq 1..Len(sc) /\ Len(sc) \in Nat
    BY LenProperties DEF Declaring
  <1>2. IsWellFoundedOn(R, Nat)
    BY NatLessThanWellFounded DEF OpToRel
  <1>3. T \subseteq Nat /\ T # {}
    BY <1>1
  <1> HIDE DEF R, T
  <1>4. PICK x \in T : \A y \in T : ~(<<y, x>> \in R)
    BY <1>2, <1>3, WFMin
  <1>5. \A y \in T : x <= y
    <2> SUFFICES ASSUME NEW y \in T, y < x PROVE FALSE
      BY <1>3
    <2>1. x \in Nat /\ y \in Nat
      BY <1>3
    <2>2. <<y, x>> \in R
      BY <2>1 DEF R
    <2> QED BY <1>4, <2>2
  <1>6. PICK i \in Declaring(sc, n) : x = Len(sc) - i
    BY DEF T
  <1>7. ASSUME NEW j \in Declaring(sc, n) PROVE j <= i
    <2>1. Len(sc) - j \in T
      BY DEF T
    <2> QED BY <1>1, <1>5, <1>6, <2>1
  <1> QED BY <1>7

(* A name's function is a position in funcs, or 0.                         *)
LEMMA LookupIsNat ==
    ASSUME NEW sc \in Seq([Name -> Nat]), NEW n \in Name, LookupSymbol(sc, n) # 0,
           NEW f, f = LookupSymbol(sc, n)
    PROVE  f \in Nat
  <1> DEFINE best == CHOOSE i \in Declaring(sc, n) :
                         \A j \in Declaring(sc, n) : j <= i
  <1>1. Declaring(sc, n) # {}
    BY DEF LookupSymbol
  <1>2. Declaring(sc, n) \subseteq 1..Len(sc) /\ Len(sc) \in Nat
    BY LenProperties DEF Declaring
  <1>3. best \in Declaring(sc, n)
    BY <1>1, InnermostDeclaring
  <1> QED BY <1>1, <1>2, <1>3 DEF LookupSymbol

(* So does a call; one to an unknown name stops the generator.             *)
LEMMA GenCallKeeps == ASSUME IInv, GenCall PROVE IInv'
  <1> DEFINE f == LookupSymbol(scopes, Top.s.name)
  <1>1. /\ status = "generating" /\ work # <<>> /\ Top.k = "gen"
        /\ Top.s.kind = "Call"
        /\ LabelsUnchanged /\ FunctionUnchanged
        /\ prog' = prog /\ scopes' = scopes /\ insert' = insert
        /\ \/ /\ f # 0 /\ blocks' = Emit(blocks, insert, <<CallTo(f)>>)
              /\ Continue(<<>>) /\ status' = status
           \/ f = 0 /\ status' = "error" /\ blocks' = blocks /\ work' = work
    BY DEF GenCall, AtNode
  <1>2. Top.s.name \in Name /\ scopes \in Seq([Name -> Nat])
    BY <1>1, Begin DEF WellFormedNode, IInv, Typed, TypeOK
  <1>3. CASE f # 0
    <2>1. f \in Nat
      BY <1>2, <1>3, LookupIsNat
    <2> HIDE DEF f
    <2>2. CallTo(f) \in InstructionSet /\ ~IsTerminator(CallTo(f))
      BY <2>1 DEF CallTo, Instruction, InstructionSet, Ops, Terminators, IsTerminator,
                  Optional
    <2> QED BY <1>1, <1>3, <2>2, StraightLineKeeps DEF OnlyBlocks
  <1>4. CASE f = 0
    <2> HIDE DEF f
    <2>1. /\ blocks' = blocks /\ work' = work /\ status' = "error"
          /\ funcs' = funcs /\ curFunc' = curFunc /\ labels' = labels
          /\ pending' = pending /\ relabelled' = relabelled
      BY <1>1, <1>4 DEF LabelsUnchanged, FunctionUnchanged
    <2>2. Typed'
      BY <1>1, <2>1 DEF IInv, Typed, TypeOK, FramesOK
    <2>3. Chained(work') /\ SwitchClosed' /\ Ended'
      BY <2>1 DEF IInv, SwitchClosed, Ended
    <2>4. Owed' = Owed /\ OwedToOneHandler'
      BY <1>1, <2>1 DEF IInv, Separate, OwedToOneHandler, Owed
    <2>5. OpenBlocksAreOwed' /\ Separate' /\ NothingAfterTerminator' /\ Unfilled'
      BY <1>1, <2>1, <2>4 DEF IInv, OpenBlocksAreOwed, Separate, HasTerminator,
         NothingAfterTerminator, Unfilled
    <2> QED BY <2>2, <2>3, <2>5 DEF IInv
  <1> QED BY <1>3, <1>4

(* The end of an arm: into merge, and the next arm or the default is next. *)
LEMMA EndArmKeeps == ASSUME IInv, EndArm PROVE IInv'
  <1> DEFINE items == <<>>
             to == Top.to[1]
  <1>1. /\ status = "generating" /\ work # <<>> /\ Top.k = "endarm" /\ OnlyBlocks
        /\ blocks' = FallTo(blocks, insert, to)
        /\ insert' = insert /\ Continue(<<>>)
    BY DEF EndArm, AtFrame
  <1>2. to \in Nat /\ Top.owed = <<>> /\ InCase(Top)
    <2>1. Len(Top.to) = 1 /\ Top.to \in Seq(Nat) /\ Top.owed = <<>>
      BY <1>1, Begin DEF FrameOK, FrameSet
    <2> QED BY <1>1, <2>1 DEF InCase
  <1>3. /\ blocks \in Seq(BlockSet) /\ insert \in 1..Len(blocks) /\ Len(blocks) \in Nat
        /\ Clean(blocks, insert) \/ insert \in relabelled
    BY <1>1, Begin
  <1> HIDE DEF to
  <1>4. /\ blocks' \in Seq(BlockSet) /\ Len(blocks') = Len(blocks)
        /\ \A c \in 1..Len(blocks) : c # insert => blocks'[c] = blocks[c]
        /\ Closed(blocks', insert)
        /\ Clean(blocks, insert) => Clean(blocks', insert)
    BY <1>1, <1>2, <1>3, FallToProperties
  <1>5. HandlerFrames(items) /\ OwedIn(items) = {} /\ items = <<>>
    BY <1>1, NothingPushed
  <1> HIDE DEF items
  <1>6. OwedBy(Top) = {}
    BY <1>2 DEF OwedBy
  <1>7. HandlerSwitch(items)
    BY <1>1, <1>2, <1>4, <1>5 DEF HandlerSwitch
  <1> QED BY <1>1, <1>3, <1>4, <1>5, <1>6, <1>7, InPlaceStep

(* The end of CASE: the default falls into merge, where code goes on.      *)
LEMMA EndCaseKeeps == ASSUME IInv, EndCase PROVE IInv'
  <1> DEFINE items == <<>>
             default == Top.owed[1]
             merge == Top.owed[2]
             jump == <<Br(merge)>>
  <1>1. /\ status = "generating" /\ work # <<>> /\ Top.k = "endcase" /\ OnlyBlocks
        /\ blocks' = Emit(blocks, default, jump)
        /\ insert' = merge /\ Continue(<<>>)
    BY DEF EndCase, AtFrame
  <1>2. /\ blocks \in Seq(BlockSet) /\ Len(blocks) \in Nat /\ insert \in 1..Len(blocks)
        /\ curFunc \in 1..Len(funcs) /\ Len(funcs) \in Nat
        /\ OwedBy(Top) \subseteq 1..Len(blocks) /\ insert \notin OwedBy(Top)
        /\ \A b \in OwedBy(Top) : ~Closed(blocks, b) \/ b \in relabelled
        /\ \A b \in 1..Len(blocks) : Clean(blocks, b) \/ b \in relabelled
        /\ AtSwitch(Top) => Closed(blocks, insert)
    BY <1>1, Begin
  <1>3. OwedBy(Top) = {default, merge} /\ default # merge /\ merge \in Nat
    <2>1. Top \in FrameSet /\ Len(Top.owed) = 2 /\ Top.owed[1] # Top.owed[2]
      BY <1>1, Begin DEF FrameOK
    <2>2. Top.owed \in Seq(Nat) /\ DOMAIN Top.owed = {1, 2}
      <3>1. Top.owed \in Seq(Nat)
        BY <2>1 DEF FrameSet
      <3> QED BY <2>1, <3>1
    <2>3. OwedBy(Top) = {Top.owed[1], Top.owed[2]} /\ Top.owed[2] \in Nat
      BY <2>2 DEF OwedBy
    <2> QED BY <2>1, <2>3
  <1>4. AtSwitch(Top) /\ ~InCase(Top)
    BY <1>1 DEF AtSwitch, InCase
  <1> HIDE DEF default, merge
  <1>5. jump \in Seq(InstructionSet) /\ Tidy(jump) /\ Ends(jump)
    BY <1>3, JumpCloses
  <1> HIDE DEF jump
  <1>6. /\ default \in 1..Len(blocks) /\ merge \in 1..Len(blocks)
        /\ insert # default /\ insert # merge
        /\ ~Closed(blocks, default) \/ default \in relabelled
        /\ ~Closed(blocks, merge) \/ merge \in relabelled
    BY <1>2, <1>3
  <1>7. /\ blocks' \in Seq(BlockSet) /\ Len(blocks') = Len(blocks)
        /\ \A c \in 1..Len(blocks) : c # default => blocks'[c] = blocks[c]
        /\ Closed(blocks', default)
        /\ ~Closed(blocks, default) => Clean(blocks', default)
    BY <1>1, <1>2, <1>5, <1>6, EmitProperties
  <1>8. \A c \in 1..Len(blocks) : c # default =>
            /\ Closed(blocks', c) <=> Closed(blocks, c)
            /\ Clean(blocks', c) <=> Clean(blocks, c)
    BY <1>7 DEF Closed, Clean
  <1>9. HandlerFrames(items) /\ OwedIn(items) = {} /\ items = <<>>
    BY <1>1, NothingPushed
  <1> HIDE DEF items
  <1>10. New = {} /\ Mine = {insert, default, merge}
    BY <1>2, <1>3, <1>7 DEF New, Mine
  <1>11. /\ labels' = labels /\ pending' = pending /\ relabelled' = relabelled
         /\ status' = status /\ prog' = prog /\ funcs' = funcs /\ curFunc' = curFunc
         /\ scopes' = scopes
    BY <1>1 DEF OnlyBlocks, LabelsUnchanged, FunctionUnchanged
  <1>12. /\ funcs \in Seq(Optional(Node)) /\ labels \in [Name -> Nat]
         /\ scopes \in Seq([Name -> Nat])
         /\ relabelled \subseteq Nat /\ pending \subseteq 1..Len(blocks)
         /\ insert \notin pending /\ pending \cap Owed = {}
    BY DEF IInv, Typed, TypeOK, Separate
  <1>13. merge \notin pending
    BY <1>1, <1>3, <1>12, OthersOwe
  <1>14. HandlerTypes
    BY <1>1, <1>2, <1>6, <1>7, <1>11, <1>12 DEF HandlerTypes
  <1>15. HandlerBlocks(items)
    <2>1. \A b \in 1..Len(blocks) : Closed(blocks, b) => Closed(blocks', b)
      BY <1>7, <1>8
    <2>2. \A b \in (1..Len(blocks)) \ Mine :
            /\ Closed(blocks', b) => Closed(blocks, b)
            /\ Clean(blocks, b) => Clean(blocks', b)
      BY <1>8, <1>10
    <2>3. /\ Closed(blocks', insert) /\ (Clean(blocks', insert) \/ insert \in relabelled')
          /\ Closed(blocks', default) /\ (Clean(blocks', default) \/ default \in relabelled')
          /\ merge = insert' /\ (Clean(blocks', merge) \/ merge \in relabelled')
      BY <1>1, <1>2, <1>3, <1>4, <1>6, <1>7, <1>8, <1>11
    <2>4. \A b \in Mine : /\ \/ Closed(blocks', b)
                             \/ b \in {insert'} \cup OwedIn(items) \cup pending'
                          /\ Clean(blocks', b) \/ b \in relabelled'
      BY <1>10, <2>3
    <2> QED BY <1>9, <1>11, <2>1, <2>2, <2>4 DEF HandlerBlocks
  <1>16. HandlerOwed(items)
    BY <1>1, <1>9, <1>10, <1>11, <1>13 DEF HandlerOwed
  <1>17. HandlerSwitch(items)
    BY <1>1, <1>3, <1>4, <1>6, <1>8, <1>9, <1>11 DEF HandlerSwitch
  <1> QED BY <1>1, <1>9, <1>14, <1>15, <1>16, <1>17, HandlerStep DEF Handler

(* The frames a CASE pushes: one for each arm, then its end.               *)
LEMMA ArmFrame ==
    ASSUME NEW s \in Node, s.kind = "Case", NEW i \in DOMAIN s.stmts, i \in Nat,
           NEW b \in Nat, NEW p \in Nat, NEW m \in Nat,
           NEW nb \in Nat, NEW nf \in Nat,
           NEW f, f = Frame("arm", s, <<b, p, i, m>>, <<>>)
    PROVE  f \in FrameSet /\ f.k = "arm" /\ f.owed = <<>> /\ FrameOK(f, nb, nf)
  <1>1. /\ <<b, p, i, m>> \in Seq(Nat) /\ <<b, p, i, m>>[3] = i
        /\ Len(<<b, p, i, m>>) = 4
    OBVIOUS
  <1>2. f \in FrameSet
    BY <1>1 DEF Frame, FrameSet, FrameKinds
  <1>3. f.k = "arm" /\ f.s = s /\ f.owed = <<>> /\ f.to = <<b, p, i, m>>
    BY DEF Frame
  <1>4. OwedBy(f) = {}
    BY <1>3 DEF OwedBy
  <1>5. FrameOK(f, nb, nf)
    BY <1>1, <1>3, <1>4 DEF FrameOK, NodeOf
  <1> QED BY <1>2, <1>3, <1>5

(* The arms and the end of a CASE, together on the stack.                  *)
LEMMA ArmFrames ==
    ASSUME NEW nb \in Nat, NEW nf \in Nat, NEW arms \in Seq(FrameSet),
           \A i \in DOMAIN arms : /\ arms[i].k = "arm" /\ arms[i].owed = <<>>
                                  /\ FrameOK(arms[i], nb, nf),
           NEW f \in FrameSet, f.k = "endcase", FrameOK(f, nb, nf)
    PROVE  /\ arms \o <<f>> \in Seq(FrameSet) /\ FramesOK(arms \o <<f>>, nb, nf)
           /\ Apart(arms \o <<f>>)
           /\ Linked(arms \o <<f>>, FALSE) /\ OwedIn(arms \o <<f>>) = OwedBy(f)
           /\ arms \o <<f>> # <<>> /\ AtSwitch((arms \o <<f>>)[1])
  <1> DEFINE n == Len(arms)
             items == arms \o <<f>>
  <1>1. n \in Nat /\ DOMAIN arms = 1..n
    BY LenProperties
  <1>2. <<f>> \in Seq(FrameSet) /\ DOMAIN <<f>> = {1} /\ <<f>>[1] = f /\ Len(<<f>>) = 1
    OBVIOUS
  <1>6. /\ items \in Seq(FrameSet) /\ DOMAIN items = 1..(n + 1)
        /\ \A i \in 1..n : items[i] = arms[i]
        /\ items[n + 1] = f
    BY <1>1, <1>2, ConcatElements
  <1> HIDE DEF n, items
  <1>7. \A i \in 1..n : /\ FrameOK(items[i], nb, nf) /\ items[i].k = "arm"
                        /\ items[i].owed = <<>>
    BY <1>1, <1>6
  <1>8. \A i \in DOMAIN items : i \in 1..n \/ i = n + 1
    BY <1>1, <1>6
  <1>9. FramesOK(items, nb, nf)
    BY <1>6, <1>7, <1>8 DEF FramesOK
  <1>10. /\ \A i \in 1..n : OwedBy(items[i]) = {}
         /\ n + 1 \in DOMAIN items
    <2>1. ASSUME NEW i \in 1..n PROVE OwedBy(items[i]) = {}
      <3>1. items[i].owed = <<>>
        BY <1>7
      <3> QED BY <3>1 DEF OwedBy
    <2>2. n + 1 \in 1..(n + 1)
      BY <1>1
    <2> QED BY <1>6, <2>1, <2>2
  <1>11. OwedIn(items) = OwedBy(f)
    <2>1. ASSUME NEW x \in OwedIn(items) PROVE x \in OwedBy(f)
      <3>1. PICK i \in DOMAIN items : x \in OwedBy(items[i])
        BY DEF OwedIn
      <3> QED BY <1>6, <1>8, <1>10, <3>1
    <2>2. OwedBy(f) \subseteq OwedIn(items)
      BY <1>6, <1>10 DEF OwedIn
    <2> QED BY <2>1, <2>2
  <1>12. Apart(items)
    BY <1>1, <1>6, <1>8, <1>10 DEF Apart
  <1>13. Linked(items, FALSE)
    <2>1. ASSUME NEW i \in 1..n
          PROVE  InCase(items[i]) /\ i + 1 \in DOMAIN items /\ AtSwitch(items[i + 1])
      <3>1. items[i].k = "arm" /\ i + 1 \in DOMAIN items
        <4>1. i + 1 \in 1..(n + 1)
          BY <1>1
        <4> QED BY <1>6, <1>7, <4>1
      <3>2. items[i + 1].k \in {"arm", "endcase"}
        BY <1>6, <1>7, <1>8, <3>1
      <3> QED BY <3>1, <3>2 DEF InCase, AtSwitch
    <2>2. ~InCase(items[n + 1]) /\ n + 2 \notin DOMAIN items
      BY <1>1, <1>6 DEF InCase
    <2>3. \A i \in DOMAIN items :
            InCase(items[i]) <=>
              IF i + 1 \in DOMAIN items THEN AtSwitch(items[i + 1]) ELSE FALSE
      <3> SUFFICES ASSUME NEW i \in DOMAIN items
                   PROVE  InCase(items[i]) <=>
                            IF i + 1 \in DOMAIN items THEN AtSwitch(items[i + 1])
                            ELSE FALSE
        OBVIOUS
      <3>1. CASE i \in 1..n
        BY <2>1, <3>1
      <3>2. CASE i = n + 1
        <4>1. i + 1 = n + 2
          BY <1>1, <3>2
        <4> QED BY <2>2, <3>2, <4>1
      <3> QED BY <1>8, <3>1, <3>2
    <2> QED BY <2>3 DEF Linked
  <1>14. 1 \in DOMAIN items /\ items # <<>>
    BY <1>1, <1>6, NonEmpty
  <1>15. AtSwitch(items[1])
    <2>1. items[1].k \in {"arm", "endcase"}
      BY <1>6, <1>7, <1>8, <1>14
    <2> QED BY <2>1 DEF AtSwitch
  <1> QED BY <1>6, <1>9, <1>11, <1>12, <1>13, <1>14, <1>15 DEF items

(* A switch is a tidy end of a block.                                      *)
LEMMA SwitchCloses ==
    ASSUME NEW e \in Expr, NEW to \in Nat
    PROVE  /\ <<Switch(e, to)>> \in Seq(InstructionSet)
           /\ Tidy(<<Switch(e, to)>>) /\ Ends(<<Switch(e, to)>>)
  <1>1. Switch(e, to) \in InstructionSet /\ IsTerminator(Switch(e, to))
    BY DEF Switch, Instruction, InstructionSet, Ops, Terminators, IsTerminator, Optional
  <1> QED BY <1>1, OneInstruction

(* CASE closes the insertion block with a switch and leaves it there.      *)
LEMMA GenCaseKeeps == ASSUME IInv, GenCase PROVE IInv'
  <1> DEFINE s == Top.s
             default == Fresh(1)
             merge == Fresh(2)
             at == Len(blocks[insert].ins) + 1
             f == Frame("endcase", s, <<>>, <<default, merge>>)
             arms == [i \in 1..Len(s.stmts) |->
                         Frame("arm", s, <<insert, at, i, merge>>, <<>>)]
             items == arms \o <<f>>
             close == <<Switch(s.expr, default)>>
  <1>1. /\ status = "generating" /\ work # <<>> /\ Top.k = "gen" /\ s.kind = "Case"
        /\ OnlyBlocks
        /\ blocks' = Emit(Create(blocks, 2, curFunc), insert, close)
        /\ insert' = insert /\ work' = items \o Tail(work)
    BY DEF GenCase, AtNode, Continue
  <1>2. /\ blocks \in Seq(BlockSet) /\ Len(blocks) \in Nat /\ insert \in 1..Len(blocks)
        /\ curFunc \in 1..Len(funcs) /\ Len(funcs) \in Nat /\ s \in Node
        /\ s.expr \in Expr /\ s.stmts \in Seq(Node)
        /\ \A b \in 1..Len(blocks) : Clean(blocks, b) \/ b \in relabelled
    BY <1>1, Begin DEF WellFormedNode
  <1>3. AtOpen
    BY <1>1, NodeOpens
  <1>4. at \in Nat /\ insert \in Nat
    <2>1. blocks[insert] \in BlockSet
      BY <1>2
    <2>2. blocks[insert].ins \in Seq(InstructionSet)
      BY <2>1 DEF BlockSet
    <2> QED BY <1>2, <2>2, LenProperties
  <1>5. /\ default = Len(blocks) + 1 /\ merge = Len(blocks) + 2
        /\ default \in Nat /\ merge \in Nat
    BY <1>2 DEF Fresh
  <1> HIDE DEF s, default, merge, at
  <1>6. close \in Seq(InstructionSet) /\ Tidy(close) /\ Ends(close)
    BY <1>2, <1>5, SwitchCloses
  <1> HIDE DEF close
  <1>7. /\ Built(blocks') /\ Len(blocks') = Len(blocks) + 2
        /\ \A b \in (Len(blocks) + 1)..(Len(blocks) + 2) : ~Closed(blocks', b)
    BY <1>1, <1>3, <1>6, EmitBuilds DEF AtOpen
  <1>8. /\ f \in FrameSet /\ f.k = "endcase" /\ OwedBy(f) = {default, merge}
        /\ FrameOK(f, Len(blocks'), Len(funcs))
    <2>1. /\ default \in 1..Len(blocks') /\ merge \in 1..Len(blocks')
          /\ default # merge /\ Len(blocks') \in Nat
      BY <1>2, <1>5, <1>7
    <2> QED BY <1>2, <2>1, FrameOwesTwo
  <1> HIDE DEF f
  <1>9. /\ items \in Seq(FrameSet) /\ FramesOK(items, Len(blocks'), Len(funcs))
        /\ Apart(items) /\ Linked(items, FALSE) /\ OwedIn(items) = OwedBy(f)
        /\ items # <<>> /\ AtSwitch(items[1])
    <2>1. Len(blocks') \in Nat
      BY <1>2, <1>7
    <2>2. ASSUME NEW i \in 1..Len(s.stmts)
          PROVE  /\ arms[i] \in FrameSet /\ arms[i].k = "arm" /\ arms[i].owed = <<>>
                 /\ FrameOK(arms[i], Len(blocks'), Len(funcs))
      <3>1. /\ s \in Node /\ s.kind = "Case" /\ i \in DOMAIN s.stmts /\ i \in Nat
            /\ Len(funcs) \in Nat
        BY <1>1, <1>2, LenProperties
      <3>2. arms[i] = Frame("arm", s, <<insert, at, i, merge>>, <<>>)
        OBVIOUS
      <3> HIDE DEF arms
      <3> QED BY <1>4, <1>5, <2>1, <3>1, <3>2, ArmFrame
    <2>3. arms \in Seq(FrameSet) /\ DOMAIN arms = 1..Len(s.stmts)
      <3>1. Len(s.stmts) \in Nat
        BY <1>2, LenProperties
      <3>2. \A i \in 1..Len(s.stmts) :
               Frame("arm", s, <<insert, at, i, merge>>, <<>>) \in FrameSet
        BY <2>2
      <3> QED BY <3>1, <3>2
    <2> HIDE DEF arms
    <2>4. \A i \in DOMAIN arms :
             /\ arms[i].k = "arm" /\ arms[i].owed = <<>>
             /\ FrameOK(arms[i], Len(blocks'), Len(funcs))
      BY <2>2, <2>3
    <2> DEFINE nb == Len(blocks')
               nf == Len(funcs)
    <2>5. nb \in Nat /\ nf \in Nat /\ f \in FrameSet /\ f.k = "endcase" /\ FrameOK(f, nb, nf)
      BY <1>2, <1>8, <2>1
    <2>6. \A i \in DOMAIN arms :
             arms[i].k = "arm" /\ arms[i].owed = <<>> /\ FrameOK(arms[i], nb, nf)
      BY <2>4
    <2>7. arms \in Seq(FrameSet)
      BY <2>3
    <2> HIDE DEF nb, nf
    <2>8. /\ arms \o <<f>> \in Seq(FrameSet) /\ FramesOK(arms \o <<f>>, nb, nf)
          /\ Apart(arms \o <<f>>) /\ Linked(arms \o <<f>>, FALSE)
          /\ OwedIn(arms \o <<f>>) = OwedBy(f)
          /\ arms \o <<f>> # <<>> /\ AtSwitch((arms \o <<f>>)[1])
      BY <2>5, <2>6, <2>7, ArmFrames
    <2> QED BY <2>8 DEF nb, nf
  <1> HIDE DEF items
  <1>10. /\ labels' = labels /\ pending' = pending /\ relabelled' = relabelled
         /\ status' = status /\ prog' = prog /\ funcs' = funcs /\ curFunc' = curFunc
         /\ scopes' = scopes
    BY <1>1 DEF OnlyBlocks, LabelsUnchanged, FunctionUnchanged
  <1>11. HandlerFrames(items)
    BY <1>1, <1>3, <1>9, <1>10 DEF HandlerFrames, AtOpen, Linked
  <1>12. New = {default, merge} /\ Mine = {insert, default, merge}
    BY <1>2, <1>3, <1>5, <1>7 DEF New, Mine, AtOpen
  <1>13. /\ funcs \in Seq(Optional(Node)) /\ labels \in [Name -> Nat]
         /\ scopes \in Seq([Name -> Nat])
         /\ relabelled \subseteq Nat /\ pending \subseteq 1..Len(blocks)
         /\ insert \notin pending /\ \A l \in Name : labels[l] \in 0..Len(blocks)
    BY DEF IInv, Typed, TypeOK, Separate
  <1>14. HandlerTypes
    BY <1>1, <1>2, <1>7, <1>10, <1>13 DEF HandlerTypes, Built
  <1>15. \A b \in 1..Len(blocks) : b # insert =>
            /\ Closed(blocks', b) <=> Closed(blocks, b)
            /\ Clean(blocks', b) <=> Clean(blocks, b)
    BY <1>7 DEF Built, Closed, Clean
  <1>16. /\ Closed(blocks', insert) /\ (Clean(blocks', insert) \/ insert \in relabelled)
         /\ ~Closed(blocks', default) /\ ~Closed(blocks', merge)
         /\ Clean(blocks', default) /\ Clean(blocks', merge)
    BY <1>2, <1>5, <1>7 DEF Built
  <1>17. HandlerBlocks(items)
    <2>1. \A b \in 1..Len(blocks) : Closed(blocks, b) => Closed(blocks', b)
      BY <1>15, <1>16
    <2>2. \A b \in (1..Len(blocks)) \ Mine :
            /\ Closed(blocks', b) => Closed(blocks, b)
            /\ Clean(blocks, b) => Clean(blocks', b)
      BY <1>12, <1>15
    <2>3. \A b \in Mine : /\ \/ Closed(blocks', b)
                             \/ b \in {insert'} \cup OwedIn(items) \cup pending'
                          /\ Clean(blocks', b) \/ b \in relabelled'
      BY <1>8, <1>9, <1>10, <1>12, <1>16
    <2>4. \A b \in OwedIn(items) \cup (pending' \ pending) :
             ~Closed(blocks', b) \/ b \in relabelled'
      BY <1>8, <1>9, <1>10, <1>16
    <2> QED BY <2>1, <2>2, <2>3, <2>4 DEF HandlerBlocks
  <1>18. HandlerOwed(items)
    <2>1. OwedIn(items) = {default, merge} /\ OwedIn(items) \subseteq Mine
      BY <1>8, <1>9, <1>12
    <2>2. default \notin 0..Len(blocks) /\ merge \notin 0..Len(blocks)
      BY <1>2, <1>5
    <2>3. insert' \notin OwedIn(items) /\ pending \cap OwedIn(items) = {}
      <3>1. insert # default /\ insert # merge
        BY <1>2, <1>5
      <3>2. default \notin pending /\ merge \notin pending
        BY <1>2, <1>5, <1>13
      <3> QED BY <1>1, <2>1, <3>1, <3>2
    <2>4. \A l \in Name : labels[l] \notin OwedIn(items)
      BY <1>13, <2>1, <2>2
    <2> QED BY <1>1, <1>10, <1>12, <1>13, <2>1, <2>3, <2>4 DEF HandlerOwed
  <1>19. HandlerSwitch(items)
    BY <1>1, <1>9, <1>16 DEF HandlerSwitch
  <1> QED BY <1>1, <1>11, <1>14, <1>17, <1>18, <1>19, HandlerStep DEF Handler

(* addCase on a switch wherever it is; it changes nothing where none is.   *)
LEMMA AddCaseAnywhere ==
    ASSUME NEW bs \in Seq(BlockSet), NEW b \in Nat, NEW p \in Nat,
           NEW value \in Nat, NEW to \in Nat,
           NEW new, new = AddCase(bs, b, p, value, to)
    PROVE  /\ new \in Seq(BlockSet) /\ Len(new) = Len(bs)
           /\ \A c \in 1..Len(bs) : /\ Closed(new, c) <=> Closed(bs, c)
                                    /\ Clean(bs, c) => Clean(new, c)
  <1>1. DOMAIN bs = 1..Len(bs)
    BY LenProperties
  <1>2. CASE b \in 1..Len(bs) /\ p \in DOMAIN bs[b].ins
    BY <1>2, AddCaseProperties
  <1>3. CASE b \in 1..Len(bs) /\ p \notin DOMAIN bs[b].ins
    <2> DEFINE old == bs[b].ins
               switch == [old[p] EXCEPT !.arg = Append(old[p].arg, value),
                                        !.to  = Append(old[p].to, to)]
    <2>1. new = [bs EXCEPT ![b] = [bs[b] EXCEPT !.ins = [old EXCEPT ![p] = switch]]]
      BY DEF AddCase
    <2> HIDE DEF switch
    <2>2. bs[b] \in BlockSet
      BY <1>3
    <2>3. old \in Seq(InstructionSet)
      BY <2>2 DEF BlockSet
    <2>4. [old EXCEPT ![p] = switch] = old
      BY <1>3, <2>3
    <2>5. [bs[b] EXCEPT !.ins = old] = bs[b]
      BY <2>2 DEF BlockSet
    <2>6. new = bs
      <3>1. new = [bs EXCEPT ![b] = bs[b]]
        BY <2>1, <2>4, <2>5
      <3> QED BY <1>1, <1>3, <3>1
    <2> QED BY <2>6
  <1>4. CASE b \notin 1..Len(bs)
    <2>1. new = bs
      BY <1>1, <1>4 DEF AddCase
    <2> QED BY <2>1
  <1> QED BY <1>2, <1>3, <1>4

(* An arm: a node and the frame that ends it.                              *)
LEMMA ArmItems ==
    ASSUME NEW x \in Node, NEW f \in FrameSet, f.k = "endarm", f.owed = <<>>,
           NEW nb \in Nat, NEW nf \in Nat, FrameOK(f, nb, nf)
    PROVE  /\ <<Gen(x), f>> \in Seq(FrameSet) /\ FramesOK(<<Gen(x), f>>, nb, nf)
           /\ Apart(<<Gen(x), f>>) /\ Linked(<<Gen(x), f>>, TRUE)
           /\ OwedIn(<<Gen(x), f>>) = {}
           /\ <<Gen(x), f>> # <<>> /\ ~AtSwitch(<<Gen(x), f>>[1])
  <1> DEFINE gen == Gen(x)
  <1>1. gen \in FrameSet /\ gen.k = "gen" /\ gen.owed = <<>>
    BY DEF Gen, Frame, FrameSet, FrameKinds
  <1> HIDE DEF gen
  <1>2. OwedBy(gen) = {} /\ OwedBy(f) = {}
    BY <1>1 DEF OwedBy
  <1>3. FrameOK(gen, nb, nf)
    BY <1>1, <1>2 DEF FrameOK, NodeOf
  <1> DEFINE items == <<gen, f>>
  <1>4. /\ items \in Seq(FrameSet) /\ DOMAIN items = {1, 2} /\ items # <<>>
        /\ items[1] = gen /\ items[2] = f
    BY <1>1
  <1> HIDE DEF items
  <1>5. FramesOK(items, nb, nf) /\ Apart(items) /\ OwedIn(items) = {}
    BY <1>2, <1>3, <1>4 DEF FramesOK, Apart, OwedIn
  <1>6. /\ ~InCase(gen) /\ ~AtSwitch(gen) /\ InCase(f) /\ ~AtSwitch(f)
    BY <1>1 DEF InCase, AtSwitch
  <1>7. Linked(items, TRUE)
    <2>1. InCase(items[1]) <=> IF 2 \in DOMAIN items THEN AtSwitch(items[2]) ELSE TRUE
      BY <1>4, <1>6
    <2>2. InCase(items[2]) <=> IF 3 \in DOMAIN items THEN AtSwitch(items[3]) ELSE TRUE
      BY <1>4, <1>6
    <2> QED BY <1>4, <2>1, <2>2 DEF Linked
  <1> QED BY <1>4, <1>5, <1>6, <1>7 DEF items, gen

(* The values of a CASE in the selector's type, one for each arm.          *)
LEMMA CaseValuesProperties ==
    ASSUME NEW s \in Node, s.kind = "Case"
    PROVE  /\ CaseValues(s) \in Seq(Nat)
           /\ Len(CaseValues(s)) = Len(s.stmts) /\ Len(s.stmts) \in Nat
           /\ DOMAIN CaseValues(s) = 1..Len(s.stmts)
  <1> DEFINE vals == s.vals
             size == Modulus[s.expr]
             n == Len(s.stmts)
  <1>1. /\ vals \in Seq(Nat) /\ Len(vals) = n /\ s.expr \in Expr /\ s.stmts \in Seq(Node)
    BY NodeAssumption DEF WellFormed, WellFormedNode
  <1>2. n \in Nat /\ DOMAIN vals = 1..n
    BY <1>1, LenProperties
  <1>3. size \in Nat /\ size # 0
    BY <1>1, ModulusAssumption
  <1>4. CaseValues(s) = [i \in DOMAIN vals |-> vals[i] % size]
    BY DEF CaseValues, Truncated
  <1> HIDE DEF vals, size, n
  <1>5. ASSUME NEW i \in 1..n PROVE vals[i] % size \in Nat
    <2>1. vals[i] \in Nat
      BY <1>1, <1>2
    <2> QED BY <1>3, <2>1
  <1>6. CaseValues(s) \in [1..n -> Nat]
    BY <1>2, <1>4, <1>5
  <1>7. CaseValues(s) \in Seq(Nat) /\ Len(CaseValues(s)) = n
    BY <1>2, <1>6
  <1> QED BY <1>2, <1>6, <1>7 DEF n

(* An arm adds its case to the switch and fills a block of its own.        *)
LEMMA GenArmKeeps == ASSUME IInv, GenArm PROVE IInv'
  <1> DEFINE s == Top.s
             i == Top.to[3]
             x == s.stmts[i]
             armBB == Fresh(1)
             merge == Top.to[4]
             f == Frame("endarm", s, <<merge>>, <<>>)
             items == <<Gen(x), f>>
             mid == Create(blocks, 1, curFunc)
  <1>1. /\ status = "generating" /\ work # <<>> /\ Top.k = "arm" /\ OnlyBlocks
        /\ blocks' = AddCase(mid, Top.to[1], Top.to[2], CaseValues(s)[i], armBB)
        /\ insert' = armBB /\ work' = items \o Tail(work)
    BY DEF GenArm, AtFrame, Continue
  <1>2. /\ blocks \in Seq(BlockSet) /\ Len(blocks) \in Nat /\ insert \in 1..Len(blocks)
        /\ curFunc \in 1..Len(funcs) /\ curFunc \in Nat /\ Len(funcs) \in Nat /\ s \in Node
        /\ AtSwitch(Top) => Closed(blocks, insert)
        /\ \A b \in 1..Len(blocks) : Clean(blocks, b) \/ b \in relabelled
    BY <1>1, Begin
  <1>3. /\ Top \in FrameSet /\ Len(Top.to) = 4 /\ i \in DOMAIN s.stmts
        /\ Top.owed = <<>> /\ s.kind = "Case"
    BY <1>1, Begin DEF FrameOK, NodeOf
  <1>4. /\ s.stmts \in Seq(Node) /\ CaseValues(s) \in Seq(Nat)
        /\ DOMAIN CaseValues(s) = 1..Len(s.stmts)
    <2>1. s.stmts \in Seq(Node)
      BY <1>1, <1>3, Begin DEF WellFormedNode
    <2> HIDE DEF s
    <2> QED BY <1>2, <1>3, <2>1, CaseValuesProperties
  <1>5. /\ Top.to[1] \in Nat /\ Top.to[2] \in Nat /\ merge \in Nat
        /\ x \in Node /\ CaseValues(s)[i] \in Nat
    <2>1. Top.to \in Seq(Nat)
      BY <1>3 DEF FrameSet
    <2>2. Top.to[1] \in Nat /\ Top.to[2] \in Nat /\ merge \in Nat
      BY <1>3, <2>1
    <2>3. DOMAIN s.stmts = 1..Len(s.stmts)
      BY <1>4, LenProperties
    <2> HIDE DEF i, s
    <2>4. x \in Node /\ CaseValues(s)[i] \in Nat
      BY <1>3, <1>4, <2>3
    <2> QED BY <2>2, <2>4
  <1>6. armBB = Len(blocks) + 1 /\ armBB \in Nat
    BY <1>2 DEF Fresh
  <1>7. AtSwitch(Top) /\ InCase(Top) /\ OwedBy(Top) = {}
    BY <1>1, <1>3 DEF AtSwitch, InCase, OwedBy
  <1> DEFINE n == 1
             v == CaseValues(s)[i]
             c == Top.to[1]
             p == Top.to[2]
  <1>8. n \in Nat /\ n = 1 /\ mid = Create(blocks, n, curFunc)
        /\ blocks' = AddCase(mid, c, p, v, armBB) /\ v \in Nat /\ c \in Nat /\ p \in Nat
    BY <1>1, <1>5
  <1> HIDE DEF armBB, n, mid, merge, x, v, c, p, s
  <1>9. /\ mid \in Seq(BlockSet) /\ Len(mid) = Len(blocks) + n
        /\ \A b \in 1..Len(blocks) : mid[b] = blocks[b]
        /\ \A b \in (Len(blocks) + 1)..(Len(blocks) + n) :
              ~Closed(mid, b) /\ Clean(mid, b)
    <2>1. /\ Create(blocks, n, curFunc) \in Seq(BlockSet)
          /\ Len(Create(blocks, n, curFunc)) = Len(blocks) + n
          /\ \A b \in 1..Len(blocks) : Create(blocks, n, curFunc)[b] = blocks[b]
          /\ \A b \in (Len(blocks) + 1)..(Len(blocks) + n) :
                /\ ~Closed(Create(blocks, n, curFunc), b)
                /\ Clean(Create(blocks, n, curFunc), b)
      BY <1>2, <1>8, CreateProperties
    <2>2. mid = Create(blocks, n, curFunc)
      BY <1>8
    <2> QED BY <2>1, <2>2, Zenon
  <1>10. /\ blocks' \in Seq(BlockSet) /\ Len(blocks') = Len(mid)
         /\ \A b \in 1..Len(mid) : /\ Closed(blocks', b) <=> Closed(mid, b)
                                   /\ Clean(mid, b) => Clean(blocks', b)
    BY <1>6, <1>8, <1>9, AddCaseAnywhere
  <1>11. Len(blocks') = Len(blocks) + 1 /\ Len(blocks') \in Nat /\ New = {armBB}
    BY <1>2, <1>6, <1>8, <1>9, <1>10 DEF New
  <1>12. \A b \in 1..Len(blocks) : /\ Closed(blocks', b) <=> Closed(blocks, b)
                                   /\ Clean(blocks, b) => Clean(blocks', b)
    <2> SUFFICES ASSUME NEW b \in 1..Len(blocks)
                 PROVE  /\ Closed(blocks', b) <=> Closed(blocks, b)
                        /\ Clean(blocks, b) => Clean(blocks', b)
      OBVIOUS
    <2>1. b \in 1..Len(mid) /\ mid[b] = blocks[b]
      BY <1>2, <1>8, <1>9
    <2> QED BY <1>10, <2>1 DEF Closed, Clean
  <1>13. ~Closed(blocks', armBB) /\ Clean(blocks', armBB)
    <2>1. armBB \in 1..Len(mid) /\ armBB \in (Len(blocks) + 1)..(Len(blocks) + n)
      BY <1>2, <1>6, <1>8, <1>9
    <2> QED BY <1>9, <1>10, <2>1
  <1>14. /\ f \in FrameSet /\ f.k = "endarm" /\ f.owed = <<>>
         /\ FrameOK(f, Len(blocks'), Len(funcs))
    <2>1. f = Frame("endarm", s, <<merge>>, <<>>) /\ f.owed = <<>>
      BY DEF Frame
    <2> HIDE DEF f
    <2>2. f \in FrameSet /\ f.k = "endarm" /\ FrameOK(f, Len(blocks'), Len(funcs))
      BY <1>2, <1>5, <1>11, <2>1, FrameOwesNone
    <2> QED BY <2>1, <2>2
  <1> HIDE DEF f
  <1>15. /\ items \in Seq(FrameSet) /\ FramesOK(items, Len(blocks'), Len(funcs))
         /\ Apart(items) /\ Linked(items, TRUE) /\ OwedIn(items) = {}
         /\ items # <<>> /\ ~AtSwitch(items[1])
    BY <1>2, <1>5, <1>11, <1>14, ArmItems
  <1> HIDE DEF items
  <1>16. /\ labels' = labels /\ pending' = pending /\ relabelled' = relabelled
         /\ status' = status /\ prog' = prog /\ funcs' = funcs /\ curFunc' = curFunc
         /\ scopes' = scopes
    BY <1>1 DEF OnlyBlocks, LabelsUnchanged, FunctionUnchanged
  <1>17. HandlerFrames(items)
    BY <1>1, <1>7, <1>15, <1>16 DEF HandlerFrames, Linked
  <1>18. /\ funcs \in Seq(Optional(Node)) /\ labels \in [Name -> Nat]
         /\ scopes \in Seq([Name -> Nat])
         /\ relabelled \subseteq Nat /\ pending \subseteq 1..Len(blocks)
    BY DEF IInv, Typed, TypeOK
  <1>19. insert' \in 1..Len(blocks') /\ insert' \notin pending
    BY <1>1, <1>2, <1>6, <1>11, <1>18
  <1>20. HandlerTypes
    BY <1>1, <1>2, <1>10, <1>11, <1>16, <1>18, <1>19 DEF HandlerTypes
  <1>21. HandlerBlocks(items)
    <2>1. Mine = {insert, armBB}
      BY <1>7, <1>11 DEF Mine
    <2>2. \A b \in Mine : /\ \/ Closed(blocks', b)
                             \/ b \in {insert'} \cup OwedIn(items) \cup pending'
                          /\ Clean(blocks', b) \/ b \in relabelled'
      BY <1>1, <1>2, <1>7, <1>12, <1>13, <1>16, <2>1
    <2> QED BY <1>12, <1>15, <1>16, <2>2 DEF HandlerBlocks
  <1>22. HandlerOwed(items)
    BY <1>1, <1>11, <1>15, <1>16, <1>19 DEF HandlerOwed, Mine
  <1>23. HandlerSwitch(items)
    BY <1>1, <1>13, <1>15 DEF HandlerSwitch
  <1> QED BY <1>1, <1>17, <1>20, <1>21, <1>22, <1>23, HandlerStep DEF Handler

(***************************************************************************)
(* GOTO and labels.                                                        *)
(***************************************************************************)
LEMMA LabelStep ==
    ASSUME IInv, status = "generating", work # <<>>, AtOpen, Built(blocks'),
           FunctionUnchanged, prog' = prog, scopes' = scopes, status' = status,
           NEW items, HandlerFrames(items), OwedIn(items) = {},
           items = <<>> \/ ~AtSwitch(items[1]),
           labels' \in [Name -> Nat],
           \A l \in Name : labels'[l] \in {0, labels[l]} \cup New,
           insert' \in 1..Len(blocks'),
           insert' \in New \/ \E l \in Name : insert' = labels[l],
           pending' \subseteq pending \cup New,
           pending \subseteq pending' \cup {insert'}, insert' \notin pending',
           relabelled \subseteq relabelled', relabelled' \subseteq Nat,
           ~Closed(blocks', insert') \/ insert' \in relabelled',
           \A b \in New : ~Closed(blocks', b) /\ b \in {insert'} \cup pending'
    PROVE  IInv'
  <1>1. /\ blocks \in Seq(BlockSet) /\ Len(blocks) \in Nat /\ insert \in 1..Len(blocks)
        /\ curFunc \in 1..Len(funcs) /\ Len(funcs) \in Nat
        /\ \A b \in 1..Len(blocks) : Clean(blocks, b) \/ b \in relabelled
    BY Begin
  <1>2. funcs' = funcs /\ curFunc' = curFunc
    BY DEF FunctionUnchanged
  <1>3. Mine = {insert} \cup New
    BY DEF Mine, AtOpen
  <1>4. /\ blocks' \in Seq(BlockSet) /\ Len(blocks') \in Nat /\ Len(blocks) <= Len(blocks')
        /\ Closed(blocks', insert)
        /\ Clean(blocks', insert) \/ insert \in relabelled
        /\ \A b \in New : Clean(blocks', b)
    BY DEF Built, New
  <1>5. \A b \in 1..Len(blocks) : b # insert =>
            /\ Closed(blocks', b) <=> Closed(blocks, b)
            /\ Clean(blocks', b) <=> Clean(blocks, b)
    BY DEF Built, Closed, Clean
  <1>6. /\ funcs \in Seq(Optional(Node)) /\ scopes \in Seq([Name -> Nat])
        /\ pending \subseteq 1..Len(blocks)
    BY DEF IInv, Typed, TypeOK
  <1>7. HandlerTypes
    <2>1. pending' \subseteq 1..Len(blocks')
      BY <1>1, <1>4, <1>6 DEF New
    <2> QED BY <1>1, <1>2, <1>4, <1>6, <2>1 DEF HandlerTypes
  <1>8. HandlerBlocks(items)
    <2>1. \A b \in 1..Len(blocks) : Closed(blocks, b) => Closed(blocks', b)
      BY <1>4, <1>5
    <2>2. \A b \in (1..Len(blocks)) \ Mine :
            /\ Closed(blocks', b) => Closed(blocks, b)
            /\ Clean(blocks, b) => Clean(blocks', b)
      BY <1>3, <1>5
    <2>3. \A b \in Mine : /\ \/ Closed(blocks', b)
                             \/ b \in {insert'} \cup OwedIn(items) \cup pending'
                          /\ Clean(blocks', b) \/ b \in relabelled'
      BY <1>3, <1>4
    <2>4. \A b \in OwedIn(items) \cup (pending' \ pending) :
             ~Closed(blocks', b) \/ b \in relabelled'
      OBVIOUS
    <2> QED BY <2>1, <2>2, <2>3, <2>4 DEF HandlerBlocks
  <1>9. HandlerOwed(items)
    BY <1>3 DEF HandlerOwed
  <1>10. HandlerSwitch(items)
    BY DEF HandlerSwitch, AtOpen
  <1> QED BY <1>7, <1>8, <1>9, <1>10, HandlerStep DEF Handler

(* GOTO branches to a block that has one, or announces one.                *)
LEMMA GenGotoKeeps == ASSUME IInv, GenGoto PROVE IInv'
  <1> DEFINE l == Top.s.name
             jump(b) == <<Br(b)>>
             closed == Emit(blocks, insert, jump(labels[l]))
  <1>1. /\ status = "generating" /\ work # <<>> /\ Top.k = "gen"
        /\ Top.s.kind = "Goto" /\ Continue(<<>>) /\ FunctionUnchanged
        /\ prog' = prog /\ scopes' = scopes /\ status' = status
        /\ relabelled' = relabelled
        /\ \/ /\ labels[l] # 0
              /\ blocks' = Create(closed, 1, curFunc)
              /\ insert' = Fresh(1) /\ labels' = labels /\ pending' = pending
           \/ /\ labels[l] = 0
              /\ blocks' = Emit(Create(blocks, 2, curFunc), insert, jump(Fresh(1)))
              /\ labels' = [labels EXCEPT ![l] = Fresh(1)]
              /\ pending' = pending \cup {Fresh(1)}
              /\ insert' = Fresh(2)
    BY DEF GenGoto, AtNode
  <1>2. AtOpen /\ Len(blocks) \in Nat /\ l \in Name
    BY <1>1, Begin, NodeOpens DEF WellFormedNode
  <1>3. /\ labels \in [Name -> Nat] /\ pending \subseteq 1..Len(blocks)
        /\ relabelled \subseteq Nat
    BY DEF IInv, Typed, TypeOK
  <1>4. /\ Fresh(1) = Len(blocks) + 1 /\ Fresh(2) = Len(blocks) + 2
        /\ Fresh(1) \in Nat /\ labels[l] \in Nat
    BY <1>2, <1>3 DEF Fresh
  <1> HIDE DEF l
  <1>5. \A b \in Nat : /\ jump(b) \in Seq(InstructionSet)
                       /\ Tidy(jump(b)) /\ Ends(jump(b))
    BY JumpCloses
  <1> HIDE DEF jump
  <1>6. CASE labels[l] # 0
    <2>1. closed = Emit(blocks, insert, jump(labels[l])) /\ blocks' = Create(closed, 1, curFunc)
      BY <1>1, <1>6
    <2> HIDE DEF closed
    <2>2. Built(closed) /\ Len(closed) = Len(blocks)
      BY <1>1, <1>2, <1>4, <1>5, <2>1, EmitHere DEF AtOpen
    <2>3. /\ Built(blocks') /\ Len(blocks') = Len(closed) + 1
          /\ ~Closed(blocks', Len(closed) + 1)
      BY <1>1, <2>1, <2>2, CreateAfter
    <2>4. New = {insert'} /\ ~Closed(blocks', insert')
      BY <1>1, <1>2, <1>4, <1>6, <2>2, <2>3 DEF New
    <2>5. OnlyBlocks
      BY <1>1, <1>6 DEF OnlyBlocks, LabelsUnchanged
    <2> QED BY <1>1, <1>2, <2>3, <2>4, <2>5, BuilderReturns DEF AtOpen
  <1>7. CASE labels[l] = 0
    <2> DEFINE items == <<>>
               close == jump(Fresh(1))
    <2>1. /\ blocks' = Emit(Create(blocks, 2, curFunc), insert, close)
          /\ labels' = [labels EXCEPT ![l] = Fresh(1)]
          /\ pending' = pending \cup {Fresh(1)} /\ insert' = Fresh(2)
      BY <1>1, <1>7
    <2>2. HandlerFrames(items) /\ OwedIn(items) = {} /\ items = <<>>
      BY <1>1, NothingPushed
    <2>3. close \in Seq(InstructionSet) /\ Tidy(close) /\ Ends(close)
      BY <1>4, <1>5
    <2> HIDE DEF items, close
    <2>4. /\ Built(blocks') /\ Len(blocks') = Len(blocks) + 2
          /\ \A b \in (Len(blocks) + 1)..(Len(blocks) + 2) : ~Closed(blocks', b)
      BY <1>1, <1>2, <2>1, <2>3, EmitBuilds DEF AtOpen
    <2>5. New = {Fresh(1), Fresh(2)} /\ Fresh(1) # Fresh(2)
      BY <1>2, <1>4, <2>4 DEF New
    <2>6. ~Closed(blocks', Fresh(1)) /\ ~Closed(blocks', Fresh(2))
      BY <1>2, <1>4, <2>4
    <2>7. labels' \in [Name -> Nat] /\ \A k \in Name : labels'[k] \in {0, labels[k]} \cup New
      BY <1>2, <1>3, <1>4, <2>1, <2>5
    <2>8. Fresh(2) \notin pending /\ insert' \in 1..Len(blocks')
      BY <1>2, <1>3, <1>4, <2>1, <2>4
    <2> QED BY <1>1, <1>2, <1>3, <2>1, <2>2, <2>4, <2>5, <2>6, <2>7, <2>8, LabelStep
  <1> QED BY <1>6, <1>7

(* A label's block becomes the insertion point: it is new, or announced by *)
(* a GOTO, or it is being placed a second time.                            *)
LEMMA GenLabelKeeps == ASSUME IInv, GenLabel PROVE IInv'
  <1> DEFINE l == Top.s.name
             x == Top.s.stmts[1]
             items == <<Gen(x)>>
             b == labels[l]
  <1>1. /\ status = "generating" /\ work # <<>> /\ Top.k = "gen"
        /\ Top.s.kind = "Label" /\ Continue(items) /\ FunctionUnchanged
        /\ prog' = prog /\ scopes' = scopes /\ status' = status
        /\ \/ /\ b # 0 /\ blocks' = FallTo(blocks, insert, b)
              /\ insert' = b /\ pending' = pending \ {b}
              /\ relabelled' = IF b \in pending THEN relabelled
                               ELSE relabelled \cup {b}
              /\ labels' = labels
           \/ /\ b = 0 /\ blocks' = FallTo(Create(blocks, 1, curFunc), insert, Fresh(1))
              /\ insert' = Fresh(1)
              /\ labels' = [labels EXCEPT ![l] = Fresh(1)]
              /\ pending' = pending /\ relabelled' = relabelled
    BY DEF GenLabel, AtNode
  <1>2. AtOpen /\ Len(blocks) \in Nat /\ l \in Name /\ x \in Node /\ Len(funcs) \in Nat
    BY <1>1, Begin, NodeOpens DEF WellFormedNode
  <1>3. /\ labels \in [Name -> Nat] /\ pending \subseteq 1..Len(blocks)
        /\ relabelled \subseteq Nat /\ insert \notin pending
        /\ \A k \in Name : labels[k] \in 0..Len(blocks)
        /\ \A c \in pending : ~Closed(blocks, c) \/ c \in relabelled
    BY DEF IInv, Typed, TypeOK, Separate, Unfilled
  <1>4. b \in Nat /\ b \in 0..Len(blocks)
    BY <1>2, <1>3
  <1>5. Fresh(1) = Len(blocks) + 1 /\ Fresh(1) \in Nat
    BY <1>2 DEF Fresh
  <1>6. ASSUME Len(blocks') \in Nat
        PROVE  /\ HandlerFrames(items) /\ OwedIn(items) = {}
               /\ items # <<>> /\ ~AtSwitch(items[1])
    <2>1. funcs' = funcs /\ ~InCase(Top)
      BY <1>1, <1>2 DEF FunctionUnchanged, AtOpen
    <2> HIDE DEF x
    <2> QED BY <1>1, <1>2, <1>6, <2>1, NodePushed
  <1> HIDE DEF items, l, x
  <1>7. CASE b # 0
    <2>1. Built(blocks') /\ Len(blocks') = Len(blocks)
      BY <1>1, <1>4, <1>7, FallToHere
    <2>2. /\ HandlerFrames(items) /\ OwedIn(items) = {}
          /\ items # <<>> /\ ~AtSwitch(items[1])
      BY <1>2, <1>6, <2>1
    <2>3. New = {}
      BY <1>2, <2>1 DEF New
    <2>4. insert' = b /\ insert' \in 1..Len(blocks') /\ labels' = labels
          /\ pending' = pending \ {b}
      BY <1>1, <1>2, <1>4, <1>7, <2>1
    <2>5. /\ relabelled \subseteq relabelled' /\ relabelled' \subseteq Nat
          /\ b \notin pending => b \in relabelled'
      BY <1>1, <1>3, <1>4, <1>7
    <2>6. b \in pending => ~Closed(blocks', b) \/ b \in relabelled'
      <3> SUFFICES ASSUME b \in pending PROVE ~Closed(blocks', b) \/ b \in relabelled'
        OBVIOUS
      <3>1. b # insert /\ b \in 1..Len(blocks)
        BY <1>3
      <3>2. blocks'[b] = blocks[b]
        BY <2>1, <3>1 DEF Built
      <3> QED BY <1>3, <2>5, <3>2 DEF Closed
    <2> HIDE DEF b
    <2>7. \E k \in Name : insert' = labels[k]
      BY <1>2, <2>4 DEF b
    <2> QED BY <1>1, <1>2, <1>3, <2>1, <2>2, <2>3, <2>4, <2>5, <2>6, <2>7, LabelStep
  <1>8. CASE b = 0
    <2> DEFINE n == 1
    <2>1. /\ blocks' = FallTo(Create(blocks, n, curFunc), insert, Fresh(1))
          /\ n \in Nat /\ n = 1
      BY <1>1, <1>8
    <2> HIDE DEF n
    <2>2. /\ Built(blocks') /\ Len(blocks') = Len(blocks) + n
          /\ \A c \in (Len(blocks) + 1)..(Len(blocks) + n) : ~Closed(blocks', c)
      BY <1>1, <1>5, <2>1, FallToBuilds
    <2>3. /\ insert' = Fresh(1) /\ labels' = [labels EXCEPT ![l] = Fresh(1)]
          /\ pending' = pending /\ relabelled' = relabelled
      BY <1>1, <1>8
    <2>4. New = {insert'} /\ ~Closed(blocks', insert') /\ Len(blocks') \in Nat
      BY <1>2, <1>5, <2>1, <2>2, <2>3 DEF New
    <2>5. /\ HandlerFrames(items) /\ OwedIn(items) = {}
          /\ items # <<>> /\ ~AtSwitch(items[1])
      BY <1>6, <2>4
    <2>6. labels' \in [Name -> Nat] /\ \A k \in Name : labels'[k] \in {0, labels[k]} \cup New
      BY <1>2, <1>3, <1>5, <2>3, <2>4
    <2>7. insert' \notin pending /\ insert' \in 1..Len(blocks')
      BY <1>2, <1>3, <1>5, <2>1, <2>2, <2>3
    <2> QED BY <1>1, <1>2, <1>3, <2>2, <2>3, <2>4, <2>5, <2>6, <2>7, LabelStep
  <1> QED BY <1>7, <1>8

(***************************************************************************)
(* Procedures.                                                             *)
(***************************************************************************)
(* The body is generated in its own blocks while the frame on the stack    *)
(* owes the block the caller was filling.                                  *)
LEMMA GenProcKeeps == ASSUME IInv, GenProc PROVE IInv'
  <1> DEFINE s == Top.s
             fn == Len(funcs) + 1
             f == Frame("endproc", s, <<curFunc>>, <<insert>>)
             g == GenAll(s.decls) \o GenAll(s.stmts)
             items == g \o <<f>>
             n == 1
  <1>1. /\ status = "generating" /\ work # <<>> /\ Top.k = "gen" /\ s.kind = "Proc"
        /\ funcs' = Append(funcs, <<s>>)
        /\ scopes' = PushScope(SetSymbol(scopes, s.name, fn))
        /\ blocks' = Create(blocks, n, fn) /\ n \in Nat /\ n = 1
        /\ insert' = Fresh(1) /\ curFunc' = fn /\ labels' = NoLabels
        /\ Continue(items)
        /\ prog' = prog /\ status' = status /\ pending' = pending
        /\ relabelled' = relabelled
    BY DEF GenProc, AtNode
  <1>2. /\ blocks \in Seq(BlockSet) /\ Len(blocks) \in Nat /\ insert \in 1..Len(blocks)
        /\ curFunc \in 1..Len(funcs) /\ curFunc \in Nat /\ Len(funcs) \in Nat
        /\ s \in Node /\ AtOpen
        /\ s.decls \in Seq(Node) /\ s.stmts \in Seq(Node) /\ s.name \in Name
        /\ ~AtSwitch(Top) => ~Closed(blocks, insert) \/ insert \in relabelled
        /\ \A b \in 1..Len(blocks) : Clean(blocks, b) \/ b \in relabelled
    BY <1>1, Begin, NodeOpens DEF WellFormedNode
  <1>3. /\ funcs \in Seq(Optional(Node)) /\ scopes \in Seq([Name -> Nat])
        /\ relabelled \subseteq Nat /\ pending \subseteq 1..Len(blocks)
        /\ insert \notin pending
    BY DEF IInv, Typed, TypeOK, Separate
  <1> HIDE DEF s, n
  <1>4. fn \in Nat /\ fn = Len(funcs) + 1
    BY <1>2
  <1> HIDE DEF fn
  <1>5. funcs' \in Seq(Optional(Node)) /\ Len(funcs') = fn
    <2>1. <<s>> \in Optional(Node)
      BY <1>2 DEF Optional
    <2> QED BY <1>1, <1>3, <1>4, <2>1, AppendProperties
  <1>6. /\ blocks' \in Seq(BlockSet) /\ Len(blocks') = Len(blocks) + n
        /\ \A b \in 1..Len(blocks) : blocks'[b] = blocks[b]
        /\ \A b \in (Len(blocks) + 1)..(Len(blocks) + n) :
              ~Closed(blocks', b) /\ Clean(blocks', b)
    <2>1. n \in Nat
      BY <1>1
    <2>2. /\ Create(blocks, n, fn) \in Seq(BlockSet)
          /\ Len(Create(blocks, n, fn)) = Len(blocks) + n
          /\ \A b \in 1..Len(blocks) : Create(blocks, n, fn)[b] = blocks[b]
          /\ \A b \in (Len(blocks) + 1)..(Len(blocks) + n) :
                ~Closed(Create(blocks, n, fn), b) /\ Clean(Create(blocks, n, fn), b)
      BY <1>2, <1>4, <2>1, CreateProperties
    <2> QED BY <1>1, <2>2
  <1>7. /\ Fresh(1) = Len(blocks) + 1 /\ Len(blocks') = Len(blocks) + 1
        /\ Len(blocks') \in Nat /\ New = {Fresh(1)}
    BY <1>1, <1>2, <1>6 DEF New, Fresh
  <1>8. GenNodes(g)
    BY <1>2, GenAllFrames, GenNodesConcat
  <1>9. /\ f \in FrameSet /\ f.k = "endproc" /\ OwedBy(f) = {insert}
        /\ FrameOK(f, Len(blocks'), Len(funcs'))
    <2> DEFINE k == "endproc"
               nb == Len(blocks')
               nf == Len(funcs')
    <2>1. /\ s.kind = NodeOf[k]
          /\ k \in {"endwhile", "endfor", "endrepeat", "endproc"}
      BY <1>1 DEF NodeOf
    <2>2. f = Frame(k, s, <<curFunc>>, <<insert>>) /\ k = "endproc"
      OBVIOUS
    <2>3. nb \in Nat /\ nf \in Nat /\ insert \in 1..nb /\ curFunc \in 1..nf
      BY <1>2, <1>4, <1>5, <1>7
    <2>4. s \in Node /\ curFunc \in Nat
      BY <1>2
    <2> HIDE DEF k, f, nb, nf
    <2>5. /\ Frame(k, s, <<curFunc>>, <<insert>>) \in FrameSet
          /\ Frame(k, s, <<curFunc>>, <<insert>>).k = k
          /\ OwedBy(Frame(k, s, <<curFunc>>, <<insert>>)) = {insert}
          /\ FrameOK(Frame(k, s, <<curFunc>>, <<insert>>), nb, nf)
      BY <2>1, <2>3, <2>4, LoopFrame
    <2> QED BY <2>2, <2>5 DEF nb, nf
  <1> HIDE DEF f, g
  <1>10. /\ HandlerFrames(items) /\ OwedIn(items) = {insert}
         /\ items # <<>> /\ ~AtSwitch(items[1])
    <2>1. ~InCase(Top) /\ Len(funcs') \in Nat
      BY <1>2, <1>4, <1>5 DEF AtOpen
    <2> QED BY <1>1, <1>7, <1>8, <1>9, <2>1, FramesPushed
  <1> HIDE DEF items
  <1>11. Mine = {insert, Fresh(1)}
    BY <1>2, <1>7 DEF Mine, AtOpen
  <1>12. scopes' \in Seq([Name -> Nat])
    BY <1>1, <1>2, <1>3, <1>4, ScopesKept
  <1>13. HandlerTypes
    <2>1. labels' \in [Name -> Nat]
      BY <1>1 DEF NoLabels
    <2>2. Len(funcs) <= Len(funcs') /\ curFunc' \in 1..Len(funcs')
      BY <1>1, <1>2, <1>4, <1>5
    <2>3. Len(blocks) <= Len(blocks') /\ insert' \in 1..Len(blocks')
      BY <1>1, <1>2, <1>7
    <2>4. pending' \subseteq 1..Len(blocks')
      BY <1>1, <1>2, <1>3, <1>7
    <2> QED BY <1>1, <1>3, <1>5, <1>6, <1>12, <2>1, <2>2, <2>3, <2>4 DEF HandlerTypes
  <1>14. /\ \A b \in 1..Len(blocks) : /\ Closed(blocks', b) <=> Closed(blocks, b)
                                      /\ Clean(blocks', b) <=> Clean(blocks, b)
         /\ ~Closed(blocks', Fresh(1)) /\ Clean(blocks', Fresh(1))
    BY <1>1, <1>2, <1>6, <1>7 DEF Closed, Clean
  <1>15. HandlerBlocks(items)
    <2>1. \A b \in Mine : /\ b \in {insert'} \cup OwedIn(items) \cup pending'
                          /\ Clean(blocks', b) \/ b \in relabelled'
      BY <1>1, <1>2, <1>10, <1>11, <1>14
    <2>2. \A b \in OwedIn(items) \cup (pending' \ pending) :
             ~Closed(blocks', b) \/ b \in relabelled'
      BY <1>1, <1>2, <1>10, <1>14 DEF AtOpen
    <2> QED BY <1>14, <2>1, <2>2 DEF HandlerBlocks
  <1>16. HandlerOwed(items)
    <2>1. insert' \notin pending /\ insert' # insert
      BY <1>1, <1>2, <1>3, <1>7
    <2>2. \A l \in Name : labels'[l] = 0 /\ labels'[l] # insert
      BY <1>1, <1>2 DEF NoLabels
    <2> QED BY <1>1, <1>3, <1>10, <1>11, <2>1, <2>2 DEF HandlerOwed
  <1>17. HandlerSwitch(items)
    BY <1>1, <1>10, <1>14 DEF HandlerSwitch
  <1> QED BY <1>1, <1>10, <1>13, <1>15, <1>16, <1>17, HandlerStep DEF Handler

(* A return the end of a body adds when the insertion block has none: the  *)
(* invariant tells that an open insertion block holds no terminator.       *)
LEMMA DefaultReturnCloses ==
    ASSUME NEW bs \in Seq(BlockSet), NEW b \in 1..Len(bs), NEW i \in InstructionSet,
           IsTerminator(i), Clean(bs, b) \/ b \in relabelled,
           NEW to, to = IF Terminated(bs, b) THEN bs ELSE Emit(bs, b, <<i>>)
    PROVE  /\ to \in Seq(BlockSet) /\ Len(to) = Len(bs)
           /\ \A c \in 1..Len(bs) : c # b => to[c] = bs[c]
           /\ Closed(to, b) /\ (Clean(to, b) \/ b \in relabelled)
  <1> DEFINE instrs == <<i>>
  <1>1. instrs \in Seq(InstructionSet) /\ Tidy(instrs) /\ Ends(instrs)
    BY OneInstruction
  <1>2. bs[b].ins \in Seq(InstructionSet)
    <2>1. bs[b] \in BlockSet
      OBVIOUS
    <2> QED BY <2>1 DEF BlockSet
  <1>3. Len(bs[b].ins) \in Nat /\ DOMAIN bs[b].ins = 1..Len(bs[b].ins)
    BY <1>2, LenProperties
  <1>4. CASE Terminated(bs, b)
    <2>1. Closed(bs, b)
      <3>1. Len(bs[b].ins) \in DOMAIN bs[b].ins
        BY <1>2, <1>3, <1>4, EmptySeq DEF Terminated
      <3> QED BY <1>4, <3>1 DEF Terminated, Closed, Ends
    <2> QED BY <1>4, <2>1
  <1>5. CASE ~Terminated(bs, b)
    <2>1. to = Emit(bs, b, instrs)
      BY <1>5
    <2> HIDE DEF instrs
    <2>2. Clean(bs, b) => ~Closed(bs, b)
      <3> SUFFICES ASSUME Clean(bs, b), Closed(bs, b) PROVE FALSE
        OBVIOUS
      <3>1. PICK j \in DOMAIN bs[b].ins : IsTerminator(bs[b].ins[j])
        BY DEF Closed, Ends
      <3>2. j = Len(bs[b].ins)
        BY <3>1 DEF Clean, Tidy
      <3>3. bs[b].ins # <<>>
        BY <3>1
      <3> QED BY <1>5, <3>1, <3>2, <3>3 DEF Terminated
    <2>3. /\ Emit(bs, b, instrs) \in Seq(BlockSet)
          /\ Len(Emit(bs, b, instrs)) = Len(bs)
          /\ \A c \in 1..Len(bs) : c # b => Emit(bs, b, instrs)[c] = bs[c]
          /\ Closed(Emit(bs, b, instrs), b) <=> Closed(bs, b) \/ Ends(instrs)
          /\ ~Closed(bs, b) /\ Tidy(instrs) => Clean(Emit(bs, b, instrs), b)
      BY <1>1, EmitProperties, Zenon
    <2> QED BY <1>1, <2>1, <2>2, <2>3
  <1> QED BY <1>4, <1>5

(* The body gets its default return and the caller's block is filled again. *)
LEMMA EndProcKeeps == ASSUME IInv, EndProc PROVE IInv'
  <1> DEFINE ret == DefaultReturn(Top.s)
             back == Top.owed[1]
             items == <<>>
  <1>1. /\ status = "generating" /\ work # <<>> /\ Top.k = "endproc"
        /\ blocks' = IF Terminated(blocks, insert) THEN blocks
                     ELSE Emit(blocks, insert, <<ret>>)
        /\ scopes' = PopScope(scopes) /\ curFunc' = Top.to[1] /\ insert' = back
        /\ Continue(<<>>) /\ LabelsUnchanged
        /\ prog' = prog /\ funcs' = funcs /\ status' = status
    BY DEF EndProc, AtFrame
  <1>2. /\ blocks \in Seq(BlockSet) /\ Len(blocks) \in Nat /\ insert \in 1..Len(blocks)
        /\ Len(funcs) \in Nat
        /\ OwedBy(Top) \subseteq 1..Len(blocks) /\ insert \notin OwedBy(Top)
        /\ \A b \in OwedBy(Top) : ~Closed(blocks, b) \/ b \in relabelled
        /\ \A b \in 1..Len(blocks) : Clean(blocks, b) \/ b \in relabelled
    BY <1>1, Begin
  <1>3. Top.to[1] \in 1..Len(funcs)
    BY <1>1, Begin DEF FrameOK
  <1>4. OneExit
    BY <1>1, OneExitOwed
  <1>5. ret \in InstructionSet /\ IsTerminator(ret)
    <2>1. <<>> \in Optional(Expr)
      BY DEF Optional
    <2> QED BY <2>1, Returns DEF DefaultReturn
  <1>6. HandlerFrames(items) /\ OwedIn(items) = {} /\ items = <<>>
    BY <1>1, NothingPushed
  <1>7. OwedBy(Top) = {back} /\ back \in 1..Len(blocks) /\ ~InCase(Top) /\ insert # back
    BY <1>2, <1>4 DEF OneExit
  <1> HIDE DEF ret, items, back
  <1>8. /\ blocks' \in Seq(BlockSet) /\ Len(blocks') = Len(blocks)
        /\ \A c \in 1..Len(blocks) : c # insert => blocks'[c] = blocks[c]
        /\ Closed(blocks', insert)
        /\ Clean(blocks', insert) \/ insert \in relabelled
    BY <1>1, <1>2, <1>5, DefaultReturnCloses
  <1>9. \A b \in 1..Len(blocks) : b # insert =>
            /\ Closed(blocks', b) <=> Closed(blocks, b)
            /\ Clean(blocks', b) <=> Clean(blocks, b)
    BY <1>8 DEF Closed, Clean
  <1>10. New = {} /\ Mine = {insert, back}
    BY <1>2, <1>7, <1>8 DEF New, Mine
  <1>11. labels' = labels /\ pending' = pending /\ relabelled' = relabelled
    BY <1>1 DEF LabelsUnchanged
  <1>12. /\ funcs \in Seq(Optional(Node)) /\ labels \in [Name -> Nat]
         /\ scopes \in Seq([Name -> Nat])
         /\ relabelled \subseteq Nat /\ pending \subseteq 1..Len(blocks)
         /\ pending \cap Owed = {}
    BY DEF IInv, Typed, TypeOK, Separate
  <1>13. back \notin pending
    BY <1>1, <1>7, <1>12, OthersOwe
  <1>14. HandlerTypes
    <2>1. scopes' \in Seq([Name -> Nat])
      BY <1>1, <1>12, ScopesKept
    <2> QED BY <1>1, <1>2, <1>3, <1>7, <1>8, <1>11, <1>12, <2>1 DEF HandlerTypes
  <1>15. HandlerBlocks(items)
    <2>1. \A b \in 1..Len(blocks) : Closed(blocks, b) => Closed(blocks', b)
      BY <1>8, <1>9
    <2>2. \A b \in (1..Len(blocks)) \ Mine :
            /\ Closed(blocks', b) => Closed(blocks, b)
            /\ Clean(blocks, b) => Clean(blocks', b)
      BY <1>9, <1>10
    <2>3. \A b \in Mine : /\ \/ Closed(blocks', b)
                             \/ b \in {insert'} \cup OwedIn(items) \cup pending'
                          /\ Clean(blocks', b) \/ b \in relabelled'
      BY <1>1, <1>2, <1>7, <1>8, <1>9, <1>10, <1>11
    <2> QED BY <1>6, <1>11, <2>1, <2>2, <2>3 DEF HandlerBlocks
  <1>16. HandlerOwed(items)
    BY <1>1, <1>6, <1>10, <1>11, <1>13 DEF HandlerOwed
  <1>17. HandlerSwitch(items)
    BY <1>1, <1>2, <1>6, <1>7, <1>9, <1>11 DEF HandlerSwitch
  <1> QED BY <1>1, <1>6, <1>14, <1>15, <1>16, <1>17, HandlerStep DEF Handler

-----------------------------------------------------------------------------
(***************************************************************************)
(* The invariant.                                                          *)
(***************************************************************************)
(* main's entry block is open and the whole program is still to generate.  *)
LEMMA InitInvariant == ASSUME Init PROVE IInv
  <1> DEFINE block == [fn |-> 1, ins |-> <<>>]
             nothing == <<>>
             f == Gen(prog)
  <1>1. prog \in Node
    BY ProgramsAssumption DEF Init
  <1>2. block \in BlockSet /\ block.ins = nothing
    BY DEF BlockSet
  <1>3. nothing \in Optional(Node)
    BY DEF Optional
  <1> HIDE DEF block
  <1>4. /\ prog \in Programs /\ blocks = <<block>> /\ funcs = <<nothing>>
        /\ insert = 1 /\ curFunc = 1 /\ labels = NoLabels /\ scopes = <<NoSymbols>>
        /\ work = <<f>> /\ status = "generating" /\ pending = {} /\ relabelled = {}
    BY DEF Init, block
  <1> HIDE DEF nothing
  <1>5. /\ blocks \in Seq(BlockSet) /\ Len(blocks) = 1 /\ DOMAIN blocks = {1}
        /\ blocks[1] = block
        /\ funcs \in Seq(Optional(Node)) /\ Len(funcs) = 1 /\ DOMAIN funcs = {1}
    BY <1>2, <1>3, <1>4
  <1>6. /\ f \in FrameSet /\ f.k = "gen" /\ f.owed = <<>>
    BY <1>1 DEF Gen, Frame, FrameSet, FrameKinds
  <1> HIDE DEF f
  <1>7. work \in Seq(FrameSet) /\ DOMAIN work = {1} /\ work[1] = f
    BY <1>4, <1>6
  <1>8. OwedBy(f) = {} /\ Owed = {}
    BY <1>6, <1>7 DEF OwedBy, Owed
  <1>9. \A l \in Name : labels[l] = 0
    BY <1>4 DEF NoLabels
  <1>10. TypeOK
    <2>1. NoLabels \in [Name -> Nat] /\ NoSymbols \in [Name -> Nat]
      BY DEF NoLabels, NoSymbols
    <2>2. <<NoSymbols>> \in Seq([Name -> Nat])
      BY <2>1
    <2> QED BY <1>4, <1>5, <1>7, <2>1, <2>2 DEF TypeOK
  <1>11. Typed
    <2>1. FrameOK(f, Len(blocks), Len(funcs))
      BY <1>6, <1>8 DEF FrameOK, NodeOf
    <2> QED BY <1>4, <1>5, <1>7, <1>9, <1>10, <2>1 DEF Typed, FramesOK
  <1>12. ~Closed(blocks, 1)
    BY <1>2, <1>5 DEF Closed, Ends, nothing
  <1>13. Chained(work) /\ SwitchClosed
    <2>1. ~AtSwitch(f) /\ ~InCase(f)
      BY <1>6 DEF AtSwitch, InCase
    <2>2. Chained(work)
      <3>1. 2 \notin DOMAIN work
        BY <1>7
      <3> QED BY <1>7, <2>1, <3>1 DEF Chained, Linked
    <2> QED BY <1>4, <1>7, <1>12, <2>1, <2>2 DEF SwitchClosed, SwitchFirst
  <1>14. OpenBlocksAreOwed /\ NothingAfterTerminator
    <2>1. DOMAIN blocks[1].ins = {}
      BY <1>2, <1>5 DEF nothing
    <2> QED BY <1>4, <1>5, <2>1 DEF OpenBlocksAreOwed, NothingAfterTerminator
  <1>15. Separate /\ Unfilled /\ Ended
    <2>1. OwedToOneHandler
      BY <1>7, <1>8 DEF OwedToOneHandler
    <2> QED BY <1>4, <1>8, <2>1 DEF Separate, Unfilled, Ended
  <1> QED BY <1>11, <1>13, <1>14, <1>15 DEF IInv

(* generate closes main's last block, whatever verifyModule then says.     *)
LEMMA FinishKeeps == ASSUME IInv, Finish PROVE IInv'
  <1> DEFINE nothing == <<>>
             ret == Ret(nothing)
  <1>1. /\ status = "generating" /\ work = <<>>
        /\ blocks' = IF Terminated(blocks, insert) THEN blocks
                     ELSE Emit(blocks, insert, <<ret>>)
        /\ scopes' = PopScope(scopes)
        /\ status' \in {"verified", "rejected"}
        /\ prog' = prog /\ insert' = insert /\ work' = work
        /\ funcs' = funcs /\ curFunc' = curFunc /\ labels' = labels
        /\ pending' = pending /\ relabelled' = relabelled
    BY DEF Finish, LabelsUnchanged, FunctionUnchanged
  <1>2. /\ blocks \in Seq(BlockSet) /\ Len(blocks) \in Nat
        /\ DOMAIN blocks = 1..Len(blocks) /\ insert \in 1..Len(blocks)
        /\ scopes \in Seq([Name -> Nat])
    BY LenProperties DEF IInv, Typed, TypeOK
  <1>3. \A b \in 1..Len(blocks) : Clean(blocks, b) \/ b \in relabelled
    BY <1>2 DEF IInv, NothingAfterTerminator, Clean, Tidy
  <1>4. ret \in InstructionSet /\ IsTerminator(ret)
    <2>1. nothing \in Optional(Expr)
      BY DEF Optional
    <2> HIDE DEF nothing
    <2> QED BY <2>1, Returns
  <1> HIDE DEF ret
  <1>5. /\ blocks' \in Seq(BlockSet) /\ Len(blocks') = Len(blocks)
        /\ \A c \in 1..Len(blocks) : c # insert => blocks'[c] = blocks[c]
        /\ Closed(blocks', insert)
        /\ Clean(blocks', insert) \/ insert \in relabelled
    BY <1>1, <1>2, <1>3, <1>4, DefaultReturnCloses
  <1>6. DOMAIN blocks' = 1..Len(blocks)
    BY <1>5, LenProperties
  <1>7. Owed = {} /\ Owed' = {}
    BY <1>1 DEF Owed
  <1>8. scopes' \in Seq([Name -> Nat])
    BY <1>1, <1>2, ScopesKept
  <1>9. TypeOK'
    BY <1>1, <1>2, <1>5, <1>6, <1>8 DEF IInv, Typed, TypeOK
  <1>10. Typed'
    BY <1>1, <1>5, <1>9 DEF IInv, Typed, FramesOK
  <1>11. Chained(work') /\ SwitchClosed' /\ Ended'
    BY <1>1, <1>5 DEF IInv, SwitchClosed, Ended
  <1>12. OpenBlocksAreOwed'
    <2> SUFFICES ASSUME NEW b \in 1..Len(blocks), b # insert
                 PROVE  HasTerminator(b)' \/ b \in pending
      BY <1>1, <1>6 DEF OpenBlocksAreOwed
    <2>1. HasTerminator(b) \/ b \in pending
      BY <1>2, <1>7 DEF IInv, OpenBlocksAreOwed
    <2> QED BY <1>5, <2>1 DEF HasTerminator
  <1>13. Separate'
    <2>1. OwedToOneHandler'
      BY <1>1, <1>7 DEF OwedToOneHandler
    <2> QED BY <1>1, <1>7, <2>1 DEF IInv, Separate
  <1>14. \A b \in 1..Len(blocks) : Clean(blocks', b) \/ b \in relabelled
    BY <1>3, <1>5 DEF Clean
  <1>15. NothingAfterTerminator'
    BY <1>1, <1>6, <1>14 DEF NothingAfterTerminator, Clean, Tidy
  <1>16. Unfilled'
    <2> SUFFICES ASSUME NEW b \in pending PROVE ~Closed(blocks', b) \/ b \in relabelled
      BY <1>1, <1>7 DEF Unfilled
    <2>1. b # insert /\ b \in 1..Len(blocks)
      BY DEF IInv, Separate, Typed
    <2>2. ~Closed(blocks, b) \/ b \in relabelled
      BY DEF IInv, Unfilled
    <2> QED BY <1>5, <2>1, <2>2 DEF Closed
  <1> QED BY <1>10, <1>11, <1>12, <1>13, <1>15, <1>16 DEF IInv

(* Nothing changes.                                                        *)
LEMMA StutterKeeps == ASSUME IInv, UNCHANGED vars PROVE IInv'
  <1>1. /\ blocks' = blocks /\ funcs' = funcs /\ insert' = insert /\ curFunc' = curFunc
        /\ labels' = labels /\ scopes' = scopes /\ work' = work /\ status' = status
        /\ pending' = pending /\ relabelled' = relabelled /\ prog' = prog
    BY DEF vars
  <1>2. Owed' = Owed /\ OwedToOneHandler'
    BY <1>1 DEF IInv, Separate, OwedToOneHandler, Owed
  <1>3. Typed' /\ Chained(work') /\ SwitchClosed' /\ Ended'
    BY <1>1 DEF IInv, Typed, TypeOK, FramesOK, SwitchClosed, Ended
  <1>4. OpenBlocksAreOwed' /\ Separate' /\ NothingAfterTerminator' /\ Unfilled'
    BY <1>1, <1>2 DEF IInv, OpenBlocksAreOwed, Separate, HasTerminator,
       NothingAfterTerminator, Unfilled
  <1> QED BY <1>3, <1>4 DEF IInv

(* Every action preserves the invariant.                                   *)
LEMMA StepInvariant == ASSUME IInv, [Next]_vars PROVE IInv'
  <1>1. CASE GenBlock \/ EndBlock
    BY <1>1, GenBlockKeeps, EndBlockKeeps
  <1>2. CASE GenStraightLine \/ GenCall
    BY <1>2, GenStraightLineKeeps, GenCallKeeps
  <1>3. CASE GenIf \/ EndThen \/ EndElse
    BY <1>3, GenIfKeeps, EndThenKeeps, EndElseKeeps
  <1>4. CASE GenWhile \/ EndWhile \/ GenFor \/ EndFor
    BY <1>4, GenWhileKeeps, EndWhileKeeps, GenForKeeps, EndForKeeps
  <1>5. CASE GenDo \/ EndDo \/ GenRepeat \/ EndRepeat
    BY <1>5, GenDoKeeps, EndDoKeeps, GenRepeatKeeps, EndRepeatKeeps
  <1>6. CASE GenCase \/ GenArm \/ EndArm \/ EndCase
    BY <1>6, GenCaseKeeps, GenArmKeeps, EndArmKeeps, EndCaseKeeps
  <1>7. CASE GenReturn \/ GenGoto \/ GenLabel
    BY <1>7, GenReturnKeeps, GenGotoKeeps, GenLabelKeeps
  <1>8. CASE GenProc \/ GenForward \/ EndProc \/ Finish
    BY <1>8, GenProcKeeps, GenForwardKeeps, EndProcKeeps, FinishKeeps
  <1>9. CASE UNCHANGED vars
    BY <1>9, StutterKeeps
  <1> QED BY <1>1, <1>2, <1>3, <1>4, <1>5, <1>6, <1>7, <1>8, <1>9 DEF Next

(* The inductive invariant holds for every program, whatever its size.     *)
THEOREM BuilderInvariant == Spec => []IInv
  <1>1. Init => IInv
    BY InitInvariant
  <1>2. IInv /\ [Next]_vars => IInv'
    BY StepInvariant
  <1> QED BY <1>1, <1>2, PTL DEF Spec

(* Type correctness.                                                       *)
THEOREM BuilderTypeCorrect == Spec => []TypeOK
  <1>1. IInv => TypeOK
    BY DEF IInv, Typed
  <1> QED BY <1>1, BuilderInvariant, PTL

(* No handler emits behind a terminator, even those that do not look for   *)
(* one (pl11_codegen.cpp:437, :488): only a label defined twice does it.   *)
THEOREM BuilderNothingAfterTerminator == Spec => []NothingAfterTerminator
  <1>1. IInv => NothingAfterTerminator
    BY DEF IInv
  <1> QED BY <1>1, BuilderInvariant, PTL

(* No block is forgotten open by genStmt's recursion.                      *)
THEOREM BuilderOpenBlocksAreOwed == Spec => []OpenBlocksAreOwed
  <1>1. IInv => OpenBlocksAreOwed
    BY DEF IInv
  <1> QED BY <1>1, BuilderInvariant, PTL

(* No two activations of genStmt fill the same block.                      *)
THEOREM BuilderOwedToOneHandler == Spec => []OwedToOneHandler
  <1>1. IInv => OwedToOneHandler
    BY DEF IInv, Separate
  <1> QED BY <1>1, BuilderInvariant, PTL

(* What generate() hands to verifyModule has no block without a            *)
(* terminator but those of labels that are nowhere defined.                *)
THEOREM BuilderOnlyUnresolvedLabelsStayOpen == Spec => []OnlyUnresolvedLabelsStayOpen
  <1>1. IInv => OnlyUnresolvedLabelsStayOpen
    <2> SUFFICES ASSUME IInv, status \in {"verified", "rejected"},
                        NEW b \in DOMAIN blocks
                 PROVE  HasTerminator(b) \/ b \in pending
      BY DEF OnlyUnresolvedLabelsStayOpen
    <2>1. work = <<>> /\ Closed(blocks, insert)
      BY DEF IInv, Ended
    <2>2. Owed = {}
      BY <2>1 DEF Owed
    <2>3. HasTerminator(insert)
      BY <2>1 DEF Closed, Ends, HasTerminator
    <2> QED BY <2>2, <2>3 DEF IInv, OpenBlocksAreOwed
  <1> QED BY <1>1, BuilderInvariant, PTL

-----------------------------------------------------------------------------
(***************************************************************************)
(* Branches.  A branch stays in its function because a handler branches    *)
(* only between blocks of curFunc: those it creates, those its frame       *)
(* remembers, and those that labels_ has for the names it uses.            *)
(***************************************************************************)
Into(bs, fn, i) == \A j \in DOMAIN i.to : i.to[j] \in 1..Len(bs) /\ bs[i.to[j]].fn = fn
Local(bs) == \A b \in 1..Len(bs) : \A i \in DOMAIN bs[b].ins : Into(bs, bs[b].fn, bs[b].ins[i])
Ours(bs, t) == t \in 1..Len(bs) /\ bs[t].fn = curFunc

(* What a handler may have made of the blocks.                             *)
Grown(bs) == /\ bs \in Seq(BlockSet) /\ Len(bs) \in Nat /\ Len(blocks) <= Len(bs)
             /\ \A b \in 1..Len(blocks) : bs[b].fn = blocks[b].fn
             /\ \A b \in (Len(blocks) + 1)..Len(bs) : bs[b].fn = curFunc
             /\ Local(bs)

(* BasicBlock::Create puts the block into the function that it is given.   *)
LEMMA CreateBelongs ==
    ASSUME NEW bs \in Seq(BlockSet), NEW n \in Nat, NEW fn \in Nat
    PROVE  /\ Create(bs, n, fn) \in Seq(BlockSet)
           /\ Len(Create(bs, n, fn)) = Len(bs) + n
           /\ \A b \in 1..Len(bs) : Create(bs, n, fn)[b] = bs[b]
           /\ \A b \in (Len(bs) + 1)..(Len(bs) + n) :
                 Create(bs, n, fn)[b] = [fn |-> fn, ins |-> <<>>]
  <1> DEFINE block == [fn |-> fn, ins |-> <<>>]
             new == [i \in 1..n |-> block]
  <1>1. block \in BlockSet
    BY DEF BlockSet
  <1> HIDE DEF block
  <1>2. new \in Seq(BlockSet) /\ Len(new) = n /\ DOMAIN new = 1..n
        /\ \A i \in 1..n : new[i] = block
    BY <1>1
  <1>3. Create(bs, n, fn) = bs \o new
    BY DEF Create, block
  <1> HIDE DEF new
  <1>4. /\ bs \o new \in Seq(BlockSet)
        /\ Len(bs \o new) = Len(bs) + n
        /\ \A b \in 1..Len(bs) : (bs \o new)[b] = bs[b]
    BY <1>2, ConcatElements
  <1>5. ASSUME NEW b \in (Len(bs) + 1)..(Len(bs) + n)
        PROVE  (bs \o new)[b] = block
    <2>1. b - Len(bs) \in 1..n /\ Len(bs) \in Nat /\ b = Len(bs) + (b - Len(bs))
      BY LenProperties
    <2> QED BY <1>2, <2>1, ConcatElements
  <1> QED BY <1>3, <1>4, <1>5 DEF block

(* Creating blocks leaves every branch where it is.                        *)
LEMMA GrownCreate ==
    ASSUME NEW bs, Grown(bs), Len(blocks) \in Nat, NEW n \in Nat, curFunc \in Nat,
           NEW cs, cs = Create(bs, n, curFunc)
    PROVE  /\ Grown(cs) /\ Len(cs) = Len(bs) + n
           /\ \A t : Ours(bs, t) => Ours(cs, t)
           /\ \A t \in (Len(bs) + 1)..(Len(bs) + n) : Ours(cs, t)
  <1>1. bs \in Seq(BlockSet) /\ Len(bs) \in Nat /\ Len(blocks) <= Len(bs)
    BY DEF Grown
  <1> DEFINE new == [fn |-> curFunc, ins |-> <<>>]
  <1>2. /\ cs \in Seq(BlockSet) /\ Len(cs) = Len(bs) + n
        /\ \A b \in 1..Len(bs) : cs[b] = bs[b]
        /\ \A b \in (Len(bs) + 1)..(Len(bs) + n) : cs[b] = new
    <2> DEFINE f == curFunc
               ds == Create(bs, n, f)
    <2>1. f \in Nat /\ cs = ds /\ new = [fn |-> f, ins |-> <<>>]
      OBVIOUS
    <2> HIDE DEF f, new
    <2>2. /\ ds \in Seq(BlockSet)
          /\ Len(ds) = Len(bs) + n
          /\ \A b \in 1..Len(bs) : ds[b] = bs[b]
          /\ \A b \in (Len(bs) + 1)..(Len(bs) + n) : ds[b] = [fn |-> f, ins |-> <<>>]
      <3>1. \A m, h \in Nat :
              /\ Create(bs, m, h) \in Seq(BlockSet)
              /\ Len(Create(bs, m, h)) = Len(bs) + m
              /\ \A b \in 1..Len(bs) : Create(bs, m, h)[b] = bs[b]
              /\ \A b \in (Len(bs) + 1)..(Len(bs) + m) :
                    Create(bs, m, h)[b] = [fn |-> h, ins |-> <<>>]
        BY <1>1, CreateBelongs
      <3>2. n \in Nat /\ f \in Nat
        BY <2>1
      <3> QED BY <3>1, <3>2
    <2> HIDE DEF ds
    <2> QED BY <2>1, <2>2
  <1>3. new.fn = curFunc /\ DOMAIN new.ins = {}
    OBVIOUS
  <1> HIDE DEF new
  <1>4. \A b \in 1..Len(cs) : b \in 1..Len(bs) \/ b \in (Len(bs) + 1)..(Len(bs) + n)
    BY <1>1, <1>2
  <1>5. \A t \in 1..Len(bs) : t \in 1..Len(cs) /\ cs[t].fn = bs[t].fn
    BY <1>1, <1>2
  <1>6. Local(cs)
    <2> SUFFICES ASSUME NEW b \in 1..Len(cs), NEW i \in DOMAIN cs[b].ins
                 PROVE  Into(cs, cs[b].fn, cs[b].ins[i])
      BY DEF Local
    <2>1. b \in 1..Len(bs) /\ cs[b] = bs[b]
      BY <1>2, <1>3, <1>4
    <2>2. Into(bs, bs[b].fn, bs[b].ins[i])
      BY <2>1 DEF Grown, Local
    <2> QED BY <1>5, <2>1, <2>2 DEF Into
  <1>7. \A b \in 1..Len(blocks) : cs[b].fn = blocks[b].fn
    BY <1>1, <1>5 DEF Grown
  <1>8. \A b \in (Len(blocks) + 1)..Len(cs) : cs[b].fn = curFunc
    <2> TAKE b \in (Len(blocks) + 1)..Len(cs)
    <2>1. b \in 1..Len(cs)
      BY <1>1, <1>2
    <2>2. CASE b \in 1..Len(bs)
      <3>1. b \in (Len(blocks) + 1)..Len(bs)
        BY <1>1, <2>2
      <3> QED BY <1>5, <2>2, <3>1 DEF Grown
    <2>3. CASE b \in (Len(bs) + 1)..(Len(bs) + n)
      BY <1>2, <1>3, <2>3
    <2> QED BY <1>4, <2>1, <2>2, <2>3
  <1>9. \A t \in (Len(bs) + 1)..(Len(bs) + n) : t \in 1..Len(cs) /\ cs[t].fn = curFunc
    BY <1>1, <1>2, <1>3
  <1>10. Len(cs) \in Nat /\ Len(blocks) <= Len(cs)
    BY <1>1, <1>2
  <1> QED BY <1>2, <1>5, <1>6, <1>7, <1>8, <1>9, <1>10 DEF Grown, Ours

(* Emitting into a block of the function, with branches within it.         *)
LEMMA GrownEmit ==
    ASSUME NEW bs, Grown(bs), NEW b, Ours(bs, b), NEW instrs \in Seq(InstructionSet),
           \A i \in DOMAIN instrs : Into(bs, curFunc, instrs[i]),
           NEW cs, cs = Emit(bs, b, instrs)
    PROVE  /\ Grown(cs) /\ Len(cs) = Len(bs)
           /\ \A t : Ours(bs, t) => Ours(cs, t)
  <1>1. bs \in Seq(BlockSet) /\ Len(bs) \in Nat /\ b \in 1..Len(bs) /\ bs[b].fn = curFunc
    BY DEF Grown, Ours
  <1>2. bs[b] \in BlockSet
    BY <1>1
  <1>3. bs[b].ins \in Seq(InstructionSet)
    BY <1>2 DEF BlockSet
  <1> DEFINE old == bs[b].ins
             ins == old \o instrs
             new == [bs[b] EXCEPT !.ins = ins]
  <1>4. ins \in Seq(InstructionSet)
        /\ \A i \in DOMAIN ins : \/ i \in DOMAIN old /\ ins[i] = old[i]
                                 \/ i - Len(old) \in DOMAIN instrs
                                    /\ ins[i] = instrs[i - Len(old)]
    BY <1>3, ConcatElements
  <1>5. new \in BlockSet /\ new.ins = ins /\ new.fn = bs[b].fn
    BY <1>2, <1>4 DEF BlockSet
  <1>6. cs = [bs EXCEPT ![b] = new]
    BY DEF Emit
  <1> HIDE DEF new, ins
  <1>7. /\ cs \in Seq(BlockSet) /\ Len(cs) = Len(bs) /\ cs[b] = new
        /\ \A c \in 1..Len(bs) : c # b => cs[c] = bs[c]
    BY <1>1, <1>5, <1>6, ExceptSeq
  <1>8. \A c \in 1..Len(bs) : cs[c].fn = bs[c].fn
    BY <1>5, <1>7
  <1>9. \A fn, i : Into(bs, fn, i) => Into(cs, fn, i)
    BY <1>7, <1>8 DEF Into
  <1>10. Local(cs)
    <2> SUFFICES ASSUME NEW c \in 1..Len(bs), NEW i \in DOMAIN cs[c].ins
                 PROVE  Into(cs, cs[c].fn, cs[c].ins[i])
      BY <1>7 DEF Local
    <2>1. CASE c # b
      BY <1>7, <1>9, <2>1 DEF Grown, Local
    <2>2. CASE c = b
      <3>1. cs[c].ins = ins /\ cs[c].fn = curFunc
        BY <1>1, <1>5, <1>7, <2>2
      <3>2. \A k \in DOMAIN old : Into(bs, curFunc, old[k])
        BY <1>1 DEF Grown, Local
      <3>3. Into(bs, curFunc, ins[i])
        BY <1>4, <3>1, <3>2
      <3> QED BY <1>9, <3>1, <3>3
    <2> QED BY <2>1, <2>2
  <1>11. /\ \A c \in 1..Len(blocks) : cs[c].fn = blocks[c].fn
         /\ \A c \in (Len(blocks) + 1)..Len(cs) : cs[c].fn = curFunc
    <2>1. /\ \A c \in 1..Len(blocks) : c \in 1..Len(bs)
          /\ \A c \in (Len(blocks) + 1)..Len(cs) : c \in 1..Len(bs) 
      BY <1>1, <1>7, LenProperties DEF Grown
    <2> QED BY <1>7, <1>8, <2>1 DEF Grown
  <1> QED BY <1>1, <1>7, <1>8, <1>10, <1>11 DEF Grown, Ours

(* What the instructions branch to.                                        *)
LEMMA InstructionsInto ==
    ASSUME NEW bs
    PROVE  /\ \A e : Into(bs, curFunc, Eval(e)) /\ Into(bs, curFunc, Step(e))
                     /\ Into(bs, curFunc, CallTo(e)) /\ Into(bs, curFunc, Ret(e))
           /\ Into(bs, curFunc, RetVoid)
           /\ \A t : Ours(bs, t) => Into(bs, curFunc, Br(t))
           /\ \A e, t : Ours(bs, t) => Into(bs, curFunc, Switch(e, t))
           /\ \A e, t, u : Ours(bs, t) /\ Ours(bs, u) => Into(bs, curFunc, CondBr(e, t, u))
  <1>1. /\ \A e : Eval(e).to = <<>> /\ Step(e).to = <<>> /\ CallTo(e).to = <<>>
                  /\ Ret(e).to = <<>>
        /\ RetVoid.to = <<>>
        /\ \A t : Br(t).to = <<t>>
        /\ \A e, t : Switch(e, t).to = <<t>>
        /\ \A e, t, u : CondBr(e, t, u).to = <<t, u>>
    BY DEF Eval, Step, CallTo, Ret, RetVoid, Br, Switch, CondBr, Instruction
  <1>2. DOMAIN <<>> = {} /\ \A t : DOMAIN <<t>> = {1} /\ \A u : DOMAIN <<t, u>> = {1, 2}
    OBVIOUS
  <1> HIDE DEF Into
  <1>3. \A e : Into(bs, curFunc, Eval(e)) /\ Into(bs, curFunc, Step(e))
               /\ Into(bs, curFunc, CallTo(e)) /\ Into(bs, curFunc, Ret(e))
    BY <1>1, <1>2 DEF Into
  <1>4. Into(bs, curFunc, RetVoid)
    BY <1>1, <1>2 DEF Into
  <1>5. \A t : Ours(bs, t) => Into(bs, curFunc, Br(t))
    BY <1>1, <1>2 DEF Into, Ours
  <1>6. \A e, t : Ours(bs, t) => Into(bs, curFunc, Switch(e, t))
    BY <1>1, <1>2 DEF Into, Ours
  <1>7. \A e, t, u : Ours(bs, t) /\ Ours(bs, u) => Into(bs, curFunc, CondBr(e, t, u))
    BY <1>1, <1>2 DEF Into, Ours
  <1> QED BY <1>3, <1>4, <1>5, <1>6, <1>7

(* One instruction.                                                        *)
LEMMA GrownEmitOne ==
    ASSUME NEW bs, Grown(bs), NEW b, Ours(bs, b), NEW i \in InstructionSet,
           Into(bs, curFunc, i), NEW cs, cs = Emit(bs, b, <<i>>)
    PROVE  /\ Grown(cs) /\ Len(cs) = Len(bs)
           /\ \A t : Ours(bs, t) => Ours(cs, t)
  <1> DEFINE instrs == <<i>>
  <1>1. instrs \in Seq(InstructionSet) /\ \A k \in DOMAIN instrs : instrs[k] = i
    OBVIOUS
  <1>2. cs = Emit(bs, b, instrs)
    OBVIOUS
  <1> HIDE DEF instrs
  <1> QED BY <1>1, <1>2, GrownEmit

(* A branch where there is none yet.                                       *)
LEMMA GrownFallTo ==
    ASSUME NEW bs, Grown(bs), NEW b, Ours(bs, b), NEW to, Ours(bs, to),
           NEW cs, cs = FallTo(bs, b, to)
    PROVE  /\ Grown(cs) /\ Len(cs) = Len(bs)
           /\ \A t : Ours(bs, t) => Ours(cs, t)
  <1>1. CASE Terminated(bs, b)
    BY <1>1 DEF FallTo
  <1>2. CASE ~Terminated(bs, b)
    <2>0. to \in Nat
      BY DEF Grown, Ours
    <2>1. Br(to) \in InstructionSet
      BY <2>0 DEF Br, Instruction, InstructionSet, Ops, Terminators, Optional
    <2>2. cs = Emit(bs, b, <<Br(to)>>)
      BY <1>2 DEF FallTo
    <2> QED BY <2>1, <2>2, GrownEmitOne, InstructionsInto
  <1> QED BY <1>1, <1>2

(* addCase gives the switch one branch more.                               *)
LEMMA GrownAddCase ==
    ASSUME NEW bs, Grown(bs), NEW b, Ours(bs, b), NEW p \in Nat, NEW value \in Nat,
           NEW to, Ours(bs, to),
           NEW cs, cs = AddCase(bs, b, p, value, to)
    PROVE  /\ Grown(cs) /\ Len(cs) = Len(bs)
           /\ \A t : Ours(bs, t) => Ours(cs, t)
  <1>1. bs \in Seq(BlockSet) /\ Len(bs) \in Nat /\ b \in 1..Len(bs) /\ bs[b].fn = curFunc
    BY DEF Grown, Ours
  <1>2. bs[b] \in BlockSet /\ to \in Nat
    BY <1>1 DEF Ours
  <1> DEFINE old == bs[b].ins
             sw  == old[p]
             switch == [sw EXCEPT !.arg = Append(sw.arg, value),
                                  !.to  = Append(sw.to, to)]
             ins == [old EXCEPT ![p] = switch]
             new == [bs[b] EXCEPT !.ins = ins]
  <1>3. old \in Seq(InstructionSet) /\ DOMAIN old = 1..Len(old)
    <2>1. old \in Seq(InstructionSet)
      BY <1>2 DEF BlockSet
    <2> QED BY <2>1, LenProperties
  <1>4. cs = [bs EXCEPT ![b] = new]
    BY DEF AddCase
  <1>5. CASE p \notin DOMAIN old
    <2> HIDE DEF switch
    <2>1. ins = old
      BY <1>3, <1>5
    <2>2. new = bs[b]
      BY <1>2, <2>1 DEF BlockSet
    <2>3. cs = bs
      BY <1>1, <1>4, <2>2
    <2> QED BY <2>3
  <1>6. CASE p \in DOMAIN old
    <2>1. sw \in InstructionSet
      BY <1>3, <1>6
    <2>2. Into(bs, curFunc, sw)
      BY <1>1, <1>6 DEF Grown, Local
    <2>3. /\ switch \in InstructionSet /\ DOMAIN switch.to = 1..Len(sw.to) + 1
          /\ \A j \in 1..Len(sw.to) : j \in DOMAIN sw.to /\ switch.to[j] = sw.to[j]
          /\ switch.to[Len(sw.to) + 1] = to /\ Len(sw.to) \in Nat
      <3> DEFINE u == sw.to
      <3>1. u \in Seq(Nat) /\ sw.arg \in Seq(Nat)
        BY <2>1 DEF InstructionSet
      <3>2. /\ Append(u, to) \in Seq(Nat) /\ Len(u) \in Nat
            /\ Append(sw.arg, value) \in Seq(Nat)
            /\ DOMAIN Append(u, to) = 1..Len(u) + 1
            /\ \A j \in 1..Len(u) : j \in DOMAIN u /\ Append(u, to)[j] = u[j]
            /\ Append(u, to)[Len(u) + 1] = to
        <4> HIDE DEF sw, u
        <4> QED BY <1>2, <3>1, AppendProperties, LenProperties
      <3>3. switch.to = Append(u, to) /\ switch \in InstructionSet
        BY <2>1, <3>2 DEF InstructionSet
      <3> HIDE DEF switch
      <3> QED BY <3>2, <3>3
    <2>4. Into(bs, curFunc, switch)
      <3> HIDE DEF switch, sw
      <3>1. \A j \in 1..Len(sw.to) + 1 : j \in 1..Len(sw.to) \/ j = Len(sw.to) + 1
        BY <2>3
      <3> QED BY <2>2, <2>3, <3>1 DEF Into, Ours
    <2> HIDE DEF switch
    <2>5. /\ ins \in Seq(InstructionSet)
          /\ \A i \in DOMAIN ins : ins[i] = switch \/ (i \in DOMAIN old /\ ins[i] = old[i])
      BY <1>3, <1>6, <2>3, ExceptSeq
    <2> HIDE DEF ins
    <2>6. new \in BlockSet /\ new.ins = ins /\ new.fn = bs[b].fn
      BY <1>2, <2>5 DEF BlockSet
    <2> HIDE DEF new
    <2>7. /\ cs \in Seq(BlockSet) /\ Len(cs) = Len(bs) /\ cs[b] = new
          /\ \A c \in 1..Len(bs) : c # b => cs[c] = bs[c]
      BY <1>1, <1>4, <2>6, ExceptSeq
    <2>8. \A c \in 1..Len(bs) : cs[c].fn = bs[c].fn
      BY <2>6, <2>7
    <2>9. \A fn, i : Into(bs, fn, i) => Into(cs, fn, i)
      BY <2>7, <2>8 DEF Into
    <2>10. Local(cs)
      <3> SUFFICES ASSUME NEW c \in 1..Len(bs), NEW i \in DOMAIN cs[c].ins
                   PROVE  Into(cs, cs[c].fn, cs[c].ins[i])
        BY <2>7 DEF Local
      <3>1. CASE c # b
        BY <2>7, <2>9, <3>1 DEF Grown, Local
      <3>2. CASE c = b
        <4>1. cs[c].ins = ins /\ cs[c].fn = curFunc
          BY <1>1, <2>6, <2>7, <3>2
        <4>2. \A k \in DOMAIN old : Into(bs, curFunc, old[k])
          BY <1>1 DEF Grown, Local
        <4>3. Into(bs, curFunc, ins[i])
          BY <2>4, <2>5, <4>1, <4>2
        <4> QED BY <2>9, <4>1, <4>3
      <3> QED BY <3>1, <3>2
    <2>11. /\ \A c \in 1..Len(blocks) : cs[c].fn = blocks[c].fn
           /\ \A c \in (Len(blocks) + 1)..Len(cs) : cs[c].fn = curFunc
      <3>1. /\ \A c \in 1..Len(blocks) : c \in 1..Len(bs)
            /\ \A c \in (Len(blocks) + 1)..Len(cs) : c \in 1..Len(bs)
        BY <1>1, <2>7, LenProperties DEF Grown
      <3> QED BY <2>7, <2>8, <3>1 DEF Grown
    <2> QED BY <1>1, <2>7, <2>8, <2>10, <2>11 DEF Grown, Ours
  <1> QED BY <1>5, <1>6

-----------------------------------------------------------------------------
(***************************************************************************)
(* The programs in which no label is used at two depths of nesting: each   *)
(* has a set R of the nodes it is made of, with the depths at which they   *)
(* occur, for which LabelsApart(R, depth) holds.                           *)
(***************************************************************************)
LabelsAtOneDepth ==
    \A p \in Programs : \E R \in SUBSET (Node \X Nat), depth \in [Name -> Nat] :
        <<p, 0>> \in R /\ LabelsApart(R, depth)

(* The blocks a frame will fill or branch to.                              *)
Aims(f, t) == \/ t \in OwedBy(f)
              \/ f.k = "arm" /\ t \in {f.to[1], f.to[4]}
              \/ f.k \in {"endwhile", "endfor", "enddo", "endrepeat", "endarm"}
                 /\ t = f.to[1]

(* F[i] and D[i] are the function and the nesting depth of the i-th frame; *)
(* they change below the frame of a procedure.                             *)
Nested(F, D) ==
    /\ F[1] = curFunc
    /\ \A i \in 1..Len(work) :
          IF work[i].k = "endproc" THEN F[i + 1] = work[i].to[1] /\ D[i + 1] < D[i]
          ELSE F[i + 1] = F[i] /\ D[i + 1] = D[i]

FrameIn(R, f, fn, n) ==
    /\ \A t : Aims(f, t) =>
          /\ t \in 1..Len(blocks)
          /\ blocks[t].fn = IF f.k = "endproc" THEN f.to[1] ELSE fn
    /\ f.k # "endproc" => <<f.s, n>> \in R

FramesIn(R, F, D) == \A i \in 1..Len(work) : FrameIn(R, work[i], F[i], D[i])

(* What a finished procedure left in labels_ has a greater depth.          *)
LabelsIn(depth, n) ==
    \A l \in Name : labels[l] # 0 =>
        /\ depth[l] >= n
        /\ depth[l] = n => Ours(blocks, labels[l])

Within(R, depth, F, D) ==
    /\ Nested(F, D) /\ FramesIn(R, F, D) /\ LabelsIn(depth, D[1])
    /\ Ours(blocks, insert) /\ Local(blocks)

BInv(R, depth) == \E F, D \in [Nat -> Nat] : Within(R, depth, F, D)

(* The invariant; R and depth are those of the program.                    *)
BranchInv == \E R \in SUBSET (Node \X Nat), depth \in [Name -> Nat] :
                 LabelsApart(R, depth) /\ BInv(R, depth)

(* What a handler of a statement at depth n may push.                      *)
Bound(R, n, bs, items) ==
    /\ items \in Seq(FrameSet)
    /\ \A i \in 1..Len(items) :
          /\ items[i].k # "endproc" /\ <<items[i].s, n>> \in R
          /\ \A t : Aims(items[i], t) => Ours(bs, t)

(* What it does to the state.                                              *)
Stays(R, depth, n, items) ==
    /\ work' = items \o Tail(work) /\ Bound(R, n, blocks', items)
    /\ curFunc' = curFunc
    /\ Grown(blocks') /\ Ours(blocks', insert')
    /\ \A l \in Name : \/ labels'[l] = labels[l]
                       \/ depth[l] = n /\ Ours(blocks', labels'[l])

(* The frames after the top of the stack was replaced.                     *)
LEMMA TopReplaced ==
    ASSUME NEW fs \in Seq(FrameSet), fs # <<>>, NEW items \in Seq(FrameSet)
    PROVE  /\ items \o Tail(fs) \in Seq(FrameSet) /\ Len(items) \in Nat
           /\ \A i \in 1..Len(items) : (items \o Tail(fs))[i] = items[i]
           /\ \A i \in 1..Len(items \o Tail(fs)) : i \in 1..Len(items) \/
                 (/\ i - Len(items) + 1 \in 1..Len(fs)
                  /\ (items \o Tail(fs))[i] = fs[i - Len(items) + 1])
  <1> DEFINE t == Tail(fs)
             gs == items \o t
  <1>1. /\ t \in Seq(FrameSet)
        /\ \A i \in DOMAIN t : i + 1 \in 1..Len(fs) /\ t[i] = fs[i + 1]
    BY TailProperties, LenProperties
  <1> HIDE DEF t
  <1>2. /\ gs \in Seq(FrameSet) /\ Len(items) \in Nat
        /\ DOMAIN items = 1..Len(items)
        /\ \A i \in DOMAIN items : gs[i] = items[i]
        /\ \A i \in DOMAIN gs : \/ i \in DOMAIN items /\ gs[i] = items[i]
                                \/ i - Len(items) \in DOMAIN t /\ gs[i] = t[i - Len(items)]
    BY <1>1, ConcatElements
  <1>3. DOMAIN gs = 1..Len(gs)
    BY <1>2, LenProperties
  <1>4. ASSUME NEW i \in DOMAIN gs, i - Len(items) \in DOMAIN t, gs[i] = t[i - Len(items)]
        PROVE  i - Len(items) + 1 \in 1..Len(fs) /\ gs[i] = fs[i - Len(items) + 1]
    BY <1>1, <1>4
  <1>5. /\ gs \in Seq(FrameSet) /\ Len(items) \in Nat
        /\ \A i \in 1..Len(items) : gs[i] = items[i]
        /\ \A i \in 1..Len(gs) : i \in 1..Len(items) \/
              (i - Len(items) + 1 \in 1..Len(fs) /\ gs[i] = fs[i - Len(items) + 1])
    BY <1>2, <1>3, <1>4
  <1> QED BY <1>5 DEF t

(* The frames under the top of the stack keep their functions and depths.  *)
Shifted(X, top, Y, n, fs, gs) ==
    /\ \A i \in 1..n : Y[i] = top
    /\ Y[n + 1] = X[2]
    /\ \A i \in 1..Len(gs) : i \in 1..n \/
          (/\ i - n + 1 \in 1..Len(fs) /\ gs[i] = fs[i - n + 1]
           /\ Y[i] = X[i - n + 1] /\ Y[i + 1] = X[(i - n + 1) + 1])

(* What was above position n is, after the shift, in its place again.      *)
LEMMA BelowShifted ==
    ASSUME NEW fs \in Seq(FrameSet), fs # <<>>, NEW items \in Seq(FrameSet),
           NEW X \in [Nat -> Nat], NEW top \in Nat
    PROVE  \E Y \in [Nat -> Nat] :
              Shifted(X, top, Y, Len(items), fs, items \o Tail(fs))
  <1> DEFINE m == Len(items)
             hs == items \o Tail(fs)
  <1>1. /\ m \in Nat
        /\ \A i \in 1..Len(hs) : i \in 1..m \/
              (i - m + 1 \in 1..Len(fs) /\ hs[i] = fs[i - m + 1])
    BY TopReplaced
  <1> SUFFICES \E Y \in [Nat -> Nat] : Shifted(X, top, Y, m, fs, hs)
    OBVIOUS
  <1> HIDE DEF m, hs
  <1>2. PICK n \in Nat : n = m
    BY <1>1
  <1>3. PICK gs : gs = hs
    OBVIOUS
  <1> DEFINE Y == [i \in Nat |-> IF i <= n THEN top ELSE X[i - n + 1]]
  <1>4. ASSUME NEW i \in Nat, i > n
        PROVE  /\ i - n + 1 \in Nat /\ i + 1 \in Nat /\ ~(i <= n) /\ ~(i + 1 <= n)
               /\ (i + 1) - n + 1 = (i - n + 1) + 1
    BY <1>4
  <1>5. \A i \in Nat : Y[i] = IF i <= n THEN top ELSE X[i - n + 1]
    OBVIOUS
  <1>6. Y \in [Nat -> Nat]
    <2>1. ASSUME NEW i \in Nat PROVE (IF i <= n THEN top ELSE X[i - n + 1]) \in Nat
      <3>1. CASE i <= n
        BY <3>1
      <3>2. CASE ~(i <= n)
        <4>1. i - n + 1 \in Nat
          BY <3>2
        <4> QED BY <3>2, <4>1
      <3> QED BY <3>1, <3>2
    <2> QED BY <2>1
  <1> HIDE DEF Y
  <1>7. \A i \in 1..n : i \in Nat /\ i <= n
    OBVIOUS
  <1>8. ASSUME NEW i \in Nat, i > n
        PROVE  Y[i] = X[i - n + 1] /\ Y[i + 1] = X[(i - n + 1) + 1]
    <2>1. Y[i] = X[i - n + 1]
      BY <1>4, <1>5, <1>8
    <2>2. Y[i + 1] = X[(i + 1) - n + 1]
      BY <1>4, <1>5, <1>8
    <2> QED BY <1>4, <1>8, <2>1, <2>2
  <1>9. Y[n + 1] = X[2]
    <2>1. n + 1 \in Nat /\ ~(n + 1 <= n) /\ (n + 1) - n + 1 = 2
      OBVIOUS
    <2> QED BY <1>5, <2>1
  <1>10. \A i \in 1..n : Y[i] = top
    BY <1>5, <1>7
  <1>12. ASSUME NEW i \in 1..Len(gs), i \notin 1..n PROVE i \in Nat /\ i > n
    BY <1>12
  <1>13. \A i \in 1..Len(gs) : i \in 1..n \/
            (i - n + 1 \in 1..Len(fs) /\ gs[i] = fs[i - n + 1])
    BY <1>1, <1>2, <1>3
  <1>14. Shifted(X, top, Y, n, fs, gs)
    BY <1>8, <1>9, <1>10, <1>12, <1>13 DEF Shifted
  <1> QED BY <1>2, <1>3, <1>6, <1>14

(* Nothing changes from one frame to the next when top is what was there.  *)
LEMMA ShiftedLevel ==
    ASSUME NEW n \in Nat, NEW X, X[2] = X[1], NEW Y, NEW fs, NEW gs,
           Shifted(X, X[1], Y, n, fs, gs)
    PROVE  Y[1] = X[1] /\ \A i \in 1..n : Y[i] = X[1] /\ Y[i + 1] = X[1]
  <1>1. Y[n + 1] = X[1] /\ \A i \in 1..n : Y[i] = X[1]
    BY DEF Shifted
  <1>2. ASSUME NEW i \in 1..n PROVE Y[i + 1] = X[1]
    <2>1. i + 1 \in 1..n \/ i + 1 = n + 1
      OBVIOUS
    <2> QED BY <1>1, <2>1
  <1>3. Y[1] = X[1]
    <2>1. 1 \in 1..n \/ 1 = n + 1
      OBVIOUS
    <2> QED BY <1>1, <2>1
  <1> QED BY <1>1, <1>2, <1>3

(* A handler that stays in its function preserves the invariant.           *)
LEMMA StaysWithin ==
    ASSUME NEW R, NEW depth \in [Name -> Nat],
           NEW F \in [Nat -> Nat], NEW D \in [Nat -> Nat], Within(R, depth, F, D),
           work \in Seq(FrameSet), work # <<>>, Top.k # "endproc",
           NEW items, Stays(R, depth, D[1], items)
    PROVE  BInv(R, depth)'
  <1>1. items \in Seq(FrameSet) /\ work' = items \o Tail(work)
    BY DEF Stays, Bound
  <1>2. F[2] = F[1] /\ D[2] = D[1]
    <2>1. 1 \in 1..Len(work) /\ work[1] = Top
      <3>1. Head(work) = work[1] /\ Len(work) \in Nat \ {0}
        BY TailProperties
      <3> QED BY <3>1 DEF Top
    <2>2. F[1 + 1] = F[1] /\ D[1 + 1] = D[1]
      BY <2>1 DEF Within, Nested
    <2> QED BY <2>2
  <1>3. PICK n \in Nat : n = Len(items)
    BY <1>1, LenProperties
  <1>4. PICK G \in [Nat -> Nat] : Shifted(F, F[1], G, n, work, work')
    BY <1>1, <1>3, BelowShifted
  <1>5. PICK E \in [Nat -> Nat] : Shifted(D, D[1], E, n, work, work')
    BY <1>1, <1>3, BelowShifted
  <1>a. G[1] = F[1] /\ \A i \in 1..n : G[i] = F[1] /\ G[i + 1] = F[1]
    BY <1>2, <1>4, ShiftedLevel
  <1>b. E[1] = D[1] /\ \A i \in 1..n : E[i] = D[1] /\ E[i + 1] = D[1]
    BY <1>2, <1>5, ShiftedLevel
  <1>6. \A i \in 1..n : work'[i] = items[i]
    BY <1>1, <1>3, TopReplaced
  <1>7. /\ Grown(blocks') /\ curFunc' = curFunc /\ F[1] = curFunc
        /\ 1..Len(blocks) \subseteq 1..Len(blocks')
        /\ \A t \in 1..Len(blocks) : blocks'[t].fn = blocks[t].fn
    <2>1. /\ Grown(blocks') /\ curFunc' = curFunc /\ F[1] = curFunc
      BY DEF Stays, Within, Nested
    <2>2. Len(blocks) <= Len(blocks') /\ Len(blocks') \in Nat
      BY <2>1 DEF Grown
    <2>3. \A t \in 1..Len(blocks) : t \in 1..Len(blocks')
      BY <2>2
    <2> QED BY <2>1, <2>3 DEF Grown
  <1>8. ASSUME NEW i \in 1..n
        PROVE  /\ work'[i].k # "endproc" /\ <<work'[i].s, D[1]>> \in R
               /\ \A t : Aims(work'[i], t) => Ours(blocks', t)
               /\ G[i] = curFunc /\ E[i] = D[1] /\ G[i + 1] = G[i] /\ E[i + 1] = E[i]
    BY <1>3, <1>6, <1>7, <1>a, <1>b DEF Stays, Bound
  <1>9. ASSUME NEW i \in 1..Len(work'), i \notin 1..n
        PROVE  \E j \in 1..Len(work) :
                  /\ work'[i] = work[j]
                  /\ G[i] = F[j] /\ G[i + 1] = F[j + 1]
                  /\ E[i] = D[j] /\ E[i + 1] = D[j + 1]
    BY <1>4, <1>5, <1>9 DEF Shifted
  <1>10. Nested(G, E)'
    <2>1. G[1] = curFunc'
      BY <1>7, <1>a
    <2>2. ASSUME NEW i \in 1..Len(work')
          PROVE  IF work'[i].k = "endproc" THEN G[i + 1] = work'[i].to[1] /\ E[i + 1] < E[i]
                 ELSE G[i + 1] = G[i] /\ E[i + 1] = E[i]
      <3>1. CASE i \in 1..n
        BY <1>8, <3>1
      <3>2. CASE i \notin 1..n
        <4>1. PICK j \in 1..Len(work) :
                  /\ work'[i] = work[j]
                  /\ G[i] = F[j] /\ G[i + 1] = F[j + 1]
                  /\ E[i] = D[j] /\ E[i + 1] = D[j + 1]
          BY <1>9, <3>2
        <4> QED BY <4>1 DEF Within, Nested
      <3> QED BY <3>1, <3>2
    <2> QED BY <2>1, <2>2 DEF Nested
  <1>11. ASSUME NEW i \in 1..Len(work') PROVE FrameIn(R, work[i], G[i], E[i])'
    <2>1. CASE i \in 1..n
      <3>1. \A t : Aims(work'[i], t) => t \in 1..Len(blocks') /\ blocks'[t].fn = G[i]
        BY <1>8, <2>1 DEF Ours
      <3>2. work'[i].k # "endproc" /\ <<work'[i].s, E[i]>> \in R
        BY <1>8, <2>1
      <3> QED BY <3>1, <3>2 DEF FrameIn
    <2>2. CASE i \notin 1..n
      <3>1. PICK j \in 1..Len(work) : work'[i] = work[j] /\ G[i] = F[j] /\ E[i] = D[j]
        BY <1>9, <2>2
      <3>2. FrameIn(R, work[j], F[j], D[j])
        BY DEF Within, FramesIn
      <3>3. \A t : Aims(work'[i], t) =>
                /\ t \in 1..Len(blocks')
                /\ blocks'[t].fn = IF work'[i].k = "endproc" THEN work'[i].to[1] ELSE G[i]
        BY <1>7, <3>1, <3>2 DEF FrameIn
      <3>4. work'[i].k # "endproc" => <<work'[i].s, E[i]>> \in R
        BY <3>1, <3>2 DEF FrameIn
      <3> QED BY <3>3, <3>4 DEF FrameIn
    <2> QED BY <2>1, <2>2
  <1>12. FramesIn(R, G, E)'
    BY <1>11 DEF FramesIn
  <1>13. LabelsIn(depth, E[1])'
    <2>1. E[1] = D[1]
      BY <1>b
    <2> SUFFICES ASSUME NEW l \in Name, labels'[l] # 0
                 PROVE  /\ depth[l] >= D[1]
                        /\ depth[l] = D[1] => Ours(blocks', labels'[l])
      BY <1>7, <2>1 DEF LabelsIn, Ours
    <2>2. CASE labels'[l] = labels[l]
      BY <1>7, <2>2 DEF Within, LabelsIn, Ours
    <2>3. CASE depth[l] = D[1] /\ Ours(blocks', labels'[l])
      BY <2>3
    <2> QED BY <2>2, <2>3 DEF Stays
  <1>14. Ours(blocks, insert)' /\ Local(blocks)'
    BY <1>7 DEF Stays, Grown, Ours
  <1> QED BY <1>10, <1>12, <1>13, <1>14 DEF BInv, Within

(***************************************************************************)
(* What handlers push.                                                     *)
(***************************************************************************)
(* Nothing.                                                                *)
LEMMA BoundNone == ASSUME NEW R, NEW n, NEW bs PROVE Bound(R, n, bs, <<>>)
  BY DEF Bound

(* Nodes to be generated.                                                  *)
LEMMA BoundNodes ==
    ASSUME NEW R, NEW n, NEW bs, NEW q \in Seq(Node),
           \A i \in DOMAIN q : <<q[i], n>> \in R
    PROVE  Bound(R, n, bs, GenAll(q))
  <1>1. \A x \in Node : /\ Gen(x) \in FrameSet /\ Gen(x).k = "gen" /\ Gen(x).s = x
                        /\ \A t : ~Aims(Gen(x), t)
    <2> TAKE x \in Node
    <2>1. /\ Gen(x) \in FrameSet /\ Gen(x).k = "gen" /\ Gen(x).s = x
          /\ Gen(x).owed = <<>>
      BY DEF Gen, Frame, FrameSet, FrameKinds
    <2> QED BY <2>1 DEF Aims, OwedBy
  <1>2. \A i \in 1..Len(q) : q[i] \in Node /\ i \in DOMAIN q
    OBVIOUS
  <1>3. GenAll(q) \in Seq(FrameSet) /\ Len(GenAll(q)) = Len(q)
        /\ \A i \in 1..Len(q) : GenAll(q)[i] = Gen(q[i])
    BY <1>1, <1>2 DEF GenAll
  <1> QED BY <1>1, <1>2, <1>3 DEF Bound

(* One of them.                                                            *)
LEMMA BoundNode ==
    ASSUME NEW R, NEW n, NEW bs, NEW x \in Node, <<x, n>> \in R
    PROVE  Bound(R, n, bs, <<Gen(x)>>)
  <1> DEFINE q == <<x>>
  <1>1. /\ q \in Seq(Node) /\ \A i \in DOMAIN q : <<q[i], n>> \in R
        /\ Len(q) = 1 /\ q[1] = x /\ DOMAIN q = 1..1
    OBVIOUS
  <1>2. GenAll(q) = <<Gen(x)>>
    BY <1>1 DEF GenAll
  <1> QED BY <1>1, <1>2, BoundNodes

(* Two lists, one after the other.                                         *)
LEMMA BoundConcat ==
    ASSUME NEW R, NEW n, NEW bs, NEW g, NEW h, Bound(R, n, bs, g), Bound(R, n, bs, h)
    PROVE  Bound(R, n, bs, g \o h)
  <1>1. g \in Seq(FrameSet) /\ h \in Seq(FrameSet)
    BY DEF Bound
  <1>2. /\ g \o h \in Seq(FrameSet)
        /\ DOMAIN (g \o h) = 1..Len(g \o h)
        /\ DOMAIN g = 1..Len(g) /\ DOMAIN h = 1..Len(h)
        /\ \A i \in DOMAIN (g \o h) :
              \/ i \in DOMAIN g /\ (g \o h)[i] = g[i]
              \/ i - Len(g) \in DOMAIN h /\ (g \o h)[i] = h[i - Len(g)]
    BY <1>1, ConcatElements, LenProperties
  <1>3. ASSUME NEW i \in 1..Len(g \o h)
        PROVE  \/ \E j \in 1..Len(g) : (g \o h)[i] = g[j]
               \/ \E j \in 1..Len(h) : (g \o h)[i] = h[j]
    BY <1>2
  <1> QED BY <1>2, <1>3 DEF Bound

(* A frame that remembers blocks of the function only.                     *)
LEMMA BoundFrame ==
    ASSUME NEW R, NEW n, NEW bs, NEW k \in FrameKinds \ {"endproc", "arm"},
           NEW s \in Node, <<s, n>> \in R, NEW to \in Seq(Nat), NEW owed \in Seq(Nat),
           \A i \in DOMAIN owed : Ours(bs, owed[i]),
           \A i \in DOMAIN to : Ours(bs, to[i]),
           k \in {"endwhile", "endfor", "enddo", "endrepeat", "endarm"} => 1 \in DOMAIN to
    PROVE  Bound(R, n, bs, <<Frame(k, s, to, owed)>>)
  <1> DEFINE f == Frame(k, s, to, owed)
  <1>1. f \in FrameSet /\ f.k = k /\ f.s = s /\ f.to = to /\ f.owed = owed
    BY DEF Frame, FrameSet
  <1> HIDE DEF f
  <1>2. \A t : Aims(f, t) => Ours(bs, t)
    BY <1>1 DEF Aims, OwedBy
  <1>3. <<f>> \in Seq(FrameSet) /\ 1..Len(<<f>>) = {1} /\ <<f>>[1] = f
    BY <1>1
  <1>4. Bound(R, n, bs, <<f>>)
    BY <1>1, <1>2, <1>3 DEF Bound
  <1> QED BY <1>4 DEF f

(***************************************************************************)
(* The state in which a handler begins, and the two ways in which the      *)
(* handlers that leave labels_ alone go on.                                *)
(***************************************************************************)
Here(R, depth, F, D) ==
    /\ R \in SUBSET (Node \X Nat) /\ depth \in [Name -> Nat] /\ LabelsApart(R, depth)
    /\ F \in [Nat -> Nat] /\ D \in [Nat -> Nat]
    /\ Within(R, depth, F, D)

(* What a handler finds.                                                   *)
LEMMA Enter ==
    ASSUME IInv, NEW R, NEW depth, NEW F, NEW D, Here(R, depth, F, D),
           status = "generating", work # <<>>, Top.k # "endproc"
    PROVE  /\ Grown(blocks) /\ Len(blocks) \in Nat /\ curFunc \in Nat
           /\ Ours(blocks, insert)
           /\ \A t : Aims(Top, t) => Ours(blocks, t)
           /\ Top.s \in Node /\ <<Top.s, D[1]>> \in R /\ D[1] \in Nat
           /\ Top.s.kind # "Proc" =>
                 \A c \in Children(Top.s) : <<c, D[1]>> \in R
  <1>1. /\ blocks \in Seq(BlockSet) /\ Len(blocks) \in Nat /\ curFunc \in Nat
        /\ Top.s \in Node
    BY Begin
  <1>2. 1 \in 1..Len(work) /\ work[1] = Top
    <2>1. Head(work) = work[1] /\ Len(work) \in Nat \ {0}
      BY TailProperties DEF IInv, Typed, TypeOK
    <2> QED BY <2>1 DEF Top
  <1>3. /\ Nested(F, D) /\ FramesIn(R, F, D) /\ Ours(blocks, insert) /\ Local(blocks)
        /\ F[1] = curFunc /\ D[1] \in Nat
    BY DEF Here, Within, Nested
  <1>4. Grown(blocks)
    BY <1>1, <1>3 DEF Grown
  <1>5. FrameIn(R, Top, curFunc, D[1])
    BY <1>2, <1>3 DEF FramesIn
  <1>6. <<Top.s, D[1]>> \in R /\ \A t : Aims(Top, t) => Ours(blocks, t)
    BY <1>5 DEF FrameIn, Ours
  <1>7. Top.s.kind # "Proc" => \A c \in Children(Top.s) : <<c, D[1]>> \in R
    BY <1>1, <1>3, <1>6 DEF Here, LabelsApart, Inside
  <1> QED BY <1>1, <1>3, <1>4, <1>6, <1>7

(* One that pushes items of its own function.                              *)
LEMMA GoesOn ==
    ASSUME IInv, NEW R, NEW depth, NEW F, NEW D, Here(R, depth, F, D),
           status = "generating", work # <<>>, Top.k # "endproc",
           LabelsUnchanged, FunctionUnchanged, NEW items, Continue(items),
           Bound(R, D[1], blocks', items), Grown(blocks'), Ours(blocks', insert')
    PROVE  BInv(R, depth)'
  <1>1. Stays(R, depth, D[1], items)
    BY DEF Stays, LabelsUnchanged, FunctionUnchanged, Continue
  <1>2. /\ depth \in [Name -> Nat] /\ work \in Seq(FrameSet)
        /\ F \in [Nat -> Nat] /\ D \in [Nat -> Nat] /\ Within(R, depth, F, D)
    BY DEF Here, LabelsApart, IInv, Typed, TypeOK
  <1> QED BY <1>1, <1>2, StaysWithin

(* One that pushes none.                                                   *)
LEMMA Returning ==
    ASSUME IInv, NEW R, NEW depth, NEW F, NEW D, Here(R, depth, F, D),
           status = "generating", work # <<>>, Top.k # "endproc",
           LabelsUnchanged, FunctionUnchanged, Continue(<<>>),
           Grown(blocks'), Ours(blocks', insert')
    PROVE  BInv(R, depth)'
  BY GoesOn, BoundNone

(***************************************************************************)
(* The instructions that handlers emit.                                    *)
(***************************************************************************)
(* A conditional branch.                                                   *)
LEMMA GrownCondBr ==
    ASSUME NEW bs, Grown(bs), NEW b, Ours(bs, b), NEW e \in Expr,
           NEW yes, Ours(bs, yes), NEW no, Ours(bs, no),
           NEW cs, cs = Emit(bs, b, <<CondBr(e, yes, no)>>)
    PROVE  /\ Grown(cs) /\ Len(cs) = Len(bs)
           /\ \A t : Ours(bs, t) => Ours(cs, t)
  <1>1. yes \in Nat /\ no \in Nat
    BY DEF Grown, Ours
  <1>2. CondBr(e, yes, no) \in InstructionSet
    BY <1>1, Branches
  <1>3. Into(bs, curFunc, CondBr(e, yes, no))
    BY InstructionsInto
  <1> DEFINE i == CondBr(e, yes, no)
  <1>4. i \in InstructionSet /\ Into(bs, curFunc, i) /\ cs = Emit(bs, b, <<i>>)
    BY <1>2, <1>3
  <1> HIDE DEF i
  <1> QED BY <1>4, GrownEmitOne

(* A branch at the end of a block.                                         *)
LEMMA GrownBr ==
    ASSUME NEW bs, Grown(bs), NEW b, Ours(bs, b), NEW to, Ours(bs, to),
           NEW cs, cs = Emit(bs, b, <<Br(to)>>)
    PROVE  /\ Grown(cs) /\ Len(cs) = Len(bs)
           /\ \A t : Ours(bs, t) => Ours(cs, t)
  <1>1. to \in Nat
    BY DEF Grown, Ours
  <1>2. Br(to) \in InstructionSet
    BY <1>1 DEF Br, Instruction, InstructionSet, Ops, Terminators, Optional
  <1> QED BY <1>2, GrownEmitOne, InstructionsInto

(* Jumping into the first of n blocks created for a construct.             *)
LEMMA GrownEnter ==
    ASSUME NEW n \in Nat, n >= 1, Grown(blocks), Len(blocks) \in Nat, curFunc \in Nat,
           Ours(blocks, insert),
           NEW cs, \/ cs = Emit(Create(blocks, n, curFunc), insert, <<Br(Fresh(1))>>)
                   \/ cs = FallTo(Create(blocks, n, curFunc), insert, Fresh(1))
    PROVE  /\ Grown(cs) /\ Len(cs) = Len(blocks) + n
           /\ \A t : Ours(blocks, t) => Ours(cs, t)
           /\ \A i \in 1..n : Ours(cs, Fresh(i))
  <1> DEFINE bs == Create(blocks, n, curFunc)
  <1>1. /\ Grown(bs) /\ Len(bs) = Len(blocks) + n
        /\ \A t : Ours(blocks, t) => Ours(bs, t)
        /\ \A t \in (Len(blocks) + 1)..(Len(blocks) + n) : Ours(bs, t)
    BY GrownCreate
  <1> HIDE DEF bs
  <1>2. \A i \in 1..n : Fresh(i) \in (Len(blocks) + 1)..(Len(blocks) + n)
    BY DEF Fresh
  <1>3. \A i \in 1..n : Ours(bs, Fresh(i))
    BY <1>1, <1>2
  <1>4. Ours(bs, insert) /\ Ours(bs, Fresh(1))
    BY <1>1, <1>3
  <1>5. /\ Grown(cs) /\ Len(cs) = Len(bs)
        /\ \A t : Ours(bs, t) => Ours(cs, t)
    <2>1. CASE cs = Emit(bs, insert, <<Br(Fresh(1))>>)
      <3> DEFINE u == Fresh(1)
      <3>1. cs = Emit(bs, insert, <<Br(u)>>) /\ Ours(bs, u)
        BY <1>4, <2>1
      <3> HIDE DEF u
      <3> QED BY <1>1, <1>4, <3>1, GrownBr
    <2>2. CASE cs = FallTo(bs, insert, Fresh(1))
      <3> DEFINE u == Fresh(1)
      <3>1. cs = FallTo(bs, insert, u) /\ Ours(bs, u)
        BY <1>4, <2>2
      <3> HIDE DEF u
      <3> QED BY <1>1, <1>4, <3>1, GrownFallTo
    <2> QED BY <2>1, <2>2 DEF bs
  <1> QED BY <1>1, <1>3, <1>5

-----------------------------------------------------------------------------
(***************************************************************************)
(* The handlers, one by one.                                               *)
(***************************************************************************)
(* IF branches to the blocks that it creates.                              *)
LEMMA GenIfWithin ==
    ASSUME IInv, NEW R, NEW depth, NEW F, NEW D, Here(R, depth, F, D), GenIf
    PROVE  BInv(R, depth)'
  <1> DEFINE s      == Top.s
             n      == IF s.alt = <<>> THEN 2 ELSE 3
             elseBB == IF s.alt = <<>> THEN Fresh(2) ELSE Fresh(3)
             owed   == IF s.alt = <<>> THEN <<Fresh(2)>> ELSE <<Fresh(2), Fresh(3)>>
             to     == <<>>
             bs     == Create(blocks, n, curFunc)
             x      == s.stmts[1]
  <1>1. /\ status = "generating" /\ work # <<>> /\ Top.k = "gen" /\ s.kind = "If"
        /\ LabelsUnchanged /\ FunctionUnchanged
        /\ blocks' = Emit(bs, insert, <<CondBr(s.expr, Fresh(1), elseBB)>>)
        /\ insert' = Fresh(1)
        /\ Continue(<<Gen(x), Frame("endthen", s, to, owed)>>)
    BY DEF GenIf, AtNode, OnlyBlocks
  <1>2. /\ Grown(blocks) /\ Len(blocks) \in Nat /\ curFunc \in Nat
        /\ Ours(blocks, insert) /\ s \in Node /\ <<s, D[1]>> \in R
        /\ \A c \in Children(s) : <<c, D[1]>> \in R
    BY <1>1, Enter
  <1>3. s.expr \in Expr /\ x \in Node /\ <<x, D[1]>> \in R
    <2>1. s.expr \in Expr /\ s.stmts \in Seq(Node) /\ Len(s.stmts) = 1
      BY <1>1, Begin DEF WellFormedNode
    <2>2. 1 \in DOMAIN s.stmts /\ x \in Node
      BY <2>1
    <2> QED BY <1>1, <1>2, <2>1, <2>2 DEF Children
  <1>4. /\ n \in Nat /\ n >= 2
        /\ Fresh(1) \in (Len(blocks) + 1)..(Len(blocks) + n)
        /\ Fresh(2) \in (Len(blocks) + 1)..(Len(blocks) + n)
        /\ elseBB \in (Len(blocks) + 1)..(Len(blocks) + n)
    BY <1>2 DEF Fresh
  <1>5. /\ owed \in Seq(Nat) /\ to \in Seq(Nat) /\ DOMAIN to = {}
        /\ \A i \in DOMAIN owed : owed[i] = Fresh(2) \/ owed[i] = elseBB
    <2>1. Fresh(2) \in Nat /\ Fresh(3) \in Nat
      BY <1>2 DEF Fresh
    <2> QED BY <2>1
  <1> HIDE DEF n, owed, elseBB, to
  <1>6. /\ Grown(bs) /\ Ours(bs, insert)
        /\ Ours(bs, Fresh(1)) /\ Ours(bs, Fresh(2)) /\ Ours(bs, elseBB)
    BY <1>2, <1>4, GrownCreate
  <1> HIDE DEF bs, s
  <1>7. /\ Grown(blocks')
        /\ Ours(blocks', Fresh(1)) /\ Ours(blocks', Fresh(2)) /\ Ours(blocks', elseBB)
    BY <1>1, <1>3, <1>6, GrownCondBr
  <1>8. Bound(R, D[1], blocks', <<Gen(x)>>)
    BY <1>3, BoundNode
  <1>9. Bound(R, D[1], blocks', <<Frame("endthen", s, to, owed)>>)
    <2>1. "endthen" \in FrameKinds \ {"endproc", "arm"}
      BY DEF FrameKinds
    <2>2. \A i \in DOMAIN owed : Ours(blocks', owed[i])
      BY <1>5, <1>7
    <2> QED BY <1>2, <1>5, <2>1, <2>2, BoundFrame
  <1>10. Continue(<<Gen(x)>> \o <<Frame("endthen", s, to, owed)>>)
    BY <1>1, PairIsConcat
  <1> QED BY <1>1, <1>7, <1>8, <1>9, <1>10, BoundConcat, GoesOn

(* The end of THEN branches to merge, in the function in which IF began.   *)
LEMMA EndThenWithin ==
    ASSUME IInv, NEW R, NEW depth, NEW F, NEW D, Here(R, depth, F, D), EndThen
    PROVE  BInv(R, depth)'
  <1> DEFINE s == Top.s
             mergeBB == Top.owed[1]
             x == s.alt[1]
             to == <<>>
             owed == <<mergeBB>>
  <1>1. /\ status = "generating" /\ work # <<>> /\ Top.k = "endthen"
        /\ LabelsUnchanged /\ FunctionUnchanged
        /\ blocks' = FallTo(blocks, insert, mergeBB)
        /\ \/ s.alt = <<>> /\ insert' = mergeBB /\ Continue(<<>>)
           \/ /\ s.alt # <<>> /\ insert' = Top.owed[2]
              /\ Continue(<<Gen(x), Frame("endelse", s, to, owed)>>)
    BY DEF EndThen, AtFrame, OnlyBlocks
  <1>2. /\ Grown(blocks) /\ Ours(blocks, insert) /\ s \in Node /\ <<s, D[1]>> \in R
        /\ \A t : Aims(Top, t) => Ours(blocks, t)
        /\ s.kind # "Proc" => \A c \in Children(s) : <<c, D[1]>> \in R
    BY <1>1, Enter
  <1>3. /\ s.kind = "If" /\ s.alt \in Optional(Node)
        /\ Len(Top.owed) = (IF s.alt = <<>> THEN 1 ELSE 2)
        /\ Top.owed \in Seq(Nat)
    BY <1>1, Begin DEF FrameOK, NodeOf, WellFormedNode, FrameSet
  <1>4. /\ Ours(blocks, mergeBB) /\ mergeBB \in Nat
        /\ s.alt # <<>> => Ours(blocks, Top.owed[2])
    <2>1. 1 \in DOMAIN Top.owed /\ (s.alt # <<>> => 2 \in DOMAIN Top.owed)
      BY <1>3
    <2> QED BY <1>2, <1>3, <2>1 DEF Aims, OwedBy
  <1>5. Grown(blocks') /\ \A t : Ours(blocks, t) => Ours(blocks', t)
    BY <1>1, <1>2, <1>4, GrownFallTo
  <1>6. CASE s.alt = <<>>
    BY <1>1, <1>4, <1>5, <1>6, Returning
  <1>7. CASE s.alt # <<>>
    <2>1. x \in Node /\ <<x, D[1]>> \in R
      <3>1. x \in Node /\ 1 \in DOMAIN s.alt
        BY <1>3, <1>7 DEF Optional
      <3> QED BY <1>2, <1>3, <3>1 DEF Children
    <2>2. Bound(R, D[1], blocks', <<Gen(x)>>)
      BY <2>1, BoundNode
    <2>3. Bound(R, D[1], blocks', <<Frame("endelse", s, to, owed)>>)
      <3>1. /\ owed \in Seq(Nat) /\ to \in Seq(Nat) /\ DOMAIN to = {}
            /\ \A i \in DOMAIN owed : owed[i] = mergeBB
            /\ "endelse" \in FrameKinds \ {"endproc", "arm"}
        BY <1>4 DEF FrameKinds
      <3> HIDE DEF owed, to, s
      <3>2. \A i \in DOMAIN owed : Ours(blocks', owed[i])
        BY <1>4, <1>5, <3>1
      <3> QED BY <1>2, <3>1, <3>2, BoundFrame
    <2>4. Continue(<<Gen(x)>> \o <<Frame("endelse", s, to, owed)>>)
      BY <1>1, <1>7, PairIsConcat
    <2> HIDE DEF owed, to, s, x
    <2> QED BY <1>1, <1>4, <1>5, <1>7, <2>2, <2>3, <2>4, BoundConcat, GoesOn DEF s
  <1> QED BY <1>6, <1>7

(* So does the end of ELSE.                                                *)
LEMMA EndElseWithin ==
    ASSUME IInv, NEW R, NEW depth, NEW F, NEW D, Here(R, depth, F, D), EndElse
    PROVE  BInv(R, depth)'
  <1>1. /\ status = "generating" /\ work # <<>> /\ Top.k = "endelse"
        /\ LabelsUnchanged /\ FunctionUnchanged
        /\ blocks' = FallTo(blocks, insert, Top.owed[1])
        /\ insert' = Top.owed[1] /\ Continue(<<>>)
    BY DEF EndElse, AtFrame, OnlyBlocks
  <1>2. Top.owed[1] \in OwedBy(Top)
    BY <1>1, OneExitOwed DEF OneExit
  <1>3. Grown(blocks) /\ Ours(blocks, insert) /\ Ours(blocks, Top.owed[1])
    BY <1>1, <1>2, Enter DEF Aims
  <1>4. Grown(blocks') /\ Ours(blocks', Top.owed[1])
    BY <1>1, <1>3, GrownFallTo
  <1> QED BY <1>1, <1>4, Returning

(* WHILE and FOR, once they have branched to their condition.              *)
LEMMA LoopWithin ==
    ASSUME IInv, NEW R, NEW depth, NEW F, NEW D, Here(R, depth, F, D),
           status = "generating", work # <<>>, Top.k = "gen", OnlyBlocks,
           NEW k \in {"endwhile", "endfor"}, Top.s.kind = NodeOf[k],
           NEW bs, Grown(bs), \A i \in 1..3 : Ours(bs, Fresh(i)),
           blocks' = Emit(bs, Fresh(1), <<CondBr(Top.s.expr, Fresh(2), Fresh(3))>>),
           insert' = Fresh(2),
           Continue(<<Gen(Top.s.stmts[1]),
                      Frame(k, Top.s, <<Fresh(1)>>, <<Fresh(3)>>)>>)
    PROVE  BInv(R, depth)'
  <1> DEFINE s == Top.s
             x == s.stmts[1]
             to == <<Fresh(1)>>
             owed == <<Fresh(3)>>
  <1>1. s.kind \in {"While", "For"}
    BY DEF NodeOf
  <1>2. /\ s \in Node /\ <<s, D[1]>> \in R
        /\ \A c \in Children(s) : <<c, D[1]>> \in R
    BY <1>1, Enter
  <1>3. s.expr \in Expr /\ x \in Node /\ <<x, D[1]>> \in R
    <2>1. s.expr \in Expr /\ s.stmts \in Seq(Node) /\ Len(s.stmts) = 1
      BY <1>1, Begin DEF WellFormedNode
    <2>2. 1 \in DOMAIN s.stmts /\ x \in Node
      BY <2>1
    <2> QED BY <1>1, <1>2, <2>1, <2>2 DEF Children
  <1>4. Ours(bs, Fresh(1)) /\ Ours(bs, Fresh(2)) /\ Ours(bs, Fresh(3))
        /\ Fresh(1) \in Nat /\ Fresh(3) \in Nat
    BY Begin DEF Fresh
  <1>5. Grown(blocks') /\ \A t : Ours(bs, t) => Ours(blocks', t)
    BY <1>3, <1>4, GrownCondBr
  <1>6. Bound(R, D[1], blocks', <<Gen(x)>>)
    BY <1>3, BoundNode
  <1>7. /\ owed \in Seq(Nat) /\ to \in Seq(Nat) /\ 1 \in DOMAIN to
        /\ \A i \in DOMAIN owed : owed[i] = Fresh(3)
        /\ \A i \in DOMAIN to : to[i] = Fresh(1)
        /\ k \in FrameKinds \ {"endproc", "arm"}
    BY <1>4 DEF FrameKinds
  <1>8. Continue(<<Gen(x)>> \o <<Frame(k, s, to, owed)>>)
    BY PairIsConcat
  <1> HIDE DEF owed, to, s, x
  <1>9. /\ \A i \in DOMAIN owed : Ours(blocks', owed[i])
        /\ \A i \in DOMAIN to : Ours(blocks', to[i])
    BY <1>4, <1>5, <1>7
  <1>10. Bound(R, D[1], blocks', <<Frame(k, s, to, owed)>>)
    BY <1>2, <1>7, <1>9, BoundFrame
  <1>11. LabelsUnchanged /\ FunctionUnchanged
    BY DEF OnlyBlocks
  <1> QED BY <1>4, <1>5, <1>6, <1>8, <1>10, <1>11, BoundConcat, GoesOn

(* WHILE.                                                                  *)
LEMMA GenWhileWithin ==
    ASSUME IInv, NEW R, NEW depth, NEW F, NEW D, Here(R, depth, F, D), GenWhile
    PROVE  BInv(R, depth)'
  <1> DEFINE bs == Emit(Create(blocks, 3, curFunc), insert, <<Br(Fresh(1))>>)
             k  == "endwhile"
  <1>1. /\ status = "generating" /\ work # <<>> /\ Top.k = "gen"
        /\ Top.s.kind = NodeOf[k] /\ OnlyBlocks
        /\ blocks' = Emit(bs, Fresh(1), <<CondBr(Top.s.expr, Fresh(2), Fresh(3))>>)
        /\ insert' = Fresh(2)
        /\ Continue(<<Gen(Top.s.stmts[1]),
                      Frame(k, Top.s, <<Fresh(1)>>, <<Fresh(3)>>)>>)
    BY DEF GenWhile, AtNode, NodeOf
  <1>2. /\ Grown(blocks) /\ Len(blocks) \in Nat /\ curFunc \in Nat /\ Ours(blocks, insert)
    BY <1>1, Enter
  <1>3. Grown(bs) /\ \A i \in 1..3 : Ours(bs, Fresh(i))
    <2> DEFINE n == 3
    <2>1. n \in Nat /\ n >= 1 /\ bs = Emit(Create(blocks, n, curFunc), insert, <<Br(Fresh(1))>>)
      OBVIOUS
    <2> HIDE DEF bs, n
    <2>2. Grown(bs) /\ \A i \in 1..n : Ours(bs, Fresh(i))
      BY <1>2, <2>1, GrownEnter
    <2> QED BY <2>2 DEF n
  <1>4. k \in {"endwhile", "endfor"}
    OBVIOUS
  <1> HIDE DEF bs, k
  <1> QED BY <1>1, <1>3, <1>4, LoopWithin

(* FOR, behind the evaluation of its bounds.                               *)
LEMMA GenForWithin ==
    ASSUME IInv, NEW R, NEW depth, NEW F, NEW D, Here(R, depth, F, D), GenFor
    PROVE  BInv(R, depth)'
  <1> DEFINE es == <<Top.s.end>> \o Top.s.step \o Top.s.start
             jump == Br(Fresh(1))
             instrs == Evals(es) \o <<jump>>
             cs == Create(blocks, 3, curFunc)
             bs == Emit(cs, insert, instrs)
             k  == "endfor"
  <1>1. /\ status = "generating" /\ work # <<>> /\ Top.k = "gen"
        /\ Top.s.kind = "For" /\ OnlyBlocks
        /\ blocks' = Emit(bs, Fresh(1), <<CondBr(Top.s.expr, Fresh(2), Fresh(3))>>)
        /\ insert' = Fresh(2)
        /\ Continue(<<Gen(Top.s.stmts[1]),
                      Frame(k, Top.s, <<Fresh(1)>>, <<Fresh(3)>>)>>)
    BY DEF GenFor, AtNode
  <1>2. /\ Grown(blocks) /\ Len(blocks) \in Nat /\ curFunc \in Nat /\ Ours(blocks, insert)
    BY <1>1, Enter
  <1>3. es \in Seq(Expr)
    <2>1. <<Top.s.end>> \in Seq(Expr) /\ Top.s.step \in Seq(Expr) /\ Top.s.start \in Seq(Expr)
      BY <1>1, Begin DEF WellFormedNode, Optional
    <2>2. <<Top.s.end>> \o Top.s.step \in Seq(Expr)
      BY <2>1, ConcatProperties
    <2> QED BY <2>1, <2>2, ConcatProperties
  <1>4. Fresh(1) \in Nat /\ \A i \in 1..3 : Fresh(i) \in (Len(blocks) + 1)..(Len(blocks) + 3)
    BY <1>2 DEF Fresh
  <1>5. instrs \in Seq(InstructionSet)
    BY <1>3, <1>4, EvalsOpen
  <1>6. \A i \in DOMAIN instrs : instrs[i] = jump \/ \E e : instrs[i] = Eval(e)
    <2>1. jump \in InstructionSet
      BY <1>4 DEF Br, Instruction, InstructionSet, Ops, Terminators, Optional
    <2>2. /\ Evals(es) \in Seq(InstructionSet) /\ DOMAIN Evals(es) = 1..Len(es)
          /\ \A i \in DOMAIN Evals(es) : Evals(es)[i] = Eval(es[i])
      <3> HIDE DEF es
      <3>1. \A i \in 1..Len(es) : es[i] \in Expr
        BY <1>3
      <3>2. \A i \in 1..Len(es) : Eval(es[i]) \in InstructionSet
        BY <1>4, <3>1, Branches
      <3>3. Len(es) \in Nat
        BY <1>3, LenProperties
      <3> QED BY <3>2, <3>3 DEF Evals
    <2> DEFINE before == Evals(es)
               last == <<jump>>
    <2>3. last \in Seq(InstructionSet) /\ \A i \in DOMAIN last : last[i] = jump
      BY <2>1
    <2> HIDE DEF before, last
    <2>4. \A i \in DOMAIN (before \o last) :
             \/ i \in DOMAIN before /\ (before \o last)[i] = before[i]
             \/ i - Len(before) \in DOMAIN last /\ (before \o last)[i] = last[i - Len(before)]
      BY <2>2, <2>3, ConcatElements DEF before
    <2>5. instrs = before \o last
      BY DEF before, last
    <2> HIDE DEF instrs, jump, es
    <2> QED BY <2>2, <2>3, <2>4, <2>5 DEF before
  <1> HIDE DEF es
  <1>7. /\ Grown(cs) /\ Ours(cs, insert) /\ \A i \in 1..3 : Ours(cs, Fresh(i))
    BY <1>2, <1>4, GrownCreate
  <1> HIDE DEF cs
  <1>8. \A i \in DOMAIN instrs : Into(cs, curFunc, instrs[i])
    <2>1. Ours(cs, Fresh(1)) 
      BY <1>7
    <2> HIDE DEF instrs
    <2> QED BY <1>6, <2>1, InstructionsInto
  <1> HIDE DEF instrs
  <1>9. Grown(bs) /\ \A i \in 1..3 : Ours(bs, Fresh(i))
    <2>1. Grown(bs) /\ \A t : Ours(cs, t) => Ours(bs, t)
      BY <1>5, <1>7, <1>8, GrownEmit
    <2> QED BY <1>7, <2>1
  <1>10. k \in {"endwhile", "endfor"} /\ NodeOf[k] = "For"
    BY DEF NodeOf
  <1> HIDE DEF bs, k
  <1> QED BY <1>1, <1>9, <1>10, LoopWithin

(* The end of a loop with UNTIL: the test of it in a block of its own.     *)
LEMMA UntilWithin ==
    ASSUME NEW n \in Nat, n >= 1, Grown(blocks), Len(blocks) \in Nat, curFunc \in Nat,
           Ours(blocks, insert), NEW e \in Expr,
           NEW yes, Ours(blocks, yes) \/ \E i \in 1..n : yes = Fresh(i),
           NEW no, Ours(blocks, no) \/ \E i \in 1..n : no = Fresh(i),
           NEW cs, cs = Emit(FallTo(Create(blocks, n, curFunc), insert, Fresh(1)),
                             Fresh(1), <<CondBr(e, yes, no)>>)
    PROVE  /\ Grown(cs) /\ Len(cs) = Len(blocks) + n
           /\ \A t : Ours(blocks, t) => Ours(cs, t)
           /\ \A i \in 1..n : Ours(cs, Fresh(i))
  <1> DEFINE bs == FallTo(Create(blocks, n, curFunc), insert, Fresh(1))
  <1>1. /\ Grown(bs) /\ Len(bs) = Len(blocks) + n
        /\ \A t : Ours(blocks, t) => Ours(bs, t)
        /\ \A i \in 1..n : Ours(bs, Fresh(i))
    BY GrownEnter
  <1> HIDE DEF bs
  <1>2. Ours(bs, yes) /\ Ours(bs, no) /\ Ours(bs, Fresh(1))
    BY <1>1
  <1>3. cs = Emit(bs, Fresh(1), <<CondBr(e, yes, no)>>)
    BY DEF bs
  <1>4. /\ Grown(cs) /\ Len(cs) = Len(bs) /\ \A t : Ours(bs, t) => Ours(cs, t)
    BY <1>1, <1>2, <1>3, GrownCondBr
  <1> QED BY <1>1, <1>4

(* What the end of a loop remembers.                                       *)
LEMMA LoopAims ==
    ASSUME IInv, NEW R, NEW depth, NEW F, NEW D, Here(R, depth, F, D),
           status = "generating", work # <<>>,
           Top.k \in {"endwhile", "endfor", "endrepeat"}
    PROVE  Ours(blocks, Top.to[1]) /\ Ours(blocks, Top.owed[1])
  <1>1. Top.owed[1] \in OwedBy(Top)
    BY OneExitOwed DEF OneExit
  <1> QED BY <1>1, Enter DEF Aims

(* The end of WHILE goes back to the condition that its frame remembers.   *)
LEMMA EndWhileWithin ==
    ASSUME IInv, NEW R, NEW depth, NEW F, NEW D, Here(R, depth, F, D), EndWhile
    PROVE  BInv(R, depth)'
  <1> DEFINE s == Top.s
             condBB == Top.to[1]
             exitBB == Top.owed[1]
  <1>1. /\ status = "generating" /\ work # <<>> /\ Top.k = "endwhile"
        /\ LabelsUnchanged /\ FunctionUnchanged
        /\ \/ s.until = <<>> /\ blocks' = FallTo(blocks, insert, condBB)
           \/ /\ s.until # <<>>
              /\ blocks' = Emit(FallTo(Create(blocks, 1, curFunc), insert, Fresh(1)),
                                Fresh(1), <<CondBr(s.until[1], exitBB, condBB)>>)
        /\ insert' = exitBB /\ Continue(<<>>)
    BY DEF EndWhile, AtFrame, OnlyBlocks
  <1>2. /\ Grown(blocks) /\ Len(blocks) \in Nat /\ curFunc \in Nat /\ Ours(blocks, insert)
        /\ Ours(blocks, condBB) /\ Ours(blocks, exitBB)
    BY <1>1, Enter, LoopAims
  <1>3. s.until # <<>> => s.until[1] \in Expr
    BY <1>1, Begin DEF FrameOK, NodeOf, WellFormedNode, Optional
  <1> HIDE DEF s, condBB, exitBB
  <1>4. Grown(blocks') /\ Ours(blocks', exitBB)
    <2>1. CASE s.until = <<>>
      BY <1>1, <1>2, <2>1, GrownFallTo
    <2>2. CASE s.until # <<>>
      BY <1>1, <1>2, <1>3, <2>2, UntilWithin
    <2> QED BY <2>1, <2>2
  <1> QED BY <1>1, <1>4, Returning

(* The end of FOR does so behind the step.                                 *)
LEMMA EndForWithin ==
    ASSUME IInv, NEW R, NEW depth, NEW F, NEW D, Here(R, depth, F, D), EndFor
    PROVE  BInv(R, depth)'
  <1> DEFINE s == Top.s
             condBB == Top.to[1]
             exitBB == Top.owed[1]
             step == Step(s.expr)
             last == <<step, Br(condBB)>>
             test == Emit(FallTo(Create(blocks, 2, curFunc), insert, Fresh(1)),
                          Fresh(1), <<CondBr(s.until[1], exitBB, Fresh(2))>>)
             mid == Emit(blocks, insert, <<step>>)
  <1>1. /\ status = "generating" /\ work # <<>> /\ Top.k = "endfor"
        /\ LabelsUnchanged /\ FunctionUnchanged
        /\ \/ s.until = <<>> /\ blocks' = FallTo(mid, insert, condBB)
           \/ s.until # <<>> /\ blocks' = Emit(test, Fresh(2), last)
        /\ insert' = exitBB /\ Continue(<<>>)
    BY DEF EndFor, AtFrame, OnlyBlocks
  <1>2. /\ Grown(blocks) /\ Len(blocks) \in Nat /\ curFunc \in Nat /\ Ours(blocks, insert)
        /\ Ours(blocks, condBB) /\ Ours(blocks, exitBB)
    BY <1>1, Enter, LoopAims
  <1>3. /\ s.until # <<>> => s.until[1] \in Expr
        /\ s.expr \in Expr
    BY <1>1, Begin DEF FrameOK, NodeOf, WellFormedNode, Optional
  <1>4. condBB \in Nat
    BY <1>2 DEF Ours
  <1>5. step \in InstructionSet /\ Br(condBB) \in InstructionSet
    BY <1>3, <1>4, Branches
  <1>6. /\ last \in Seq(InstructionSet)
        /\ \A i \in DOMAIN last : last[i] = step \/ last[i] = Br(condBB)
    <2> HIDE DEF step, condBB
    <2> QED BY <1>5
  <1>7. \A bs : Into(bs, curFunc, step)
    BY InstructionsInto
  <1> HIDE DEF s, condBB, exitBB, step, last
  <1>8. Grown(blocks') /\ Ours(blocks', exitBB)
    <2>1. CASE s.until = <<>>
      <3>1. /\ Grown(mid) /\ Ours(mid, insert) /\ Ours(mid, condBB) /\ Ours(mid, exitBB)
        BY <1>2, <1>5, <1>7, GrownEmitOne
      <3> HIDE DEF mid
      <3> QED BY <1>1, <2>1, <3>1, GrownFallTo
    <2>2. CASE s.until # <<>>
      <3>1. Grown(test) /\ Ours(test, exitBB) /\ Ours(test, condBB) /\ Ours(test, Fresh(2))
        <4> DEFINE n == 2
                   e == s.until[1]
                   no == Fresh(2)
        <4>1. /\ n \in Nat /\ n >= 1 /\ e \in Expr /\ no = Fresh(2) /\ 2 \in 1..n
              /\ test = Emit(FallTo(Create(blocks, n, curFunc), insert, Fresh(1)),
                             Fresh(1), <<CondBr(e, exitBB, no)>>)
          BY <1>3, <2>2
        <4> HIDE DEF n, e, no, test
        <4>2. no = Fresh(2) => \E i \in 1..n : no = Fresh(i)
          BY <4>1
        <4>3. /\ Grown(test) /\ \A t : Ours(blocks, t) => Ours(test, t)
              /\ \A i \in 1..n : Ours(test, Fresh(i))
          BY <1>2, <4>1, <4>2, UntilWithin
        <4> QED BY <1>2, <4>1, <4>3
      <3> HIDE DEF test
      <3>2. \A i \in DOMAIN last : Into(test, curFunc, last[i])
        BY <1>6, <1>7, <3>1, InstructionsInto
      <3> QED BY <1>1, <1>6, <2>2, <3>1, <3>2, GrownEmit
    <2> QED BY <2>1, <2>2
  <1> QED BY <1>1, <1>8, Returning

(* DO and REPEAT, once they have branched to their body.                   *)
LEMMA BodyWithin ==
    ASSUME IInv, NEW R, NEW depth, NEW F, NEW D, Here(R, depth, F, D),
           status = "generating", work # <<>>, Top.k = "gen", OnlyBlocks,
           NEW k \in {"enddo", "endrepeat"}, Top.s.kind = NodeOf[k],
           Grown(blocks'), Ours(blocks', Fresh(1)), insert' = Fresh(1),
           NEW to \in Seq(Nat), to = <<Fresh(1)>>, NEW owed \in Seq(Nat),
           \A i \in DOMAIN owed : Ours(blocks', owed[i]),
           Continue(GenAll(Top.s.stmts) \o <<Frame(k, Top.s, to, owed)>>)
    PROVE  BInv(R, depth)'
  <1> DEFINE s == Top.s
             q == s.stmts
  <1>1. s.kind \in {"Do", "Repeat"}
    BY DEF NodeOf
  <1>2. /\ s \in Node /\ <<s, D[1]>> \in R
        /\ \A c \in Children(s) : <<c, D[1]>> \in R
    BY <1>1, Enter
  <1>3. q \in Seq(Node) /\ \A i \in DOMAIN q : <<q[i], D[1]>> \in R
    <2>1. q \in Seq(Node)
      BY <1>1, Begin DEF WellFormedNode, Optional
    <2> QED BY <1>1, <1>2, <2>1 DEF Children
  <1>4. /\ 1 \in DOMAIN to /\ \A i \in DOMAIN to : to[i] = Fresh(1)
        /\ k \in FrameKinds \ {"endproc", "arm"}
    BY DEF FrameKinds
  <1>5. Continue(GenAll(q) \o <<Frame(k, s, to, owed)>>)
    OBVIOUS
  <1> HIDE DEF s, q
  <1>6. Bound(R, D[1], blocks', GenAll(q))
    BY <1>3, BoundNodes
  <1>7. Bound(R, D[1], blocks', <<Frame(k, s, to, owed)>>)
    BY <1>2, <1>4, BoundFrame
  <1>8. LabelsUnchanged /\ FunctionUnchanged
    BY DEF OnlyBlocks
  <1> QED BY <1>5, <1>6, <1>7, <1>8, BoundConcat, GoesOn

(* DO.                                                                     *)
LEMMA GenDoWithin ==
    ASSUME IInv, NEW R, NEW depth, NEW F, NEW D, Here(R, depth, F, D), GenDo
    PROVE  BInv(R, depth)'
  <1> DEFINE k == "enddo"
             n == 1
             to == <<Fresh(1)>>
             owed == <<>>
  <1>1. /\ status = "generating" /\ work # <<>> /\ Top.k = "gen"
        /\ Top.s.kind = NodeOf[k] /\ OnlyBlocks
        /\ blocks' = Emit(Create(blocks, n, curFunc), insert, <<Br(Fresh(1))>>)
        /\ insert' = Fresh(1)
        /\ Continue(GenAll(Top.s.stmts) \o <<Frame(k, Top.s, to, owed)>>)
    BY DEF GenDo, AtNode, NodeOf
  <1>2. /\ Grown(blocks) /\ Len(blocks) \in Nat /\ curFunc \in Nat /\ Ours(blocks, insert)
    BY <1>1, Enter
  <1>3. /\ k \in {"enddo", "endrepeat"} /\ n \in Nat /\ n >= 1 /\ 1 \in 1..n
        /\ to = <<Fresh(1)>> /\ to \in Seq(Nat) /\ owed \in Seq(Nat) /\ DOMAIN owed = {}
    BY <1>2 DEF Fresh
  <1> HIDE DEF k, n, to, owed
  <1>4. Grown(blocks') /\ Ours(blocks', Fresh(1))
    BY <1>1, <1>2, <1>3, GrownEnter
  <1> QED BY <1>1, <1>3, <1>4, BodyWithin

(* REPEAT.                                                                 *)
LEMMA GenRepeatWithin ==
    ASSUME IInv, NEW R, NEW depth, NEW F, NEW D, Here(R, depth, F, D), GenRepeat
    PROVE  BInv(R, depth)'
  <1> DEFINE k == "endrepeat"
             n == 2
             to == <<Fresh(1)>>
             owed == <<Fresh(2)>>
  <1>1. /\ status = "generating" /\ work # <<>> /\ Top.k = "gen"
        /\ Top.s.kind = NodeOf[k] /\ OnlyBlocks
        /\ blocks' = Emit(Create(blocks, n, curFunc), insert, <<Br(Fresh(1))>>)
        /\ insert' = Fresh(1)
        /\ Continue(GenAll(Top.s.stmts) \o <<Frame(k, Top.s, to, owed)>>)
    BY DEF GenRepeat, AtNode, NodeOf
  <1>2. /\ Grown(blocks) /\ Len(blocks) \in Nat /\ curFunc \in Nat /\ Ours(blocks, insert)
    BY <1>1, Enter
  <1>3. /\ k \in {"enddo", "endrepeat"} /\ n \in Nat /\ n >= 1 /\ 1 \in 1..n /\ 2 \in 1..n
        /\ to = <<Fresh(1)>> /\ to \in Seq(Nat) /\ owed \in Seq(Nat)
        /\ \A i \in DOMAIN owed : owed[i] = Fresh(2)
    BY <1>2 DEF Fresh
  <1> HIDE DEF k, n, to, owed
  <1>4. Grown(blocks') /\ Ours(blocks', Fresh(1)) /\ Ours(blocks', Fresh(2))
    BY <1>1, <1>2, <1>3, GrownEnter
  <1>5. \A i \in DOMAIN owed : Ours(blocks', owed[i])
    BY <1>3, <1>4
  <1> QED BY <1>1, <1>3, <1>4, <1>5, BodyWithin

(* The end of REPEAT branches back or out.                                 *)
LEMMA EndRepeatWithin ==
    ASSUME IInv, NEW R, NEW depth, NEW F, NEW D, Here(R, depth, F, D), EndRepeat
    PROVE  BInv(R, depth)'
  <1> DEFINE s == Top.s
             back == Top.to[1]
             exit == Top.owed[1]
  <1>1. /\ status = "generating" /\ work # <<>> /\ Top.k = "endrepeat"
        /\ LabelsUnchanged /\ FunctionUnchanged
        /\ blocks' = Emit(blocks, insert, <<CondBr(s.expr, exit, back)>>)
        /\ insert' = exit /\ Continue(<<>>)
    BY DEF EndRepeat, AtFrame, OnlyBlocks
  <1>2. /\ Grown(blocks) /\ Ours(blocks, insert)
        /\ Ours(blocks, back) /\ Ours(blocks, exit)
    BY <1>1, Enter, LoopAims
  <1>3. s.expr \in Expr
    BY <1>1, Begin DEF FrameOK, NodeOf, WellFormedNode
  <1> HIDE DEF s, back, exit
  <1>4. Grown(blocks') /\ Ours(blocks', exit)
    BY <1>1, <1>2, <1>3, GrownCondBr
  <1> QED BY <1>1, <1>4, Returning

(* The end of DO.                                                          *)
LEMMA EndDoWithin ==
    ASSUME IInv, NEW R, NEW depth, NEW F, NEW D, Here(R, depth, F, D), EndDo
    PROVE  BInv(R, depth)'
  <1> DEFINE s == Top.s
             body == Top.to[1]
             m == 1
             n == 2
             no == Fresh(2)
             e == s.until[1]
             mid == FallTo(blocks, insert, body)
  <1>1. /\ status = "generating" /\ work # <<>> /\ Top.k = "enddo"
        /\ LabelsUnchanged /\ FunctionUnchanged
        /\ \/ s.until = <<>> /\ blocks' = Create(mid, m, curFunc) /\ insert' = Fresh(1)
           \/ /\ s.until # <<>> /\ insert' = no
              /\ blocks' = Emit(FallTo(Create(blocks, n, curFunc), insert, Fresh(1)),
                                Fresh(1), <<CondBr(e, no, body)>>)
        /\ Continue(<<>>)
    BY DEF EndDo, AtFrame, OnlyBlocks
  <1>2. /\ Grown(blocks) /\ Len(blocks) \in Nat /\ curFunc \in Nat /\ Ours(blocks, insert)
        /\ Ours(blocks, body)
    BY <1>1, Enter DEF Aims
  <1>3. s.until # <<>> => e \in Expr
    BY <1>1, Begin DEF FrameOK, NodeOf, WellFormedNode, Optional
  <1>4. /\ m = 1 /\ m \in Nat /\ n \in Nat /\ n >= 1 /\ no = Fresh(2) /\ 2 \in 1..n
    OBVIOUS
  <1> HIDE DEF s, body, m, n, no, e
  <1>5. Grown(blocks') /\ Ours(blocks', insert')
    <2>1. CASE s.until = <<>>
      <3>1. Grown(mid) /\ Len(mid) = Len(blocks)
        BY <1>2, GrownFallTo
      <3> HIDE DEF mid
      <3>2. /\ Grown(blocks') /\ \A t \in (Len(mid) + 1)..(Len(mid) + m) : Ours(blocks', t)
        BY <1>1, <1>2, <1>4, <2>1, <3>1, GrownCreate
      <3>3. Fresh(1) \in (Len(mid) + 1)..(Len(mid) + m)
        BY <1>2, <1>4, <3>1 DEF Fresh
      <3> QED BY <1>1, <2>1, <3>2, <3>3
    <2>2. CASE s.until # <<>>
      <3>1. \E i \in 1..n : no = Fresh(i)
        BY <1>4
      <3>2. Grown(blocks') /\ \A i \in 1..n : Ours(blocks', Fresh(i))
        BY <1>1, <1>2, <1>3, <1>4, <2>2, <3>1, UntilWithin
      <3> QED BY <1>1, <1>4, <2>2, <3>2
    <2> QED BY <2>1, <2>2
  <1> QED BY <1>1, <1>5, Returning

(* The arms of a CASE remember the switch, which is in their function.     *)
LEMMA BoundArms ==
    ASSUME NEW R, NEW n, NEW bs, NEW s, <<s, n>> \in R,
           NEW b, Ours(bs, b), NEW merge, Ours(bs, merge),
           NEW arms \in Seq(FrameSet),
           \A i \in 1..Len(arms) : /\ arms[i].k = "arm" /\ arms[i].s = s
                                   /\ arms[i].owed = <<>>
                                   /\ arms[i].to[1] = b /\ arms[i].to[4] = merge
    PROVE  Bound(R, n, bs, arms)
  <1>1. ASSUME NEW i \in 1..Len(arms)
        PROVE  \A t : Aims(arms[i], t) => t = b \/ t = merge
    BY DEF Aims, OwedBy
  <1> QED BY <1>1 DEF Bound

(* CASE.                                                                   *)
LEMMA GenCaseWithin ==
    ASSUME IInv, NEW R, NEW depth, NEW F, NEW D, Here(R, depth, F, D), GenCase
    PROVE  BInv(R, depth)'
  <1> DEFINE s == Top.s
             m == Len(s.stmts)
             n == 2
             default == Fresh(1)
             merge == Fresh(2)
             at == Len(blocks[insert].ins) + 1
             k == "endcase"
             to == <<>>
             owed == <<default, merge>>
             arms == [i \in 1..m |-> Frame("arm", s, <<insert, at, i, merge>>, <<>>)]
             switch == Switch(s.expr, default)
             bs == Create(blocks, n, curFunc)
  <1>1. /\ status = "generating" /\ work # <<>> /\ Top.k = "gen" /\ s.kind = "Case"
        /\ LabelsUnchanged /\ FunctionUnchanged
        /\ blocks' = Emit(bs, insert, <<switch>>) /\ insert' = insert
        /\ Continue(arms \o <<Frame(k, s, to, owed)>>)
    BY DEF GenCase, AtNode, OnlyBlocks
  <1>2. /\ Grown(blocks) /\ Len(blocks) \in Nat /\ curFunc \in Nat /\ Ours(blocks, insert)
        /\ s \in Node /\ <<s, D[1]>> \in R
    BY <1>1, Enter
  <1>3. s.expr \in Expr /\ m \in Nat
    <2>1. s.expr \in Expr /\ s.stmts \in Seq(Node)
      BY <1>1, Begin DEF WellFormedNode
    <2> QED BY <2>1, LenProperties
  <1>4. at \in Nat /\ insert \in Nat
    <2>1. blocks[insert] \in BlockSet /\ insert \in Nat
      BY <1>1, Begin
    <2>2. blocks[insert].ins \in Seq(InstructionSet)
      BY <2>1 DEF BlockSet
    <2> QED BY <2>1, <2>2, LenProperties
  <1>5. /\ default \in (Len(blocks) + 1)..(Len(blocks) + n)
        /\ merge \in (Len(blocks) + 1)..(Len(blocks) + n)
        /\ default \in Nat /\ merge \in Nat /\ n \in Nat
        /\ k \in FrameKinds \ {"endproc", "arm"}
        /\ k \notin {"endwhile", "endfor", "enddo", "endrepeat", "endarm"}
    BY <1>2 DEF Fresh, FrameKinds
  <1> HIDE DEF s, m, n, default, merge, at, k
  <1>6. /\ to \in Seq(Nat) /\ DOMAIN to = {} /\ owed \in Seq(Nat)
        /\ \A i \in DOMAIN owed : owed[i] = default \/ owed[i] = merge
    BY <1>5
  <1>7. switch \in InstructionSet /\ \A cs : Ours(cs, default) => Into(cs, curFunc, switch)
    BY <1>3, <1>5, Branches, InstructionsInto
  <1> HIDE DEF to, owed, switch
  <1>8. Grown(bs) /\ Ours(bs, insert) /\ Ours(bs, default) /\ Ours(bs, merge)
    BY <1>2, <1>5, GrownCreate
  <1> HIDE DEF bs
  <1>9. /\ Grown(blocks') /\ Ours(blocks', insert)
        /\ Ours(blocks', default) /\ Ours(blocks', merge)
    BY <1>1, <1>7, <1>8, GrownEmitOne
  <1>10. Bound(R, D[1], blocks', arms)
    <2>1. ASSUME NEW i \in 1..m
          PROVE  /\ arms[i] \in FrameSet /\ arms[i].k = "arm" /\ arms[i].s = s
                 /\ arms[i].owed = <<>>
                 /\ arms[i].to[1] = insert /\ arms[i].to[4] = merge
      <3> DEFINE at4 == <<insert, at, i, merge>>
                 none == <<>>
      <3>1. at4 \in Seq(Nat) /\ at4[1] = insert /\ at4[4] = merge /\ none \in Seq(Nat)
        BY <1>4, <1>5
      <3>2. arms[i] = Frame("arm", s, at4, none)
        OBVIOUS
      <3> HIDE DEF at4, arms
      <3> QED BY <1>2, <3>1, <3>2 DEF Frame, FrameSet, FrameKinds
    <2>4. arms \in Seq(FrameSet) /\ Len(arms) = m
      BY <1>3, <2>1
    <2> DEFINE d == D[1]
    <2>2. <<s, d>> \in R
      BY <1>2
    <2> HIDE DEF arms, d
    <2>3. \A cs : Ours(cs, insert) /\ Ours(cs, merge) => Bound(R, d, cs, arms)
      BY <2>1, <2>2, <2>4, BoundArms
    <2> QED BY <1>9, <2>3 DEF d
  <1>11. Bound(R, D[1], blocks', <<Frame(k, s, to, owed)>>)
    <2>1. \A i \in DOMAIN owed : Ours(blocks', owed[i])
      BY <1>6, <1>9
    <2> QED BY <1>2, <1>5, <1>6, <2>1, BoundFrame
  <1> HIDE DEF arms
  <1> QED BY <1>1, <1>9, <1>10, <1>11, BoundConcat, GoesOn DEF s

(* An arm of it: the switch is in this function, and so is its block.      *)
LEMMA GenArmWithin ==
    ASSUME IInv, NEW R, NEW depth, NEW F, NEW D, Here(R, depth, F, D), GenArm
    PROVE  BInv(R, depth)'
  <1> DEFINE s == Top.s
             i == Top.to[3]
             b == Top.to[1]
             p == Top.to[2]
             v == CaseValues(s)[i]
             x == s.stmts[i]
             armBB == Fresh(1)
             merge == Top.to[4]
             n == 1
             k == "endarm"
             to == <<merge>>
             owed == <<>>
             bs == Create(blocks, n, curFunc)
  <1>1. /\ status = "generating" /\ work # <<>> /\ Top.k = "arm"
        /\ LabelsUnchanged /\ FunctionUnchanged
        /\ blocks' = AddCase(bs, b, p, v, armBB) /\ insert' = armBB
        /\ Continue(<<Gen(x), Frame(k, s, to, owed)>>)
    BY DEF GenArm, AtFrame, OnlyBlocks
  <1>2. /\ Grown(blocks) /\ Len(blocks) \in Nat /\ curFunc \in Nat
        /\ s \in Node /\ <<s, D[1]>> \in R
        /\ s.kind # "Proc" => \A c \in Children(s) : <<c, D[1]>> \in R
        /\ Ours(blocks, b) /\ Ours(blocks, merge)
    BY <1>1, Enter DEF Aims
  <1>3. /\ s.kind = "Case" /\ i \in DOMAIN s.stmts
        /\ s.stmts \in Seq(Node) /\ CaseValues(s) \in Seq(Nat)
        /\ DOMAIN CaseValues(s) = 1..Len(s.stmts)
        /\ Top.to \in Seq(Nat) /\ Len(Top.to) = 4
    <2>1. /\ s.kind = "Case" /\ i \in DOMAIN s.stmts
          /\ Top.to \in Seq(Nat) /\ Len(Top.to) = 4
      BY <1>1, Begin DEF FrameOK, NodeOf, FrameSet
    <2>2. s.stmts \in Seq(Node)
      BY <1>1, <2>1, Begin DEF WellFormedNode
    <2>3. CaseValues(s) \in Seq(Nat) /\ DOMAIN CaseValues(s) = 1..Len(s.stmts)
      <3> HIDE DEF s
      <3> QED BY <1>2, <2>1, CaseValuesProperties
    <2> QED BY <2>1, <2>2, <2>3
  <1>4. p \in Nat /\ merge \in Nat
    <2>1. Top.to \in Seq(Nat) /\ Len(Top.to) = 4
      BY <1>3
    <2> HIDE DEF s, i
    <2> QED BY <2>1
  <1>5. x \in Node /\ v \in Nat
    <2>1. DOMAIN s.stmts = 1..Len(s.stmts)
      BY <1>3, LenProperties
    <2> HIDE DEF i, s
    <2> QED BY <1>3, <2>1
  <1>6. <<x, D[1]>> \in R
    BY <1>2, <1>3 DEF Children
  <1>7. /\ armBB \in (Len(blocks) + 1)..(Len(blocks) + n) /\ n \in Nat
        /\ k \in FrameKinds \ {"endproc", "arm"}
    BY <1>2 DEF Fresh, FrameKinds
  <1>8. /\ to \in Seq(Nat) /\ 1 \in DOMAIN to /\ \A j \in DOMAIN to : to[j] = merge
        /\ owed \in Seq(Nat) /\ DOMAIN owed = {}
    BY <1>4
  <1>9. Continue(<<Gen(x)>> \o <<Frame(k, s, to, owed)>>)
    BY <1>1, PairIsConcat
  <1> HIDE DEF s, i, b, p, v, x, armBB, merge, n, k, to, owed
  <1>10. Grown(bs) /\ Ours(bs, b) /\ Ours(bs, merge) /\ Ours(bs, armBB)
    BY <1>2, <1>7, GrownCreate
  <1> HIDE DEF bs
  <1>11. Grown(blocks') /\ Ours(blocks', armBB) /\ Ours(blocks', merge)
    <2>1. Grown(blocks') /\ \A t : Ours(bs, t) => Ours(blocks', t)
      <3>1. \A cs : cs = AddCase(bs, b, p, v, armBB) =>
                       Grown(cs) /\ \A t : Ours(bs, t) => Ours(cs, t)
        BY <1>4, <1>5, <1>10, GrownAddCase
      <3> QED BY <1>1, <3>1
    <2> QED BY <1>10, <2>1
  <1>12. Bound(R, D[1], blocks', <<Gen(x)>>)
    BY <1>5, <1>6, BoundNode
  <1>13. Bound(R, D[1], blocks', <<Frame(k, s, to, owed)>>)
    <2>1. \A j \in DOMAIN to : Ours(blocks', to[j])
      BY <1>8, <1>11
    <2> QED BY <1>2, <1>7, <1>8, <2>1, BoundFrame
  <1> QED BY <1>1, <1>9, <1>11, <1>12, <1>13, BoundConcat, GoesOn

(* The end of an arm branches to merge.                                    *)
LEMMA EndArmWithin ==
    ASSUME IInv, NEW R, NEW depth, NEW F, NEW D, Here(R, depth, F, D), EndArm
    PROVE  BInv(R, depth)'
  <1>1. /\ status = "generating" /\ work # <<>> /\ Top.k = "endarm"
        /\ LabelsUnchanged /\ FunctionUnchanged
        /\ blocks' = FallTo(blocks, insert, Top.to[1])
        /\ insert' = insert /\ Continue(<<>>)
    BY DEF EndArm, AtFrame, OnlyBlocks
  <1>2. Grown(blocks) /\ Ours(blocks, insert) /\ Ours(blocks, Top.to[1])
    BY <1>1, Enter DEF Aims
  <1>3. Grown(blocks') /\ Ours(blocks', insert)
    BY <1>1, <1>2, GrownFallTo
  <1> QED BY <1>1, <1>3, Returning

(* The end of CASE: the default's block branches to merge as well.         *)
LEMMA EndCaseWithin ==
    ASSUME IInv, NEW R, NEW depth, NEW F, NEW D, Here(R, depth, F, D), EndCase
    PROVE  BInv(R, depth)'
  <1> DEFINE default == Top.owed[1]
             merge == Top.owed[2]
  <1>1. /\ status = "generating" /\ work # <<>> /\ Top.k = "endcase"
        /\ LabelsUnchanged /\ FunctionUnchanged
        /\ blocks' = Emit(blocks, default, <<Br(merge)>>)
        /\ insert' = merge /\ Continue(<<>>)
    BY DEF EndCase, AtFrame, OnlyBlocks
  <1>2. Len(Top.owed) = 2 /\ Top.owed \in Seq(Nat)
    BY <1>1, Begin DEF FrameOK, FrameSet
  <1>3. 1 \in DOMAIN Top.owed /\ 2 \in DOMAIN Top.owed
    BY <1>2
  <1>4. Grown(blocks) /\ Ours(blocks, default) /\ Ours(blocks, merge)
    <2>1. default \in OwedBy(Top) /\ merge \in OwedBy(Top)
      BY <1>3 DEF OwedBy
    <2> QED BY <1>1, <2>1, Enter DEF Aims
  <1> HIDE DEF default, merge
  <1>5. Grown(blocks') /\ Ours(blocks', merge)
    BY <1>1, <1>4, GrownBr
  <1> QED BY <1>1, <1>5, Returning

(* RETURN ends the block.                                                  *)
LEMMA GenReturnWithin ==
    ASSUME IInv, NEW R, NEW depth, NEW F, NEW D, Here(R, depth, F, D), GenReturn
    PROVE  BInv(R, depth)'
  <1> DEFINE ret == IF Top.s.value = <<>> THEN RetVoid ELSE Ret(Top.s.value)
             mid == Emit(blocks, insert, <<ret>>)
             n == 1
  <1>1. /\ status = "generating" /\ work # <<>> /\ Top.k = "gen" /\ Top.s.kind = "Return"
        /\ LabelsUnchanged /\ FunctionUnchanged
        /\ blocks' = Create(mid, n, curFunc)
        /\ insert' = Fresh(1) /\ Continue(<<>>)
    BY DEF GenReturn, AtNode, OnlyBlocks
  <1>2. /\ Grown(blocks) /\ Len(blocks) \in Nat /\ curFunc \in Nat /\ Ours(blocks, insert)
    BY <1>1, Enter
  <1>3. ret \in InstructionSet /\ Into(blocks, curFunc, ret)
    <2>1. Top.s.value \in Optional(Expr)
      BY <1>1, Begin DEF WellFormedNode
    <2>2. /\ RetVoid \in InstructionSet /\ Ret(Top.s.value) \in InstructionSet
          /\ Into(blocks, curFunc, RetVoid) /\ Into(blocks, curFunc, Ret(Top.s.value))
      BY <2>1, Returns, InstructionsInto
    <2> QED BY <2>2
  <1>4. n \in Nat /\ n = 1
    OBVIOUS
  <1> HIDE DEF ret, n
  <1>5. Grown(mid) /\ Len(mid) = Len(blocks)
    BY <1>2, <1>3, GrownEmitOne
  <1> HIDE DEF mid
  <1>6. Grown(blocks') /\ \A t \in (Len(mid) + 1)..(Len(mid) + n) : Ours(blocks', t)
    BY <1>1, <1>2, <1>4, <1>5, GrownCreate
  <1>7. Fresh(1) \in (Len(mid) + 1)..(Len(mid) + n)
    BY <1>2, <1>4, <1>5 DEF Fresh
  <1> QED BY <1>1, <1>6, <1>7, Returning

(* An instruction that branches nowhere.                                   *)
LEMMA EmitWithin ==
    ASSUME IInv, NEW R, NEW depth, NEW F, NEW D, Here(R, depth, F, D),
           status = "generating", work # <<>>, Top.k = "gen",
           LabelsUnchanged, FunctionUnchanged, Continue(<<>>), insert' = insert,
           NEW i \in InstructionSet, Into(blocks, curFunc, i),
           blocks' = Emit(blocks, insert, <<i>>)
    PROVE  BInv(R, depth)'
  <1>1. Grown(blocks) /\ Ours(blocks, insert)
    BY Enter
  <1>2. Grown(blocks') /\ Ours(blocks', insert')
    BY <1>1, GrownEmitOne
  <1> QED BY <1>2, Returning

(* Straight-line statements do not branch.                                 *)
LEMMA GenStraightLineWithin ==
    ASSUME IInv, NEW R, NEW depth, NEW F, NEW D, Here(R, depth, F, D), GenStraightLine
    PROVE  BInv(R, depth)'
  <1> DEFINE i == Eval(Top.s.expr)
  <1>1. /\ status = "generating" /\ work # <<>> /\ Top.k = "gen"
        /\ LabelsUnchanged /\ FunctionUnchanged /\ Top.s.kind \in StraightLine
        /\ blocks' = Emit(blocks, insert, <<i>>)
        /\ insert' = insert /\ Continue(<<>>)
    BY DEF GenStraightLine, AtNode, OnlyBlocks
  <1>2. Top.s.expr \in Expr
    BY <1>1, Begin DEF WellFormedNode
  <1>3. i \in InstructionSet /\ Into(blocks, curFunc, i)
    <2>1. Eval(Top.s.expr) \in InstructionSet
      BY <1>2 DEF Eval, Instruction, InstructionSet, Ops, Terminators, Optional
    <2> QED BY <2>1, InstructionsInto
  <1> HIDE DEF i
  <1> QED BY <1>1, <1>3, EmitWithin

(* Nothing that the invariant is about changes.                            *)
LEMMA UnmovedWithin ==
    ASSUME NEW R, NEW depth, BInv(R, depth),
           blocks' = blocks, insert' = insert, curFunc' = curFunc, labels' = labels,
           work' = work
    PROVE  BInv(R, depth)'
  <1> SUFFICES ASSUME NEW F \in [Nat -> Nat], NEW D \in [Nat -> Nat],
                      Within(R, depth, F, D)
               PROVE  Within(R, depth, F, D)'
    BY DEF BInv
  <1>1. Nested(F, D)' /\ Ours(blocks, insert)' /\ Local(blocks)'
    BY DEF Within, Nested, Ours
  <1>2. FramesIn(R, F, D)'
    BY DEF Within, FramesIn, FrameIn
  <1>3. LabelsIn(depth, D[1])'
    BY DEF Within, LabelsIn, Ours
  <1> QED BY <1>1, <1>2, <1>3 DEF Within

(* A call does not branch; one to an unknown name stops the generator.     *)
LEMMA GenCallWithin ==
    ASSUME IInv, NEW R, NEW depth, NEW F, NEW D, Here(R, depth, F, D), GenCall
    PROVE  BInv(R, depth)'
  <1> DEFINE f == LookupSymbol(scopes, Top.s.name)
             i == CallTo(f)
  <1>1. /\ status = "generating" /\ work # <<>> /\ Top.k = "gen"
        /\ Top.s.kind = "Call"
        /\ LabelsUnchanged /\ FunctionUnchanged /\ insert' = insert
        /\ \/ f # 0 /\ blocks' = Emit(blocks, insert, <<i>>) /\ Continue(<<>>)
           \/ f = 0 /\ blocks' = blocks /\ work' = work
    BY DEF GenCall, AtNode
  <1>2. Top.s.name \in Name /\ scopes \in Seq([Name -> Nat])
    BY <1>1, Begin DEF WellFormedNode, IInv, Typed, TypeOK
  <1>3. CASE f # 0
    <2>1. f \in Nat
      BY <1>2, <1>3, LookupIsNat
    <2>2. i \in InstructionSet /\ Into(blocks, curFunc, i)
      <3> HIDE DEF f
      <3>1. CallTo(f) \in InstructionSet
        BY <2>1 DEF CallTo, Instruction, InstructionSet, Ops, Terminators, Optional
      <3> QED BY <3>1, InstructionsInto
    <2> HIDE DEF f, i
    <2> QED BY <1>1, <1>3, <2>2, EmitWithin
  <1>4. CASE f = 0
    <2> HIDE DEF f, i
    <2>1. BInv(R, depth)
      BY DEF Here, BInv
    <2> QED BY <1>1, <1>4, <2>1, UnmovedWithin DEF LabelsUnchanged, FunctionUnchanged
  <1> QED BY <1>3, <1>4

(* FORWARD does nothing.                                                   *)
LEMMA GenForwardWithin ==
    ASSUME IInv, NEW R, NEW depth, NEW F, NEW D, Here(R, depth, F, D), GenForward
    PROVE  BInv(R, depth)'
  <1>1. /\ status = "generating" /\ work # <<>> /\ Top.k = "gen"
        /\ LabelsUnchanged /\ FunctionUnchanged
        /\ blocks' = blocks /\ insert' = insert /\ Continue(<<>>)
    BY DEF GenForward, AtNode, OnlyBlocks
  <1>2. Grown(blocks') /\ Ours(blocks', insert')
    BY <1>1, Enter
  <1> QED BY <1>1, <1>2, Returning

(* Nor does the end of a block.                                            *)
LEMMA EndBlockWithin ==
    ASSUME IInv, NEW R, NEW depth, NEW F, NEW D, Here(R, depth, F, D), EndBlock
    PROVE  BInv(R, depth)'
  <1>1. /\ status = "generating" /\ work # <<>> /\ Top.k = "endblock"
        /\ LabelsUnchanged /\ FunctionUnchanged
        /\ blocks' = blocks /\ insert' = insert /\ Continue(<<>>)
    BY DEF EndBlock, AtFrame
  <1>2. Grown(blocks') /\ Ours(blocks', insert')
    BY <1>1, Enter
  <1> QED BY <1>1, <1>2, Returning

(* The declarations and statements of a block are at its depth.            *)
LEMMA GenBlockWithin ==
    ASSUME IInv, NEW R, NEW depth, NEW F, NEW D, Here(R, depth, F, D), GenBlock
    PROVE  BInv(R, depth)'
  <1> DEFINE s == Top.s
             k == "endblock"
             none == <<>>
             decls == GenAll(s.decls)
             stmts == GenAll(s.stmts)
             end == <<Frame(k, s, none, none)>>
  <1>1. /\ status = "generating" /\ work # <<>> /\ Top.k = "gen" /\ s.kind = "Block"
        /\ LabelsUnchanged /\ FunctionUnchanged
        /\ blocks' = blocks /\ insert' = insert
        /\ Continue(decls \o stmts \o end)
    BY DEF GenBlock, AtNode
  <1>2. /\ Grown(blocks') /\ Ours(blocks', insert')
        /\ s \in Node /\ <<s, D[1]>> \in R
        /\ \A c \in Children(s) : <<c, D[1]>> \in R
    BY <1>1, Enter
  <1>3. s.decls \in Seq(Node) /\ s.stmts \in Seq(Node)
    BY <1>1, Begin DEF WellFormedNode
  <1>4. /\ \A i \in DOMAIN s.decls : <<s.decls[i], D[1]>> \in R
        /\ \A i \in DOMAIN s.stmts : <<s.stmts[i], D[1]>> \in R
    BY <1>1, <1>2 DEF Children
  <1>5. /\ none \in Seq(Nat) /\ DOMAIN none = {}
        /\ k \in FrameKinds \ {"endproc", "arm"}
        /\ k \notin {"endwhile", "endfor", "enddo", "endrepeat", "endarm"}
    BY DEF FrameKinds
  <1> HIDE DEF s, k, none
  <1>6. Bound(R, D[1], blocks', decls) /\ Bound(R, D[1], blocks', stmts)
    BY <1>3, <1>4, BoundNodes
  <1>7. Bound(R, D[1], blocks', end)
    BY <1>2, <1>5, BoundFrame
  <1> HIDE DEF decls, stmts, end
  <1>8. Bound(R, D[1], blocks', decls \o stmts \o end)
    BY <1>6, <1>7, BoundConcat
  <1> QED BY <1>1, <1>2, <1>8, GoesOn

(* The block that labels_ has for a label of this depth is in this         *)
(* function: what other procedures left there is of another depth.         *)
LEMMA LabelIsOurs ==
    ASSUME IInv, NEW R, NEW depth, NEW F, NEW D, Here(R, depth, F, D),
           status = "generating", work # <<>>, Top.k = "gen",
           Top.s.kind \in {"Goto", "Label"}
    PROVE  /\ Top.s.name \in Name /\ depth[Top.s.name] = D[1]
           /\ labels[Top.s.name] # 0 => Ours(blocks, labels[Top.s.name])
  <1>1. Top.s \in Node /\ <<Top.s, D[1]>> \in R /\ D[1] \in Nat
    BY Enter
  <1>2. Top.s.name \in Name
    BY Begin DEF WellFormedNode
  <1>3. depth[Top.s.name] = D[1]
    BY <1>1 DEF Here, LabelsApart
  <1> QED BY <1>2, <1>3 DEF Here, Within, LabelsIn

(* GOTO branches to that block, or to one it creates for the label.        *)
LEMMA GenGotoWithin ==
    ASSUME IInv, NEW R, NEW depth, NEW F, NEW D, Here(R, depth, F, D), GenGoto
    PROVE  BInv(R, depth)'
  <1> DEFINE l == Top.s.name
             t == labels[l]
             m == 1
             n == 2
             none == <<>>
             mid == Emit(blocks, insert, <<Br(t)>>)
  <1>1. /\ status = "generating" /\ work # <<>> /\ Top.k = "gen" /\ Top.s.kind = "Goto"
        /\ Continue(none) /\ curFunc' = curFunc
        /\ \/ /\ t # 0 /\ blocks' = Create(mid, m, curFunc)
              /\ insert' = Fresh(1) /\ labels' = labels
           \/ /\ t = 0
              /\ blocks' = Emit(Create(blocks, n, curFunc), insert, <<Br(Fresh(1))>>)
              /\ labels' = [labels EXCEPT ![l] = Fresh(1)]
              /\ insert' = Fresh(2)
    BY DEF GenGoto, AtNode, FunctionUnchanged
  <1>2. /\ Grown(blocks) /\ Len(blocks) \in Nat /\ curFunc \in Nat /\ Ours(blocks, insert)
    BY <1>1, Enter
  <1>3. l \in Name /\ depth[l] = D[1] /\ (t # 0 => Ours(blocks, t))
    BY <1>1, LabelIsOurs
  <1>4. /\ m \in Nat /\ m = 1 /\ n \in Nat /\ n >= 1 /\ 1 \in 1..n /\ 2 \in 1..n
        /\ none = <<>>
    OBVIOUS
  <1>5. labels \in [Name -> Nat]
    BY DEF IInv, Typed, TypeOK
  <1> HIDE DEF l, t, m, n, none
  <1>6. /\ Grown(blocks') /\ Ours(blocks', insert')
        /\ \A x \in Name : \/ labels'[x] = labels[x]
                           \/ depth[x] = D[1] /\ Ours(blocks', labels'[x])
    <2>1. CASE t # 0
      <3>1. Grown(mid) /\ Len(mid) = Len(blocks)
        BY <1>2, <1>3, <2>1, GrownBr
      <3> HIDE DEF mid
      <3>2. Grown(blocks') /\ \A x \in (Len(mid) + 1)..(Len(mid) + m) : Ours(blocks', x)
        BY <1>1, <1>2, <1>4, <2>1, <3>1, GrownCreate
      <3>3. Fresh(1) \in (Len(mid) + 1)..(Len(mid) + m)
        BY <1>2, <1>4, <3>1 DEF Fresh
      <3> QED BY <1>1, <2>1, <3>2, <3>3
    <2>2. CASE t = 0
      <3>1. Grown(blocks') /\ Ours(blocks', Fresh(1)) /\ Ours(blocks', Fresh(2))
        BY <1>1, <1>2, <1>4, <2>2, GrownEnter
      <3>2. \A x \in Name : labels'[x] = IF x = l THEN Fresh(1) ELSE labels[x]
        BY <1>1, <1>5, <2>2
      <3> QED BY <1>1, <1>3, <2>2, <3>1, <3>2
    <2> QED BY <2>1, <2>2
  <1>7. Stays(R, depth, D[1], none)
    BY <1>1, <1>4, <1>6, BoundNone DEF Stays, Continue
  <1>8. /\ depth \in [Name -> Nat] /\ work \in Seq(FrameSet) /\ Top.k # "endproc"
        /\ F \in [Nat -> Nat] /\ D \in [Nat -> Nat] /\ Within(R, depth, F, D)
    BY <1>1 DEF Here, LabelsApart, IInv, Typed, TypeOK
  <1> QED BY <1>1, <1>7, <1>8, StaysWithin

(* A label falls into that block, or into one it creates.                  *)
LEMMA GenLabelWithin ==
    ASSUME IInv, NEW R, NEW depth, NEW F, NEW D, Here(R, depth, F, D), GenLabel
    PROVE  BInv(R, depth)'
  <1> DEFINE l == Top.s.name
             t == labels[l]
             n == 1
             x == Top.s.stmts[1]
             items == <<Gen(x)>>
  <1>1. /\ status = "generating" /\ work # <<>> /\ Top.k = "gen" /\ Top.s.kind = "Label"
        /\ Continue(items) /\ curFunc' = curFunc
        /\ \/ /\ t # 0 /\ blocks' = FallTo(blocks, insert, t)
              /\ insert' = t /\ labels' = labels
           \/ /\ t = 0
              /\ blocks' = FallTo(Create(blocks, n, curFunc), insert, Fresh(1))
              /\ labels' = [labels EXCEPT ![l] = Fresh(1)]
              /\ insert' = Fresh(1)
    BY DEF GenLabel, AtNode, FunctionUnchanged
  <1>2. /\ Grown(blocks) /\ Len(blocks) \in Nat /\ curFunc \in Nat /\ Ours(blocks, insert)
        /\ \A c \in Children(Top.s) : <<c, D[1]>> \in R
    BY <1>1, Enter
  <1>3. l \in Name /\ depth[l] = D[1] /\ (t # 0 => Ours(blocks, t))
    BY <1>1, LabelIsOurs
  <1>4. n \in Nat /\ n >= 1 /\ 1 \in 1..n
    OBVIOUS
  <1>5. labels \in [Name -> Nat]
    BY DEF IInv, Typed, TypeOK
  <1>6. x \in Node /\ <<x, D[1]>> \in R
    <2>1. Top.s.stmts \in Seq(Node) /\ Len(Top.s.stmts) = 1
      BY <1>1, Begin DEF WellFormedNode
    <2>2. 1 \in DOMAIN Top.s.stmts /\ x \in Node
      BY <2>1
    <2> QED BY <1>1, <1>2, <2>2 DEF Children
  <1>7. Bound(R, D[1], blocks', items)
    BY <1>6, BoundNode
  <1> HIDE DEF l, t, n, items
  <1>8. /\ Grown(blocks') /\ Ours(blocks', insert')
        /\ \A y \in Name : \/ labels'[y] = labels[y]
                           \/ depth[y] = D[1] /\ Ours(blocks', labels'[y])
    <2>1. CASE t # 0
      BY <1>1, <1>2, <1>3, <2>1, GrownFallTo
    <2>2. CASE t = 0
      <3>1. Grown(blocks') /\ Ours(blocks', Fresh(1))
        BY <1>1, <1>2, <1>4, <2>2, GrownEnter
      <3>2. \A y \in Name : labels'[y] = IF y = l THEN Fresh(1) ELSE labels[y]
        BY <1>1, <1>5, <2>2
      <3> QED BY <1>1, <1>3, <2>2, <3>1, <3>2
    <2> QED BY <2>1, <2>2
  <1>9. Stays(R, depth, D[1], items)
    BY <1>1, <1>7, <1>8 DEF Stays, Continue
  <1>10. /\ depth \in [Name -> Nat] /\ work \in Seq(FrameSet) /\ Top.k # "endproc"
         /\ F \in [Nat -> Nat] /\ D \in [Nat -> Nat] /\ Within(R, depth, F, D)
    BY <1>1 DEF Here, LabelsApart, IInv, Typed, TypeOK
  <1> QED BY <1>1, <1>9, <1>10, StaysWithin

(* The frames under the top of the stack are as they were, whatever was    *)
(* pushed over them.                                                       *)
LEMMA BelowKept ==
    ASSUME NEW R, NEW depth, NEW F, NEW D, NEW G, NEW E, Within(R, depth, F, D),
           NEW n \in Nat, NEW f, NEW d,
           Shifted(F, f, G, n, work, work'), Shifted(D, d, E, n, work, work'),
           1..Len(blocks) \subseteq 1..Len(blocks'),
           \A t \in 1..Len(blocks) : blocks'[t].fn = blocks[t].fn,
           NEW i \in 1..Len(work'), i \notin 1..n
    PROVE  /\ IF work'[i].k = "endproc" THEN G[i + 1] = work'[i].to[1] /\ E[i + 1] < E[i]
              ELSE G[i + 1] = G[i] /\ E[i + 1] = E[i]
           /\ FrameIn(R, work[i], G[i], E[i])'
  <1>1. PICK j \in 1..Len(work) :
            /\ work'[i] = work[j]
            /\ G[i] = F[j] /\ G[i + 1] = F[j + 1]
            /\ E[i] = D[j] /\ E[i + 1] = D[j + 1]
    BY DEF Shifted
  <1>2. FrameIn(R, work[j], F[j], D[j])
    BY DEF Within, FramesIn
  <1>3. \A t : Aims(work'[i], t) =>
            /\ t \in 1..Len(blocks')
            /\ blocks'[t].fn = IF work'[i].k = "endproc" THEN work'[i].to[1] ELSE G[i]
    BY <1>1, <1>2 DEF FrameIn
  <1>4. work'[i].k # "endproc" => <<work'[i].s, E[i]>> \in R
    BY <1>1, <1>2 DEF FrameIn
  <1>5. FrameIn(R, work[i], G[i], E[i])'
    BY <1>3, <1>4 DEF FrameIn
  <1> QED BY <1>1, <1>5 DEF Within, Nested

(* The caller of a procedure goes on in its own function.  The labels of   *)
(* the body are those of a greater depth.                                  *)
LEMMA EndProcWithin ==
    ASSUME IInv, NEW R, NEW depth, NEW F, NEW D, Here(R, depth, F, D), EndProc
    PROVE  BInv(R, depth)'
  <1> DEFINE i == DefaultReturn(Top.s)
             back == Top.owed[1]
             none == <<>>
  <1>1. /\ status = "generating" /\ work # <<>> /\ Top.k = "endproc"
        /\ blocks' = IF Terminated(blocks, insert) THEN blocks
                     ELSE Emit(blocks, insert, <<i>>)
        /\ curFunc' = Top.to[1] /\ insert' = back
        /\ work' = none \o Tail(work) /\ labels' = labels
    BY DEF EndProc, AtFrame, LabelsUnchanged, Continue
  <1>2. /\ blocks \in Seq(BlockSet) /\ Len(blocks) \in Nat /\ curFunc \in Nat
        /\ OwedBy(Top) = {back}
    BY <1>1, Begin, OneExitOwed DEF OneExit
  <1>3. /\ depth \in [Name -> Nat] /\ F \in [Nat -> Nat] /\ D \in [Nat -> Nat]
        /\ Within(R, depth, F, D)
        /\ Nested(F, D) /\ FramesIn(R, F, D) /\ LabelsIn(depth, D[1])
        /\ Ours(blocks, insert) /\ Local(blocks) /\ F[1] = curFunc
    BY DEF Here, LabelsApart, Within, Nested
  <1>4. work \in Seq(FrameSet) /\ 1 \in 1..Len(work) /\ work[1] = Top
    <2>1. work \in Seq(FrameSet)
      BY DEF IInv, Typed, TypeOK
    <2>2. Head(work) = work[1] /\ Len(work) \in Nat \ {0}
      BY <1>1, <2>1, TailProperties
    <2> QED BY <2>1, <2>2 DEF Top
  <1>5. F[2] = Top.to[1] /\ D[2] < D[1]
    <2>1. F[1 + 1] = Top.to[1] /\ D[1 + 1] < D[1]
      BY <1>1, <1>3, <1>4 DEF Nested
    <2> QED BY <2>1
  <1>6. back \in 1..Len(blocks) /\ blocks[back].fn = Top.to[1]
    <2>1. FrameIn(R, Top, F[1], D[1])
      BY <1>3, <1>4 DEF FramesIn
    <2> QED BY <1>1, <1>2, <2>1 DEF FrameIn, Aims
  <1>7. i \in InstructionSet /\ Into(blocks, curFunc, i)
    <2>1. <<>> \in Optional(Expr)
      BY DEF Optional
    <2> QED BY <2>1, Returns, InstructionsInto DEF DefaultReturn
  <1>8. /\ none \in Seq(FrameSet) /\ Len(none) = 0
        /\ F[1] \in Nat /\ D[1] \in Nat /\ work # <<>>
    BY <1>1, <1>3
  <1> HIDE DEF i, back, none
  <1>9. Grown(blocks)
    BY <1>2, <1>3 DEF Grown
  <1>10. Grown(blocks') /\ Len(blocks') = Len(blocks)
    <2>1. CASE Terminated(blocks, insert)
      BY <1>1, <1>9, <2>1
    <2>2. CASE ~Terminated(blocks, insert)
      BY <1>1, <1>3, <1>7, <1>9, <2>2, GrownEmitOne
    <2> QED BY <2>1, <2>2
  <1>11. \A t \in 1..Len(blocks) : blocks'[t].fn = blocks[t].fn
    BY <1>10 DEF Grown
  <1>12. PICK n \in Nat : n = 0 /\ n = Len(none)
    BY <1>8
  <1>13. PICK G \in [Nat -> Nat] : Shifted(F, F[1], G, n, work, work')
    <2>1. \E Y \in [Nat -> Nat] :
             Shifted(F, F[1], Y, Len(none), work, none \o Tail(work))
      BY <1>3, <1>4, <1>8, BelowShifted
    <2> QED BY <1>1, <1>12, <2>1
  <1>14. PICK E \in [Nat -> Nat] : Shifted(D, D[1], E, n, work, work')
    <2>1. \E Y \in [Nat -> Nat] :
             Shifted(D, D[1], Y, Len(none), work, none \o Tail(work))
      BY <1>3, <1>4, <1>8, BelowShifted
    <2> QED BY <1>1, <1>12, <2>1
  <1>15. G[1] = curFunc' /\ E[1] = D[2]
    BY <1>1, <1>5, <1>12, <1>13, <1>14 DEF Shifted
  <1>16. ASSUME NEW j \in 1..Len(work')
         PROVE  /\ IF work'[j].k = "endproc" THEN G[j + 1] = work'[j].to[1] /\ E[j + 1] < E[j]
                   ELSE G[j + 1] = G[j] /\ E[j + 1] = E[j]
                /\ FrameIn(R, work[j], G[j], E[j])'
    <2>1. j \notin 1..n /\ 1..Len(blocks) \subseteq 1..Len(blocks')
      BY <1>10, <1>12
    <2> QED BY <1>3, <1>11, <1>13, <1>14, <2>1, BelowKept
  <1>17. Nested(G, E)' /\ FramesIn(R, G, E)'
    BY <1>15, <1>16 DEF Nested, FramesIn
  <1>18. LabelsIn(depth, E[1])'
    <2> SUFFICES ASSUME NEW l \in Name, labels[l] # 0
                 PROVE  depth[l] >= D[2] /\ depth[l] # D[2]
      BY <1>1, <1>15 DEF LabelsIn
    <2>1. depth[l] >= D[1] /\ depth[l] \in Nat /\ D[1] \in Nat /\ D[2] \in Nat
      BY <1>3 DEF LabelsIn
    <2> QED BY <1>5, <2>1
  <1>19. Ours(blocks, insert)' /\ Local(blocks)'
    BY <1>1, <1>6, <1>10, <1>11 DEF Ours, Grown
  <1> QED BY <1>17, <1>18, <1>19 DEF BInv, Within

(* A procedure is generated in a function of its own, one deeper, with no  *)
(* labels.                                                                 *)
LEMMA GenProcWithin ==
    ASSUME IInv, NEW R, NEW depth, NEW F, NEW D, Here(R, depth, F, D), GenProc
    PROVE  BInv(R, depth)'
  <1> DEFINE s == Top.s
             k == "endproc"
             fn == Len(funcs) + 1
             d == D[1] + 1
             one == 1
             f == Frame(k, s, <<curFunc>>, <<insert>>)
             decls == GenAll(s.decls)
             stmts == GenAll(s.stmts)
             g == decls \o stmts
             items == g \o <<f>>
  <1>1. /\ status = "generating" /\ work # <<>> /\ Top.k = "gen" /\ s.kind = "Proc"
        /\ blocks' = Create(blocks, one, fn) /\ insert' = Fresh(1)
        /\ curFunc' = fn /\ labels' = NoLabels /\ work' = items \o Tail(work)
    BY DEF GenProc, AtNode, Continue
  <1>2. /\ blocks \in Seq(BlockSet) /\ Len(blocks) \in Nat /\ Len(funcs) \in Nat
        /\ curFunc \in Nat /\ insert \in Nat
        /\ s \in Node /\ s.decls \in Seq(Node) /\ s.stmts \in Seq(Node)
    BY <1>1, Begin DEF WellFormedNode
  <1>3. /\ depth \in [Name -> Nat] /\ F \in [Nat -> Nat] /\ D \in [Nat -> Nat]
        /\ Within(R, depth, F, D)
        /\ Nested(F, D) /\ FramesIn(R, F, D)
        /\ Ours(blocks, insert) /\ Local(blocks) /\ F[1] = curFunc
    BY DEF Here, LabelsApart, Within, Nested
  <1>4. work \in Seq(FrameSet) /\ 1 \in 1..Len(work) /\ work[1] = Top
    <2>1. work \in Seq(FrameSet)
      BY DEF IInv, Typed, TypeOK
    <2>2. Head(work) = work[1] /\ Len(work) \in Nat \ {0}
      BY <1>1, <2>1, TailProperties
    <2> QED BY <2>1, <2>2 DEF Top
  <1>5. F[2] = curFunc /\ D[2] = D[1]
    <2>1. F[1 + 1] = F[1] /\ D[1 + 1] = D[1]
      BY <1>1, <1>3, <1>4 DEF Nested
    <2> QED BY <1>3, <2>1
  <1>6. \A c \in Children(s) : <<c, d>> \in R
    <2>1. <<s, D[1]>> \in R /\ D[1] \in Nat
      BY <1>1, Enter
    <2>2. Inside(s, D[1]) = d
      BY <1>1 DEF Inside
    <2> QED BY <1>2, <2>1, <2>2 DEF Here, LabelsApart
  <1>7. /\ \A i \in DOMAIN s.decls : <<s.decls[i], d>> \in R
        /\ \A i \in DOMAIN s.stmts : <<s.stmts[i], d>> \in R
    BY <1>1, <1>6 DEF Children
  <1>8. fn \in Nat /\ d \in Nat /\ D[1] < d /\ one \in Nat /\ one = 1
    <2>1. D[1] \in Nat
      BY <1>3
    <2>2. d \in Nat /\ D[1] < d
      BY <2>1
    <2> QED BY <1>2, <2>2
  <1>9. /\ f \in FrameSet /\ f.k = "endproc" /\ f.to[1] = curFunc
        /\ \A t : Aims(f, t) => t = insert
    <2>1. k \in FrameKinds /\ k = "endproc"
      BY DEF FrameKinds
    <2> HIDE DEF s, k
    <2>2. f \in FrameSet /\ f.k = k /\ f.to = <<curFunc>> /\ f.owed = <<insert>>
      BY <1>2, <2>1 DEF Frame, FrameSet
    <2> HIDE DEF f
    <2>3. DOMAIN f.owed = {1} /\ f.owed[1] = insert /\ f.to[1] = curFunc
      BY <2>2
    <2> QED BY <2>1, <2>2, <2>3 DEF Aims, OwedBy
  <1> HIDE DEF s, k, fn, d, one
  <1>10. GenNodes(g)
    BY <1>2, GenAllFrames, GenNodesConcat
  <1>11. Bound(R, d, blocks, g)
    <2>1. Bound(R, d, blocks, decls) /\ Bound(R, d, blocks, stmts)
      BY <1>2, <1>7, BoundNodes
    <2> HIDE DEF decls, stmts
    <2> QED BY <2>1, BoundConcat
  <1> HIDE DEF f, g, decls, stmts
  <1>12. /\ items \in Seq(FrameSet) /\ Len(items) \in Nat
         /\ \A i \in 1..Len(items) : \/ i \in 1..Len(g) /\ items[i] = g[i]
                                     \/ i = Len(items) /\ items[i] = f
    <2> DEFINE h == <<f>>
    <2>1. h \in Seq(FrameSet) /\ Len(h) = 1 /\ h[1] = f
      BY <1>9
    <2>2. g \in Seq(FrameSet)
      BY <1>10 DEF GenNodes
    <2> HIDE DEF h
    <2>3. /\ g \o h \in Seq(FrameSet) /\ Len(g \o h) = Len(g) + Len(h)
          /\ DOMAIN (g \o h) = 1..(Len(g) + Len(h))
          /\ Len(g) \in Nat /\ DOMAIN g = 1..Len(g) /\ DOMAIN h = 1..Len(h)
          /\ \A i \in DOMAIN g : (g \o h)[i] = g[i]
          /\ \A i \in DOMAIN h : (g \o h)[Len(g) + i] = h[i]
      BY <2>1, <2>2, ConcatElements
    <2>4. ASSUME NEW i \in 1..Len(g \o h)
          PROVE  \/ i \in 1..Len(g) /\ (g \o h)[i] = g[i]
                 \/ i = Len(g \o h) /\ (g \o h)[i] = f
      <3>1. i \in 1..Len(g) \/ i = Len(g) + 1
        BY <2>1, <2>3
      <3>2. CASE i \in 1..Len(g)
        BY <2>3, <3>2
      <3>3. CASE i = Len(g) + 1
        <4>1. 1 \in DOMAIN h
          BY <2>1, <2>3
        <4>2. (g \o h)[Len(g) + 1] = h[1]
          BY <2>3, <4>1
        <4> QED BY <2>1, <2>3, <3>3, <4>2
      <3> QED BY <3>1, <3>2, <3>3
    <2>5. items = g \o h
      BY DEF h
    <2> QED BY <2>3, <2>4, <2>5
  <1>13. \A i \in 1..Len(g) :
            g[i].k = "gen" /\ <<g[i].s, d>> \in R /\ \A t : ~Aims(g[i], t)
    <2> TAKE i \in 1..Len(g)
    <2>1. g \in Seq(FrameSet) /\ i \in DOMAIN g
      BY <1>10 DEF GenNodes
    <2>2. g[i].k = "gen" /\ g[i].owed = <<>>
      BY <1>10, <2>1 DEF GenNodes
    <2>3. <<g[i].s, d>> \in R
      BY <1>11 DEF Bound
    <2> QED BY <2>2, <2>3 DEF Aims, OwedBy
  <1> HIDE DEF items
  <1>14. PICK n \in Nat : n = Len(items)
    BY <1>12
  <1>15. PICK G \in [Nat -> Nat] : Shifted(F, fn, G, n, work, work')
    BY <1>1, <1>3, <1>4, <1>8, <1>12, <1>14, BelowShifted
  <1>16. PICK E \in [Nat -> Nat] : Shifted(D, d, E, n, work, work')
    BY <1>1, <1>3, <1>4, <1>8, <1>12, <1>14, BelowShifted
  <1>17. \A i \in 1..n : work'[i] = items[i]
    BY <1>1, <1>4, <1>12, <1>14, TopReplaced
  <1>18. /\ blocks' \in Seq(BlockSet) /\ Len(blocks') = Len(blocks) + 1
         /\ \A b \in 1..Len(blocks) : blocks'[b] = blocks[b] /\ b \in 1..Len(blocks')
         /\ blocks'[insert'] = [fn |-> fn, ins |-> <<>>] /\ insert' = Len(blocks) + 1
    <2> DEFINE cs == Create(blocks, one, fn)
    <2>1. /\ cs \in Seq(BlockSet) /\ Len(cs) = Len(blocks) + one
          /\ \A b \in 1..Len(blocks) : cs[b] = blocks[b]
          /\ \A b \in (Len(blocks) + 1)..(Len(blocks) + one) :
                cs[b] = [fn |-> fn, ins |-> <<>>]
      <3>1. \A m, h \in Nat :
              /\ Create(blocks, m, h) \in Seq(BlockSet)
              /\ Len(Create(blocks, m, h)) = Len(blocks) + m
              /\ \A b \in 1..Len(blocks) : Create(blocks, m, h)[b] = blocks[b]
              /\ \A b \in (Len(blocks) + 1)..(Len(blocks) + m) :
                    Create(blocks, m, h)[b] = [fn |-> h, ins |-> <<>>]
        BY <1>2, CreateBelongs
      <3> QED BY <1>8, <3>1
    <2> HIDE DEF cs
    <2>2. insert' = Len(blocks) + 1 /\ insert' \in (Len(blocks) + 1)..(Len(blocks) + one)
      BY <1>1, <1>2, <1>8 DEF Fresh
    <2>3. \A b \in 1..Len(blocks) : b \in 1..(Len(blocks) + one)
      BY <1>2, <1>8
    <2>4. blocks' = cs
      BY <1>1 DEF cs
    <2> QED BY <1>8, <2>1, <2>2, <2>3, <2>4
  <1>19. G[1] = fn /\ \A i \in 1..n : G[i] = fn /\ E[i] = d
    <2>1. 1 \in 1..n
      <3>1. n # 0
        <4> SUFFICES ASSUME n = 0 PROVE FALSE
          OBVIOUS
        <4>1. Len(g \o <<f>>) = 0
          BY <1>14 DEF items
        <4>2. g \in Seq(FrameSet) /\ <<f>> \in Seq(FrameSet) /\ Len(<<f>>) = 1
          BY <1>9, <1>10 DEF GenNodes
        <4>3. Len(g \o <<f>>) = Len(g) + Len(<<f>>) /\ Len(g) \in Nat
          BY <4>2, ConcatElements
        <4> QED BY <4>1, <4>2, <4>3
      <3> QED BY <3>1
    <2> QED BY <1>15, <1>16, <2>1 DEF Shifted
  <1>20. G[n + 1] = curFunc /\ E[n + 1] = D[1]
    BY <1>5, <1>15, <1>16 DEF Shifted
  <1>21. ASSUME NEW j \in 1..n
         PROVE  /\ IF work'[j].k = "endproc" THEN G[j + 1] = work'[j].to[1] /\ E[j + 1] < E[j]
                   ELSE G[j + 1] = G[j] /\ E[j + 1] = E[j]
                /\ FrameIn(R, work[j], G[j], E[j])'
    <2>1. CASE j \in 1..Len(g) /\ items[j] = g[j] /\ j # n
      <3>1. j + 1 \in 1..n
        BY <2>1
      <3>2. work'[j] = g[j] /\ work'[j].k = "gen" /\ <<work'[j].s, d>> \in R
            /\ \A t : ~Aims(work'[j], t)
        BY <1>13, <1>17, <2>1
      <3>3. G[j + 1] = G[j] /\ E[j + 1] = E[j] /\ E[j] = d
        BY <1>19, <3>1
      <3> QED BY <3>2, <3>3 DEF FrameIn
    <2>2. CASE j = n /\ items[j] = f
      <3>1. work'[j] = f
        BY <1>17, <2>2
      <3>2. G[j + 1] = work'[j].to[1] /\ E[j + 1] < E[j]
        BY <1>8, <1>9, <1>19, <1>20, <2>2, <3>1
      <3>3. \A t : Aims(work'[j], t) =>
                t \in 1..Len(blocks') /\ blocks'[t].fn = work'[j].to[1]
        BY <1>3, <1>9, <1>18, <3>1 DEF Ours
      <3>4. FrameIn(R, work[j], G[j], E[j])'
        BY <1>9, <3>1, <3>3 DEF FrameIn
      <3> QED BY <1>9, <3>1, <3>2, <3>4
    <2>3. (j \in 1..Len(g) /\ items[j] = g[j] /\ j # n) \/ (j = n /\ items[j] = f)
      <3>1. CASE j = n
        <4>1. ~(n \in 1..Len(g))
          <5>1. g \in Seq(FrameSet) /\ <<f>> \in Seq(FrameSet) /\ Len(<<f>>) = 1
            BY <1>9, <1>10 DEF GenNodes
          <5>2. Len(g \o <<f>>) = Len(g) + Len(<<f>>) /\ Len(g) \in Nat
            BY <5>1, ConcatElements
          <5>3. n = Len(g) + 1
            BY <1>14, <5>1, <5>2 DEF items
          <5> QED BY <5>2, <5>3
        <4> QED BY <1>12, <1>14, <3>1, <4>1
      <3>2. CASE j # n
        BY <1>12, <1>14, <3>2
      <3> QED BY <3>1, <3>2
    <2> QED BY <2>1, <2>2, <2>3
  <1>22. ASSUME NEW j \in 1..Len(work'), j \notin 1..n
         PROVE  /\ IF work'[j].k = "endproc" THEN G[j + 1] = work'[j].to[1] /\ E[j + 1] < E[j]
                   ELSE G[j + 1] = G[j] /\ E[j + 1] = E[j]
                /\ FrameIn(R, work[j], G[j], E[j])'
    <2>1. /\ 1..Len(blocks) \subseteq 1..Len(blocks')
          /\ \A t \in 1..Len(blocks) : blocks'[t].fn = blocks[t].fn
      BY <1>18
    <2> QED BY <1>3, <1>15, <1>16, <1>22, <2>1, BelowKept
  <1>23. Nested(G, E)' /\ FramesIn(R, G, E)'
    BY <1>1, <1>19, <1>21, <1>22 DEF Nested, FramesIn
  <1>24. LabelsIn(depth, E[1])'
    BY <1>1 DEF LabelsIn, NoLabels
  <1>25. Ours(blocks, insert)'
    <2>1. blocks'[insert'].fn = curFunc'
      BY <1>1, <1>18
    <2>2. insert' \in 1..Len(blocks')
      <3>1. PICK m \in Nat : m + 1 = Len(blocks') /\ insert' = m + 1
        BY <1>2, <1>18
      <3> QED BY <3>1
    <2> QED BY <2>1, <2>2 DEF Ours
  <1>26. Local(blocks)'
    <2> SUFFICES ASSUME NEW b \in 1..Len(blocks'), NEW i \in DOMAIN blocks'[b].ins
                 PROVE  Into(blocks', blocks'[b].fn, blocks'[b].ins[i])
      BY DEF Local
    <2>1. b \in 1..Len(blocks)
      <3>1. b \in 1..Len(blocks) \/ b = insert'
        <4>1. PICK m \in Nat : m = Len(blocks) /\ m + 1 = Len(blocks') /\ insert' = m + 1
          BY <1>2, <1>18
        <4>2. b \in 1..m \/ b = m + 1
          BY <4>1
        <4> QED BY <4>1, <4>2
      <3>2. b # insert'
        <4>1. DOMAIN [fn |-> fn, ins |-> <<>>].ins = {}
          OBVIOUS
        <4> QED BY <1>18, <4>1
      <3> QED BY <3>1, <3>2
    <2>2. Into(blocks, blocks[b].fn, blocks[b].ins[i]) /\ blocks'[b] = blocks[b]
      BY <1>3, <1>18, <2>1 DEF Local
    <2> QED BY <1>18, <2>2 DEF Into
  <1> QED BY <1>23, <1>24, <1>25, <1>26 DEF BInv, Within

(* What generate adds at the end of main is a return.                      *)
LEMMA FinishWithin ==
    ASSUME IInv, NEW R, NEW depth, NEW F, NEW D, Here(R, depth, F, D), Finish
    PROVE  BInv(R, depth)'
  <1> DEFINE nothing == <<>>
             i == Ret(nothing)
  <1>1. /\ work = <<>>
        /\ blocks' = IF Terminated(blocks, insert) THEN blocks
                     ELSE Emit(blocks, insert, <<i>>)
        /\ insert' = insert /\ work' = work /\ curFunc' = curFunc /\ labels' = labels
    BY DEF Finish, LabelsUnchanged, FunctionUnchanged
  <1>2. /\ F \in [Nat -> Nat] /\ D \in [Nat -> Nat]
        /\ Nested(F, D) /\ LabelsIn(depth, D[1])
        /\ Ours(blocks, insert) /\ Local(blocks)
    BY DEF Here, Within
  <1>3. blocks \in Seq(BlockSet) /\ Len(blocks) \in Nat
    BY LenProperties DEF IInv, Typed, TypeOK
  <1>4. Grown(blocks)
    BY <1>2, <1>3 DEF Grown
  <1>5. i \in InstructionSet /\ Into(blocks, curFunc, i)
    <2>1. nothing \in Optional(Expr)
      BY DEF Optional
    <2> HIDE DEF nothing
    <2> QED BY <2>1, Returns, InstructionsInto
  <1> HIDE DEF i
  <1>6. Grown(blocks') /\ \A t : Ours(blocks, t) => Ours(blocks', t)
    <2>1. CASE Terminated(blocks, insert)
      BY <1>1, <1>4, <2>1
    <2>2. CASE ~Terminated(blocks, insert)
      BY <1>1, <1>2, <1>4, <1>5, <2>2, GrownEmitOne
    <2> QED BY <2>1, <2>2
  <1>7. FramesIn(R, F, D)'
    BY <1>1 DEF FramesIn
  <1>8. Nested(F, D)' /\ LabelsIn(depth, D[1])'
    BY <1>1, <1>2, <1>6 DEF Nested, LabelsIn, Ours
  <1>9. Ours(blocks, insert)' /\ Local(blocks)'
    BY <1>1, <1>2, <1>6 DEF Ours, Grown
  <1> QED BY <1>2, <1>7, <1>8, <1>9 DEF BInv, Within

(* The program is at depth 0, in main.                                     *)
LEMMA InitWithin ==
    ASSUME NEW R, NEW depth, <<prog, 0>> \in R, Init
    PROVE  BInv(R, depth)
  <1> DEFINE block == [fn |-> 1, ins |-> <<>>]
             f == Gen(prog)
             F == [i \in Nat |-> 1]
             D == [i \in Nat |-> 0]
  <1>1. /\ prog \in Programs /\ blocks = <<block>> /\ insert = 1 /\ curFunc = 1
        /\ labels = NoLabels /\ work = <<f>>
    BY DEF Init
  <1>2. /\ F \in [Nat -> Nat] /\ D \in [Nat -> Nat]
        /\ \A i \in Nat : F[i] = 1 /\ D[i] = 0
    OBVIOUS
  <1>3. f.k = "gen" /\ f.s = prog /\ f.owed = <<>>
    BY DEF Gen, Frame
  <1>4. block.fn = 1 /\ DOMAIN block.ins = {}
    OBVIOUS
  <1> HIDE DEF block, f, F, D
  <1>5. /\ Len(blocks) = 1 /\ blocks[1] = block /\ Len(work) = 1 /\ work[1] = f
        /\ 1..1 = {1}
    BY <1>1
  <1>6. Ours(blocks, insert) /\ Local(blocks)
    BY <1>1, <1>4, <1>5 DEF Ours, Local
  <1>7. Nested(F, D)
    <2>1. 1 \in Nat /\ 1 + 1 \in Nat
      OBVIOUS
    <2> QED BY <1>1, <1>2, <1>3, <1>5, <2>1 DEF Nested
  <1>8. FramesIn(R, F, D)
    <2>1. \A t : ~Aims(f, t)
      BY <1>3 DEF Aims, OwedBy
    <2>2. <<f.s, D[1]>> \in R
      BY <1>2, <1>3
    <2>3. FrameIn(R, f, F[1], D[1])
      BY <2>1, <2>2 DEF FrameIn
    <2> QED BY <1>5, <2>3 DEF FramesIn
  <1>9. LabelsIn(depth, D[1])
    BY <1>1 DEF LabelsIn, NoLabels
  <1> QED BY <1>2, <1>6, <1>7, <1>8, <1>9 DEF BInv, Within

(* Every action preserves it.                                              *)
LEMMA StepWithin ==
    ASSUME NEW R \in SUBSET (Node \X Nat), NEW depth \in [Name -> Nat],
           LabelsApart(R, depth), IInv, BInv(R, depth), [Next]_vars
    PROVE  BInv(R, depth)'
  <1> SUFFICES ASSUME NEW F \in [Nat -> Nat], NEW D \in [Nat -> Nat],
                      Within(R, depth, F, D)
               PROVE  BInv(R, depth)'
    BY DEF BInv
  <1>0. Here(R, depth, F, D)
    BY DEF Here
  <1>1. CASE GenBlock \/ EndBlock
    BY <1>0, <1>1, GenBlockWithin, EndBlockWithin
  <1>2. CASE GenStraightLine \/ GenCall
    BY <1>0, <1>2, GenStraightLineWithin, GenCallWithin
  <1>3. CASE GenIf \/ EndThen \/ EndElse
    BY <1>0, <1>3, GenIfWithin, EndThenWithin, EndElseWithin
  <1>4. CASE GenWhile \/ EndWhile \/ GenFor \/ EndFor
    BY <1>0, <1>4, GenWhileWithin, EndWhileWithin, GenForWithin, EndForWithin
  <1>5. CASE GenDo \/ EndDo \/ GenRepeat \/ EndRepeat
    BY <1>0, <1>5, GenDoWithin, EndDoWithin, GenRepeatWithin, EndRepeatWithin
  <1>6. CASE GenCase \/ GenArm \/ EndArm \/ EndCase
    BY <1>0, <1>6, GenCaseWithin, GenArmWithin, EndArmWithin, EndCaseWithin
  <1>7. CASE GenReturn \/ GenGoto \/ GenLabel
    BY <1>0, <1>7, GenReturnWithin, GenGotoWithin, GenLabelWithin
  <1>8. CASE GenProc \/ GenForward \/ EndProc \/ Finish
    BY <1>0, <1>8, GenProcWithin, GenForwardWithin, EndProcWithin, FinishWithin
  <1>9. CASE UNCHANGED vars
    BY <1>9, UnmovedWithin DEF vars
  <1> QED BY <1>1, <1>2, <1>3, <1>4, <1>5, <1>6, <1>7, <1>8, <1>9 DEF Next

(* The invariant.                                                          *)
LEMMA InitBranches == ASSUME LabelsAtOneDepth, Init PROVE BranchInv
  <1>1. prog \in Programs
    BY DEF Init
  <1>2. PICK R \in SUBSET (Node \X Nat), depth \in [Name -> Nat] :
            <<prog, 0>> \in R /\ LabelsApart(R, depth)
    BY <1>1 DEF LabelsAtOneDepth
  <1>3. BInv(R, depth)
    BY <1>2, InitWithin
  <1> QED BY <1>2, <1>3 DEF BranchInv

(* BranchInv is preserved by every step.                                   *)
LEMMA StepBranches == ASSUME IInv, BranchInv, [Next]_vars PROVE BranchInv'
  <1>1. PICK R \in SUBSET (Node \X Nat), depth \in [Name -> Nat] :
            LabelsApart(R, depth) /\ BInv(R, depth)
    BY DEF BranchInv
  <1>2. BInv(R, depth)'
    BY <1>1, StepWithin
  <1> QED BY <1>1, <1>2 DEF BranchInv

(* So no branch leaves its function.                                       *)
LEMMA WithinStays == IInv /\ BranchInv => BranchesStayInFunction
  <1> SUFFICES ASSUME IInv, BranchInv, NEW b \in DOMAIN blocks
               PROVE  StaysInFunction(blocks, b)
    BY DEF BranchesStayInFunction
  <1>1. b \in 1..Len(blocks)
    BY LenProperties DEF IInv, Typed, TypeOK
  <1>2. Local(blocks)
    BY DEF BranchInv, BInv, Within
  <1> QED BY <1>1, <1>2 DEF Local, Into, StaysInFunction

(* In a program that uses no label at two depths of nesting, no GOTO and   *)
(* handler branches out of its function (pl11_codegen.cpp:503-505, :514),  *)
(* although labels_ is cleared on the way into a procedure (:214) and      *)
(* never on the way out.                                                   *)
THEOREM BuilderBranchesStayInFunction ==
    ASSUME LabelsAtOneDepth
    PROVE  Spec => []BranchesStayInFunction
  <1>1. Init => IInv /\ BranchInv
    BY InitInvariant, InitBranches
  <1>2. (IInv /\ BranchInv) /\ [Next]_vars => (IInv /\ BranchInv)'
    BY StepInvariant, StepBranches
  <1>3. IInv /\ BranchInv => BranchesStayInFunction
    BY WithinStays
  <1> QED BY <1>1, <1>2, <1>3, PTL DEF Spec

-----------------------------------------------------------------------------
(***************************************************************************)
(* verifyModule.                                                           *)
(***************************************************************************)
(* What is left to complain about when every branch stays in its function. *)
LEMMA OnlyTheseComplaints ==
    IInv /\ status \in {"verified", "rejected"} /\ BranchesStayInFunction
         /\ pending = {} /\ relabelled = {} /\ ~MisplacedReturn /\ ~RepeatedCase
    => VerifyModule(blocks)
  <1> SUFFICES ASSUME IInv, status \in {"verified", "rejected"},
                      BranchesStayInFunction, pending = {}, relabelled = {},
                      ~MisplacedReturn, ~RepeatedCase, NEW b \in DOMAIN blocks
               PROVE  /\ ClosedOnce(blocks[b].ins)
                      /\ StaysInFunction(blocks, b)
                      /\ ReturnFits(blocks[b].fn, blocks[b].ins)
                      /\ blocks[b].ins[Len(blocks[b].ins)].op = "switch"
                           => Distinct(blocks[b].ins[Len(blocks[b].ins)].arg)
    BY DEF VerifyModule
  <1> DEFINE ins == blocks[b].ins
  <1>1. ins \in Seq(InstructionSet)
    <2>1. blocks[b] \in BlockSet
      BY DEF IInv, Typed, TypeOK
    <2> QED BY <2>1 DEF BlockSet
  <1>2. HasTerminator(b)
    <2>1. work = <<>> /\ Closed(blocks, insert)
      BY DEF IInv, Ended
    <2>2. Owed = {}
      BY <2>1 DEF Owed
    <2>3. HasTerminator(insert)
      BY <2>1 DEF Closed, Ends, HasTerminator
    <2> QED BY <2>2, <2>3 DEF IInv, OpenBlocksAreOwed
  <1>3. PICK k \in DOMAIN ins : IsTerminator(ins[k])
    BY <1>2 DEF HasTerminator
  <1>4. \A i \in DOMAIN ins : IsTerminator(ins[i]) => i = Len(ins)
    BY DEF IInv, NothingAfterTerminator
  <1> HIDE DEF ins
  <1>5. k = Len(ins) /\ ins # <<>>
    BY <1>1, <1>3, <1>4, NonEmpty, EmptySeq
  <1>6. ClosedOnce(ins)
    BY <1>3, <1>4, <1>5 DEF ClosedOnce
  <1>7. ReturnFits(blocks[b].fn, ins)
    BY <1>5 DEF MisplacedReturn, ins
  <1>8. ins[Len(ins)].op = "switch" => Distinct(ins[Len(ins)].arg)
    BY <1>3, <1>5 DEF RepeatedCase, ins
  <1>9. StaysInFunction(blocks, b)
    BY DEF BranchesStayInFunction
  <1> QED BY <1>6, <1>7, <1>8, <1>9 DEF ins

(* Only Finish ends the generation otherwise than by an error.             *)
LEMMA OnlyFinishRejects ==
    ASSUME Next, ~Finish
    PROVE  status = "generating" /\ status' \in {"generating", "error"}
  <1>1. CASE GenBlock \/ EndBlock \/ GenStraightLine \/ GenCall
    BY <1>1 DEF GenBlock, EndBlock, GenStraightLine, GenCall, AtNode, AtFrame, OnlyBlocks
  <1>2. CASE GenIf \/ EndThen \/ EndElse
    BY <1>2 DEF GenIf, EndThen, EndElse, AtNode, AtFrame, OnlyBlocks
  <1>3. CASE GenWhile \/ EndWhile \/ GenFor \/ EndFor
    BY <1>3 DEF GenWhile, EndWhile, GenFor, EndFor, AtNode, AtFrame, OnlyBlocks
  <1>4. CASE GenDo \/ EndDo \/ GenRepeat \/ EndRepeat
    BY <1>4 DEF GenDo, EndDo, GenRepeat, EndRepeat, AtNode, AtFrame, OnlyBlocks
  <1>5. CASE GenCase \/ GenArm \/ EndArm \/ EndCase
    BY <1>5 DEF GenCase, GenArm, EndArm, EndCase, AtNode, AtFrame, OnlyBlocks
  <1>6. CASE GenReturn \/ GenGoto \/ GenLabel
    BY <1>6 DEF GenReturn, GenGoto, GenLabel, AtNode, AtFrame, OnlyBlocks
  <1>7. CASE GenProc \/ GenForward \/ EndProc
    BY <1>7 DEF GenProc, GenForward, EndProc, AtNode, AtFrame, OnlyBlocks
  <1> QED BY <1>1, <1>2, <1>3, <1>4, <1>5, <1>6, <1>7 DEF Next

(* generate throws "IR verification failed" (pl11_codegen.cpp:130-131) only *)
(* for a program whose author can be told why, under the same condition:   *)
(* what the handlers build is never rejected for its control flow alone.   *)
THEOREM BuilderRejectionIsExplained ==
    ASSUME LabelsAtOneDepth
    PROVE  Spec => []RejectionIsExplained
  <1>1. Init => RejectionIsExplained
    BY DEF Init, RejectionIsExplained
  <1>2. IInv /\ BranchInv => BranchesStayInFunction
    BY WithinStays
  <1>3. IInv' /\ BranchInv' => BranchesStayInFunction'
    BY <1>2, PTL
  <1>4. IInv' /\ BranchesStayInFunction' /\ RejectionIsExplained /\ [Next]_vars
        => RejectionIsExplained'
    <2> SUFFICES ASSUME IInv', BranchesStayInFunction', RejectionIsExplained, [Next]_vars,
                        status' = "rejected"
                 PROVE  \/ pending' # {} \/ relabelled' # {}
                        \/ MisplacedReturn' \/ RepeatedCase'
      BY DEF RejectionIsExplained
    <2>1. CASE Finish
      <3>1. ~VerifyModule(blocks')
        BY <2>1 DEF Finish
      <3>2. VerifyModule(blocks)' => VerifyModule(blocks')
        BY <2>1 DEF Finish, FunctionUnchanged, VerifyModule, ReturnFits
      <3>3. (IInv /\ status \in {"verified", "rejected"} /\ BranchesStayInFunction
               /\ pending = {} /\ relabelled = {} /\ ~MisplacedReturn /\ ~RepeatedCase)'
            => VerifyModule(blocks)'
        BY OnlyTheseComplaints, PTL
      <3>4. status' \in {"verified", "rejected"}
        OBVIOUS
      <3> QED BY <3>1, <3>2, <3>3, <3>4
    <2>2. CASE Next /\ ~Finish
      BY <2>2, OnlyFinishRejects
    <2>3. CASE UNCHANGED vars
      BY <2>3 DEF vars, RejectionIsExplained, MisplacedReturn, RepeatedCase, ReturnFits
    <2> QED BY <2>1, <2>2, <2>3
  <1>5. Init => IInv /\ BranchInv
    BY InitInvariant, InitBranches
  <1>6. (IInv /\ BranchInv) /\ [Next]_vars => (IInv /\ BranchInv)'
    BY StepInvariant, StepBranches
  <1> QED BY <1>1, <1>3, <1>4, <1>5, <1>6, PTL DEF Spec
=============================================================================
