---------------------------- MODULE RunTime_proof ----------------------------
(***************************************************************************)
(* Theorems about the code that the compiler emits, when it runs.          *)
(*                                                                         *)
(* The simulated stack keeps its slots apart, for every size of the stack, *)
(* every set of words and every depth of nesting, as long as the functions *)
(* called from the operands of PUSH and POP leave the stack as they found  *)
(* it.                                                                     *)
(*                                                                         *)
(* For a counter of any width, a FOR loop whose step goes the way its      *)
(* keyword says and does not run past the range never wraps around.  What  *)
(* makes the bound inductive is that the body is only entered, and the     *)
(* step only taken, with a counter that has not passed the end.  Such a    *)
(* loop runs its body for every value from the start to the end, a step    *)
(* apart: the history counts how far the counter has come.                 *)
(***************************************************************************)
EXTENDS SimStack, ForLoop, SequenceTheorems, FiniteSetTheorems, TLAPS

-----------------------------------------------------------------------------
(***************************************************************************)
(* The simulated stack.                                                    *)
(***************************************************************************)
(* Each of the three conjuncts needs the others: a PUSH that stores must   *)
(* not hit the slot of a waiting POP (LoadedWordIsCurrent), which holds    *)
(* because slots are separate, which in turn needs idx to be in range.     *)
IInv == TypeOK /\ SlotsAreSeparate /\ LoadedWordIsCurrent

(* A frame put in front of a sequence moves the others up by one.          *)
LEMMA FrontProperties ==
    ASSUME NEW S, NEW s \in Seq(S), NEW e \in S
    PROVE  /\ <<e>> \o s \in Seq(S)
           /\ Len(<<e>> \o s) = Len(s) + 1
           /\ DOMAIN (<<e>> \o s) = 1..(Len(s) + 1)
           /\ (<<e>> \o s)[1] = e
           /\ \A i \in 2..(Len(s) + 1) : (<<e>> \o s)[i] = s[i - 1]
  OBVIOUS

(* Without its first frame, the others move down by one.                   *)
LEMMA RestProperties ==
    ASSUME NEW S, NEW s \in Seq(S), s # <<>>
    PROVE  /\ Tail(s) \in Seq(S)
           /\ Head(s) = s[1]
           /\ Head(s) \in S
           /\ DOMAIN Tail(s) = 1..(Len(s) - 1)
           /\ \A i \in 1..(Len(s) - 1) : Tail(s)[i] = s[i + 1]
           /\ DOMAIN s = 1..Len(s)
           /\ Len(s) \in Nat \ {0}
  OBVIOUS

(* The address written to R6 is a number, whatever the index.              *)
LEMMA AddressType == ASSUME NEW i \in Nat PROVE Address(i) \in Nat
  BY DEF Address

(* No statement is under way at first.                                     *)
LEMMA InitInvariant == Init => IInv
  <1> SUFFICES ASSUME Init PROVE IInv
    OBVIOUS
  <1>1. TypeOK
    <2>1. mem \in [Slots -> Value] /\ idx \in 0..Size /\ r6 \in Nat
      BY SizeAssumption, ValueAssumption DEF Init
    <2>2. pending = <<>> /\ got \in Value /\ assigned = FALSE
      BY DEF Init
    <2>3. pending \in Seq(FrameSet)
      BY <2>2
    <2> QED BY <2>1, <2>2, <2>3 DEF TypeOK
  <1>2. SlotsAreSeparate /\ LoadedWordIsCurrent
    BY DEF Init, SlotsAreSeparate, LoadedWordIsCurrent
  <1> QED BY <1>1, <1>2 DEF IInv

(* What the type invariant says of the statements under way.               *)
LEMMA FrameType ==
    ASSUME TypeOK
    PROVE  \A i \in DOMAIN pending :
              /\ pending[i] \in FrameSet
              /\ pending[i].at \in Slots
              /\ pending[i].at \in Int
  <1> TAKE i \in DOMAIN pending
  <1>1. pending[i] \in FrameSet
    BY DEF TypeOK
  <1>2. pending[i].at \in Slots
    BY <1>1 DEF FrameSet
  <1>3. pending[i].at \in Int
    BY <1>2, SizeAssumption DEF Slots
  <1> QED BY <1>1, <1>2, <1>3

(* A new frame lies below all others when its slot does.                   *)
LEMMA BeginKeepsOrder ==
    ASSUME TypeOK, SlotsAreSeparate,
           NEW f \in FrameSet, pending' = <<f>> \o pending,
           idx' \in 0..Size, idx' <= f.at,
           \A i \in DOMAIN pending : f.at < pending[i].at
    PROVE  SlotsAreSeparate'
  <1> USE DEF TypeOK, SlotsAreSeparate, FrameSet, Slots
  <1>1. /\ DOMAIN pending' = 1..(Len(pending) + 1)
        /\ pending'[1] = f
        /\ \A i \in 2..(Len(pending) + 1) : pending'[i] = pending[i - 1]
        /\ DOMAIN pending = 1..Len(pending)
    BY FrontProperties
  <1>2. \A i, j \in DOMAIN pending' : i < j => pending'[i].at < pending'[j].at
    <2> TAKE i, j \in DOMAIN pending'
    <2> HAVE i < j
    <2>1. j - 1 \in DOMAIN pending /\ pending'[j] = pending[j - 1]
      BY <1>1
    <2>2. CASE i = 1
      BY <1>1, <2>1, <2>2
    <2>3. CASE i # 1
      <3>1. i - 1 \in DOMAIN pending /\ pending'[i] = pending[i - 1]
        BY <1>1, <2>3
      <3> QED BY <2>1, <3>1
    <2> QED BY <2>2, <2>3
  <1>3. \A i \in DOMAIN pending' : idx' <= pending'[i].at
    <2> TAKE i \in DOMAIN pending'
    <2>1. CASE i = 1
      BY <1>1, <2>1
    <2>2. CASE i # 1
      <3>1. i - 1 \in DOMAIN pending /\ pending'[i] = pending[i - 1]
        BY <1>1, <2>2
      <3>2. pending[i - 1].at \in Int
        BY <3>1, FrameType
      <3>3. f.at \in Int
        BY SizeAssumption
      <3> QED BY <3>1, <3>2, <3>3
    <2> QED BY <2>1, <2>2
  <1> QED BY <1>2, <1>3

(* Ending the innermost statement frees its slot: the index may move up to *)
(* it or just past it.                                                     *)
LEMMA EndKeepsOrder ==
    ASSUME TypeOK, SlotsAreSeparate, pending # <<>>,
           pending' = Tail(pending), idx' <= Top.at + 1, idx' \in 0..Size
    PROVE  /\ SlotsAreSeparate'
           /\ \A i \in DOMAIN pending' : Top.at < pending'[i].at
  <1>1. /\ DOMAIN pending' = 1..(Len(pending) - 1)
        /\ \A i \in DOMAIN pending' : pending'[i] = pending[i + 1]
        /\ DOMAIN pending = 1..Len(pending)
        /\ Len(pending) \in Nat \ {0}
        /\ Top = pending[1]
    BY RestProperties DEF TypeOK, Top
  <1>2. \A i \in DOMAIN pending' :
           i + 1 \in DOMAIN pending /\ i \in Nat \ {0} /\ pending'[i] = pending[i + 1]
    BY <1>1
  <1>3. \A i \in DOMAIN pending : pending[i].at \in Int
    BY FrameType
  <1>4. \A i, j \in DOMAIN pending' : i < j => pending'[i].at < pending'[j].at
    BY <1>2 DEF SlotsAreSeparate
  <1>5. \A i \in DOMAIN pending' : Top.at < pending'[i].at
    BY <1>1, <1>2 DEF SlotsAreSeparate
  <1>6. \A i \in DOMAIN pending' : idx' <= pending'[i].at
    <2> TAKE i \in DOMAIN pending'
    <2>1. 1 \in DOMAIN pending
      BY <1>1
    <2>2. Top.at \in Int /\ pending'[i].at \in Int
      BY <1>1, <1>2, <1>3, <2>1
    <2> QED BY <1>5, <2>2
  <1> QED BY <1>4, <1>5, <1>6 DEF SlotsAreSeparate

(* PUSH takes a slot below all those in use.                               *)
LEMMA PushBeginInvariant == IInv /\ PushBegin => IInv'
  <1> SUFFICES ASSUME IInv, PushBegin PROVE IInv'
    OBVIOUS
  <1> USE DEF IInv
  <1> DEFINE f == Frame("push", idx - 1, 0)
  <1>1. f \in FrameSet /\ f.at = idx - 1 /\ f.op = "push"
    BY SizeAssumption, ValueAssumption DEF TypeOK, PushBegin, Frame, FrameSet, Slots
  <1>2. pending' = <<f>> \o pending /\ idx' = idx - 1 /\ idx' \in 0..Size
    BY SizeAssumption DEF PushBegin, TypeOK
  <1> HIDE DEF f
  <1>3. TypeOK'
    <2>1. pending' \in Seq(FrameSet)
      BY <1>1, <1>2, FrontProperties DEF TypeOK
    <2>2. r6' \in Nat
      BY <1>2, AddressType DEF PushBegin
    <2> QED BY <1>2, <2>1, <2>2 DEF TypeOK, PushBegin
  <1>4. SlotsAreSeparate'
    <2>1. \A i \in DOMAIN pending : f.at < pending[i].at
      BY <1>1, FrameType, SizeAssumption DEF SlotsAreSeparate, TypeOK
    <2> QED BY <1>1, <1>2, <2>1, BeginKeepsOrder
  <1>5. LoadedWordIsCurrent'
    <2> SUFFICES ASSUME NEW i \in DOMAIN pending', pending'[i].op = "pop"
                 PROVE  mem[pending'[i].at] = pending'[i].val
      BY DEF LoadedWordIsCurrent, PushBegin
    <2>1. i \in 2..(Len(pending) + 1) /\ pending'[i] = pending[i - 1]
      BY <1>1, <1>2, FrontProperties DEF TypeOK
    <2> QED BY <2>1 DEF LoadedWordIsCurrent, TypeOK
  <1> QED BY <1>3, <1>4, <1>5

(* Its store hits no slot that a waiting POP has loaded.                   *)
LEMMA PushEndInvariant ==
    ASSUME Disciplined, IInv, PushEnd PROVE IInv'
  <1> USE DEF IInv
  <1>1. PICK v \in Value : mem' = [mem EXCEPT ![Top.at] = v]
    BY DEF PushEnd
  <1>2. pending' = Tail(pending) /\ pending # <<>> /\ idx' = idx /\ idx = Top.at
    BY DEF PushEnd
  <1>3. Top \in FrameSet /\ pending' \in Seq(FrameSet)
    BY <1>2, RestProperties DEF TypeOK, Top
  <1>4. TypeOK'
    BY <1>1, <1>2, <1>3 DEF TypeOK, PushEnd
  <1>5. /\ SlotsAreSeparate'
        /\ \A i \in DOMAIN pending' : Top.at < pending'[i].at
    <2>1. idx' <= Top.at + 1 /\ idx' \in 0..Size
      BY <1>2, SizeAssumption DEF TypeOK
    <2> QED BY <1>2, <2>1, EndKeepsOrder
  <1>6. LoadedWordIsCurrent'
    <2> SUFFICES ASSUME NEW i \in DOMAIN pending', pending'[i].op = "pop"
                 PROVE  mem'[pending'[i].at] = pending'[i].val
      BY DEF LoadedWordIsCurrent
    <2>1. pending'[i] = pending[i + 1] /\ i + 1 \in DOMAIN pending
      BY <1>2, RestProperties DEF TypeOK
    <2>2. pending[i + 1] \in FrameSet
      BY <2>1 DEF TypeOK
    <2>3. mem[pending'[i].at] = pending'[i].val
      BY <2>1 DEF LoadedWordIsCurrent
    <2>4. pending'[i].at # Top.at
      BY <1>3, <1>5, <2>1, <2>2 DEF FrameSet, Slots
    <2> QED BY <1>1, <2>1, <2>2, <2>3, <2>4 DEF TypeOK, FrameSet
  <1> QED BY <1>4, <1>5, <1>6

(* POP loads a word above the floor of the function being run.             *)
LEMMA PopBeginInvariant ==
    ASSUME Disciplined, IInv, PopBegin PROVE IInv'
  <1> USE DEF IInv
  <1> DEFINE f == Frame("pop", idx, mem[idx])
  <1>1. f \in FrameSet /\ f.at = idx /\ f.val = mem[idx]
    BY SizeAssumption DEF TypeOK, PopBegin, Frame, FrameSet, Slots
  <1>2. pending' = <<f>> \o pending /\ idx' = idx /\ idx' \in 0..Size
    BY DEF PopBegin, TypeOK
  <1> HIDE DEF f
  <1>3. TypeOK'
    <2>1. pending' \in Seq(FrameSet)
      BY <1>1, <1>2, FrontProperties DEF TypeOK
    <2> QED BY <1>2, <2>1 DEF TypeOK, PopBegin
  <1>4. SlotsAreSeparate'
    <2>1. \A i \in DOMAIN pending : f.at < pending[i].at
      <3> SUFFICES ASSUME NEW i \in DOMAIN pending PROVE idx < pending[i].at
        BY <1>1
      <3>1. /\ pending # <<>> /\ 1 \in DOMAIN pending /\ Top = pending[1]
            /\ DOMAIN pending = 1..Len(pending) /\ Len(pending) \in Nat \ {0}
        BY RestProperties DEF TypeOK, Top
      <3>2. idx < pending[1].at
        BY <3>1 DEF PopBegin, Floor
      <3>3. i = 1 \/ pending[1].at < pending[i].at
        BY <3>1 DEF SlotsAreSeparate
      <3>4. pending[1].at \in Int /\ pending[i].at \in Int /\ idx \in Int
        BY <3>1, FrameType, SizeAssumption DEF TypeOK
      <3> QED BY <3>2, <3>3, <3>4
    <2> QED BY <1>1, <1>2, <2>1, BeginKeepsOrder, SizeAssumption DEF TypeOK
  <1>5. LoadedWordIsCurrent'
    <2> SUFFICES ASSUME NEW i \in DOMAIN pending', pending'[i].op = "pop"
                 PROVE  mem[pending'[i].at] = pending'[i].val
      BY DEF LoadedWordIsCurrent, PopBegin
    <2>1. CASE i = 1
      BY <1>1, <1>2, <2>1, FrontProperties DEF TypeOK
    <2>2. CASE i # 1
      <3>1. i \in 2..(Len(pending) + 1) /\ pending'[i] = pending[i - 1]
        BY <1>1, <1>2, <2>2, FrontProperties DEF TypeOK
      <3> QED BY <3>1 DEF LoadedWordIsCurrent, TypeOK
    <2> QED BY <2>1, <2>2
  <1> QED BY <1>3, <1>4, <1>5

(* It gives back its slot, and those that wait lie above.                  *)
LEMMA PopEndInvariant ==
    ASSUME Disciplined, IInv, PopEnd PROVE IInv'
  <1> USE DEF IInv
  <1>1. /\ pending' = Tail(pending) /\ pending # <<>>
        /\ idx = Top.at /\ idx' = Top.at + 1 /\ mem' = mem
    BY DEF PopEnd
  <1>2. Top \in FrameSet /\ pending' \in Seq(FrameSet)
    BY <1>1, RestProperties DEF TypeOK, Top
  <1>3. idx' \in 0..Size /\ idx' <= Top.at + 1 /\ r6' \in Nat
    <2>1. Top.at \in 0..(Size - 1)
      BY <1>2 DEF FrameSet, Slots
    <2>2. idx' \in 0..Size /\ idx' <= Top.at + 1
      BY <1>1, <2>1, SizeAssumption
    <2>3. r6' = Address(Top.at + 1) /\ Top.at + 1 \in Nat
      BY <2>1, SizeAssumption DEF PopEnd
    <2> QED BY <2>2, <2>3, AddressType
  <1>4. TypeOK'
    BY <1>1, <1>2, <1>3 DEF TypeOK, PopEnd, FrameSet
  <1>5. SlotsAreSeparate'
    BY <1>1, <1>3, EndKeepsOrder
  <1>6. LoadedWordIsCurrent'
    <2> SUFFICES ASSUME NEW i \in DOMAIN pending', pending'[i].op = "pop"
                 PROVE  mem[pending'[i].at] = pending'[i].val
      BY <1>1 DEF LoadedWordIsCurrent
    <2>1. pending'[i] = pending[i + 1] /\ i + 1 \in DOMAIN pending
      BY <1>1, RestProperties DEF TypeOK
    <2> QED BY <2>1 DEF LoadedWordIsCurrent
  <1> QED BY <1>4, <1>5, <1>6

(* An assignment to R6 touches neither the stack nor its index.            *)
LEMMA AssignR6Invariant == IInv /\ AssignR6 => IInv'
  <1> SUFFICES ASSUME IInv, AssignR6 PROVE IInv'
    OBVIOUS
  <1>1. r6' \in Nat /\ assigned' \in BOOLEAN
    BY ValueAssumption DEF AssignR6
  <1>2. mem' = mem /\ idx' = idx /\ pending' = pending /\ got' = got
    BY DEF AssignR6
  <1> QED BY <1>1, <1>2 DEF IInv, TypeOK, SlotsAreSeparate, LoadedWordIsCurrent

(* PUSH and POP, each in two steps with calls in between, keep the         *)
(* conjunction of the three properties.                                    *)
LEMMA StepInvariant ==
    ASSUME Disciplined PROVE IInv /\ [Next]_vars => IInv'
  <1> SUFFICES ASSUME IInv, [Next]_vars PROVE IInv'
    OBVIOUS
  <1>1. CASE PushBegin
    BY <1>1, PushBeginInvariant
  <1>2. CASE PushEnd
    BY <1>2, PushEndInvariant
  <1>3. CASE PopBegin
    BY <1>3, PopBeginInvariant
  <1>4. CASE PopEnd
    BY <1>4, PopEndInvariant
  <1>5. CASE AssignR6
    BY <1>5, AssignR6Invariant
  <1>6. CASE UNCHANGED vars
    BY <1>6 DEF vars, IInv, TypeOK, SlotsAreSeparate, LoadedWordIsCurrent
  <1> QED BY <1>1, <1>2, <1>3, <1>4, <1>5, <1>6 DEF Next

(* The generated code of PUSH and POP keeps the index within the stack and *)
(* the words within Value.                                                 *)
THEOREM StackTypeCorrect == ASSUME Disciplined PROVE Spec => []TypeOK
  <1>1. IInv => TypeOK
    BY DEF IInv
  <1> QED BY InitInvariant, StepInvariant, <1>1, PTL DEF Spec

(* The statements under way never share a slot.                            *)
THEOREM StackSlotsSeparate ==
    ASSUME Disciplined PROVE Spec => []SlotsAreSeparate
  <1>1. IInv => SlotsAreSeparate
    BY DEF IInv
  <1> QED BY InitInvariant, StepInvariant, <1>1, PTL DEF Spec

(* The word that a POP loads before its target is evaluated is still in    *)
(* its slot when the statement ends, whatever the target calls.            *)
THEOREM StackLoadedWordCurrent ==
    ASSUME Disciplined PROVE Spec => []LoadedWordIsCurrent
  <1>1. IInv => LoadedWordIsCurrent
    BY DEF IInv
  <1> QED BY InitInvariant, StepInvariant, <1>1, PTL DEF Spec

(* Whatever the functions do, R6 is the address that the index denotes     *)
(* once the first PUSH or POP has run, except from an assignment to it     *)
(* until the next PUSH or POP that moves the index: every step that moves  *)
(* the index sets R6, and the exception of the beginning ends for good.    *)
THEOREM StackR6Synchronised == Spec => []R6Synchronised
  <1>1. Init => R6Synchronised
    BY DEF Init, R6Synchronised
  <1>2. R6Synchronised /\ [Next]_vars => R6Synchronised'
    <2> SUFFICES ASSUME R6Synchronised, [Next]_vars PROVE R6Synchronised'
      OBVIOUS
    <2>1. CASE PushBegin
      BY <2>1 DEF PushBegin, R6Synchronised
    <2>2. CASE PushEnd
      BY <2>2 DEF PushEnd, R6Synchronised
    <2>3. CASE PopBegin
      <3>1. idx # Size
        BY <2>3, SizeAssumption DEF PopBegin
      <3> QED BY <2>3, <3>1 DEF PopBegin, R6Synchronised
    <2>4. CASE PopEnd
      BY <2>4 DEF PopEnd, R6Synchronised
    <2>5. CASE AssignR6
      BY <2>5 DEF AssignR6, R6Synchronised
    <2>6. CASE UNCHANGED vars
      BY <2>6 DEF vars, R6Synchronised
    <2> QED BY <2>1, <2>2, <2>3, <2>4, <2>5, <2>6 DEF Next
  <1> QED BY <1>1, <1>2, PTL DEF Spec

(***************************************************************************)
(* The words in the slots, in order, are a stack: the slot with the n-th   *)
(* smallest index holds the n-th word.                                     *)
(***************************************************************************)
(* The rank of a number among a finite set of them is positive, at most    *)
(* their number, and different for different members.                      *)
LEMMA RankProperties ==
    ASSUME NEW S \in SUBSET Int, IsFiniteSet(S)
    PROVE  /\ \A s \in S : Rank(S, s) \in 1..Cardinality(S)
           /\ \A s, t \in S : s < t => Rank(S, s) < Rank(S, t)
  <1> DEFINE Low(s) == {u \in S : u <= s}
  <1>1. \A s \in S : IsFiniteSet(Low(s)) /\ Cardinality(Low(s)) \in Nat
                     /\ Cardinality(Low(s)) <= Cardinality(S)
    BY FS_Subset, FS_CardinalityType
  <1>2. Cardinality(S) \in Nat
    BY FS_CardinalityType
  <1>3. ASSUME NEW s \in S PROVE Cardinality(Low(s)) # 0
    <2>1. s \in Low(s)
      OBVIOUS
    <2> QED BY <1>1, <2>1, FS_EmptySet
  <1>4. ASSUME NEW s \in S, NEW t \in S, s < t
        PROVE  Cardinality(Low(s)) < Cardinality(Low(t))
    <2>1. Low(s) \subseteq Low(t) /\ t \in Low(t) /\ t \notin Low(s)
      <3>1. s \in Int /\ t \in Int
        OBVIOUS
      <3>2. \A u \in Low(s) : u \in S /\ u \in Int /\ u <= t
        BY <1>4, <3>1
      <3>3. ~ (t <= s) /\ t <= t
        BY <1>4, <3>1
      <3> QED BY <3>2, <3>3
    <2>2. /\ Cardinality(Low(s)) <= Cardinality(Low(t))
          /\ Cardinality(Low(t)) # Cardinality(Low(s))
      <3> HIDE DEF Low
      <3> QED BY <1>1, <2>1, FS_Subset
    <2> QED BY <1>1, <2>2
  <1> QED BY <1>1, <1>2, <1>3, <1>4 DEF Rank

(* So every rank up to their number is the rank of one of them.            *)
LEMMA NthProperties ==
    ASSUME NEW S \in SUBSET Int, IsFiniteSet(S), NEW n \in 1..Cardinality(S)
    PROVE  Nth(S, n) \in S /\ Rank(S, Nth(S, n)) = n
  <1> DEFINE N == Cardinality(S)
             f == [s \in S |-> Rank(S, s)]
  <1>1. N \in Nat
    BY FS_CardinalityType
  <1>2. IsFiniteSet(1..N) /\ Cardinality(1..N) = N
    <2>1. 1 \in Int /\ N \in Int /\ (N < 1 => N = 0)
      BY <1>1
    <2> HIDE DEF N
    <2> QED BY <1>1, <2>1, FS_Interval
  <1>3. f \in [S -> 1..N]
    BY RankProperties
  <1>4. \A s, t \in S : f[s] = f[t] => s = t
    <2> SUFFICES ASSUME NEW s \in S, NEW t \in S, s # t PROVE Rank(S, s) # Rank(S, t)
      OBVIOUS
    <2>1. s < t \/ t < s
      OBVIOUS
    <2>2. Rank(S, s) \in Int /\ Rank(S, t) \in Int
      BY <1>1, RankProperties
    <2> QED BY <2>1, <2>2, RankProperties
  <1>5. f \in Injection(S, 1..N)
    BY <1>3, <1>4 DEF Injection, IsInjective
  <1>6. f \in Surjection(S, 1..N)
    <2> HIDE DEF f, N
    <2>1. Cardinality(S) = Cardinality(1..N)
      BY <1>2 DEF N
    <2> QED BY <1>2, <1>5, <2>1, FS_Injection
  <1>7. \E s \in S : f[s] = n
    BY <1>6 DEF Surjection
  <1>8. \E s \in S : Rank(S, s) = n
    BY <1>7
  <1> QED BY <1>8 DEF Nth

(* Members of equal rank are equal.                                        *)
LEMMA NthUnique ==
    ASSUME NEW S \in SUBSET Int, IsFiniteSet(S), NEW s \in S
    PROVE  Nth(S, Rank(S, s)) = s
  <1> DEFINE t == Nth(S, Rank(S, s))
  <1>1. Rank(S, s) \in 1..Cardinality(S) /\ Cardinality(S) \in Nat
    BY RankProperties, FS_CardinalityType
  <1>2. t \in S /\ Rank(S, t) = Rank(S, s)
    BY <1>1, NthProperties
  <1>3. ~ (s < t) /\ ~ (t < s)
    <2> HIDE DEF t
    <2> QED BY <1>1, <1>2, RankProperties
  <1> HIDE DEF t
  <1>4. t = s
    BY <1>2, <1>3
  <1> QED BY <1>4 DEF t

(* A new smallest member comes first and moves the others up by one.       *)
LEMMA NewLowest ==
    ASSUME NEW S \in SUBSET Int, IsFiniteSet(S), NEW m \in Int,
           \A s \in S : m < s
    PROVE  LET T == S \cup {m}
           IN  /\ IsFiniteSet(T) /\ T \subseteq Int
               /\ Cardinality(T) = Cardinality(S) + 1
               /\ Nth(T, 1) = m
               /\ \A n \in 1..Cardinality(S) : Nth(T, n + 1) = Nth(S, n)
  <1> DEFINE T == S \cup {m}
  <1>1. m \notin S
    OBVIOUS
  <1>2. IsFiniteSet(T) /\ T \in SUBSET Int /\ Cardinality(T) = Cardinality(S) + 1
    BY <1>1, FS_AddElement
  <1>3. Rank(T, m) = 1
    <2>1. \A u \in T : u <= m <=> u = m
      <3>1. \A u \in S : ~ (u <= m) /\ u # m
        <4> TAKE u \in S
        <4>1. u \in Int /\ m < u
          OBVIOUS
        <4> QED BY <4>1
      <3> QED BY <3>1
    <2>2. {u \in T : u <= m} = {m}
      BY <2>1
    <2> QED BY <2>2, FS_Singleton DEF Rank
  <1>4. Nth(T, 1) = m
    <2>1. m \in T
      OBVIOUS
    <2> HIDE DEF T
    <2>2. Nth(T, Rank(T, m)) = m
      BY <1>2, <2>1, NthUnique
    <2> QED BY <1>3, <2>2
  <1>5. ASSUME NEW n \in 1..Cardinality(S) PROVE Nth(T, n + 1) = Nth(S, n)
    <2> DEFINE s == Nth(S, n)
               L == {u \in S : u <= s}
    <2>1. s \in S /\ Rank(S, s) = n
      BY NthProperties
    <2> HIDE DEF s
    <2>2. {u \in T : u <= s} = L \cup {m}
      BY <2>1
    <2>3. IsFiniteSet(L) /\ m \notin L
      BY <1>1, FS_Subset
    <2>4. Cardinality(L) = n
      BY <2>1 DEF Rank
    <2> HIDE DEF L
    <2>5. Cardinality(L \cup {m}) = n + 1
      BY <2>3, <2>4, FS_AddElement
    <2>6. Rank(T, s) = n + 1
      BY <2>2, <2>5 DEF Rank
    <2>7. s \in T
      BY <2>1
    <2> HIDE DEF T
    <2>8. Nth(T, n + 1) = s
      BY <1>2, <2>6, <2>7, NthUnique
    <2> QED BY <2>8 DEF s
  <1> QED BY <1>2, <1>4, <1>5

(* A word in front of a sequence, written as functions.                    *)
LEMMA FrontWord ==
    ASSUME NEW k \in Nat, NEW W, NEW c \in [1..k -> W],
           NEW d \in [1..(k + 1) -> W], \A n \in 1..k : d[n + 1] = c[n]
    PROVE  /\ d = <<d[1]>> \o c /\ c = Tail(d) /\ d[1] = Head(d)
           /\ d # <<>> /\ Len(c) = k
  <1>1. d[1] \in W
    <2>1. 1 \in 1..(k + 1)
      OBVIOUS
    <2> QED BY <2>1
  <1>2. c \in Seq(W) /\ Len(c) = k /\ DOMAIN c = 1..k
    BY <1>1
  <1>3. /\ <<d[1]>> \o c \in Seq(W)
        /\ DOMAIN (<<d[1]>> \o c) = 1..(k + 1)
        /\ (<<d[1]>> \o c)[1] = d[1]
        /\ \A i \in 2..(k + 1) : (<<d[1]>> \o c)[i] = c[i - 1]
    BY <1>1, <1>2, FrontProperties
  <1>4. \A i \in 1..(k + 1) : (<<d[1]>> \o c)[i] = d[i]
    <2> TAKE i \in 1..(k + 1)
    <2>1. CASE i = 1
      BY <1>3, <2>1
    <2>2. CASE i # 1
      <3>1. i \in 2..(k + 1) /\ i - 1 \in 1..k /\ (i - 1) + 1 = i
        BY <2>2
      <3> QED BY <1>3, <3>1
    <2> QED BY <2>1, <2>2
  <1>5. d = <<d[1]>> \o c
    <2> DEFINE e == <<d[1]>> \o c
    <2>1. DOMAIN e = 1..(k + 1) /\ e = [i \in DOMAIN e |-> e[i]]
      BY <1>3
    <2>2. \A i \in 1..(k + 1) : e[i] = d[i]
      BY <1>4
    <2> HIDE DEF e
    <2>3. e = d
      BY <2>1, <2>2
    <2> QED BY <2>3 DEF e
  <1>7. d \in Seq(W) /\ Len(d) = k + 1 /\ d # <<>>
    OBVIOUS
  <1>8. /\ Tail(d) \in Seq(W) /\ Head(d) = d[1] /\ DOMAIN Tail(d) = 1..k
        /\ \A i \in 1..k : Tail(d)[i] = d[i + 1]
    BY <1>7, RestProperties
  <1>9. c = Tail(d)
    <2> DEFINE e == Tail(d)
    <2>1. e \in Seq(W) /\ DOMAIN e = 1..k
      BY <1>8
    <2>2. \A i \in 1..k : e[i] = c[i]
      BY <1>8
    <2> HIDE DEF e
    <2>3. e = [i \in 1..k |-> e[i]]
      BY <2>1
    <2>4. e = c
      BY <2>2, <2>3
    <2> QED BY <2>4 DEF e
  <1> QED BY <1>2, <1>5, <1>7, <1>8, <1>9

(* Where words are held.                                                   *)
LEMMA HeldType ==
    ASSUME TypeOK
    PROVE  /\ Held \in SUBSET Int /\ Held \subseteq Slots /\ IsFiniteSet(Held)
           /\ Cardinality(Held) \in Nat
           /\ \A s \in Held : idx <= s
           /\ Cardinality(Slots) = Size /\ IsFiniteSet(Slots)
  <1>1. Held \subseteq Slots /\ \A s \in Held : s \in Int /\ idx <= s
    BY SizeAssumption DEF TypeOK, Held, Slots
  <1>2. IsFiniteSet(Slots) /\ Cardinality(Slots) = Size
    <2>1. 0 \in Int /\ Size - 1 \in Int
      BY SizeAssumption
    <2> QED BY <2>1, FS_Interval, SizeAssumption DEF Slots
  <1>3. IsFiniteSet(Held)
    BY <1>1, <1>2, FS_Subset
  <1> QED BY <1>1, <1>2, <1>3, FS_CardinalityType

(* The first step of PUSH takes a slot and reserves it; that of POP only   *)
(* notes what it read: neither changes the stack that the program sees.    *)
LEMMA BeginKeepsContents ==
    ASSUME IInv, Disciplined, PushBegin \/ PopBegin
    PROVE  Contents' = Contents
  <1> USE DEF IInv
  <1> DEFINE f == IF PushBegin THEN Frame("push", idx - 1, 0)
                               ELSE Frame("pop", idx, mem[idx])
  <1>1. /\ f \in FrameSet /\ pending' = <<f>> \o pending /\ mem' = mem
        /\ \/ f.op = "push" /\ f.at = idx - 1 /\ idx' = idx - 1
           \/ f.op = "pop" /\ idx' = idx
    BY SizeAssumption, ValueAssumption
       DEF TypeOK, PushBegin, PopBegin, Frame, FrameSet, Slots
  <1> HIDE DEF f
  <1>2. /\ DOMAIN pending' = 1..(Len(pending) + 1) /\ DOMAIN pending = 1..Len(pending)
        /\ pending'[1] = f /\ Len(pending) \in Nat
        /\ \A i \in 2..(Len(pending) + 1) : pending'[i] = pending[i - 1]
    BY <1>1, FrontProperties DEF TypeOK
  <1>3. \A x : x \in Reserved' <=> x \in Reserved \/ (f.op = "push" /\ x = f.at)
    <2> TAKE x
    <2>1. ASSUME x \in Reserved PROVE x \in Reserved'
      <3>1. PICK i \in DOMAIN pending : pending[i].op = "push" /\ x = pending[i].at
        BY <2>1 DEF Reserved
      <3>2. i + 1 \in DOMAIN pending' /\ pending'[i + 1] = pending[i]
        BY <1>2
      <3> QED BY <3>1, <3>2 DEF Reserved
    <2>2. ASSUME f.op = "push", x = f.at PROVE x \in Reserved'
      <3>1. 1 \in DOMAIN pending' /\ pending'[1] = f
        BY <1>2
      <3> QED BY <2>2, <3>1 DEF Reserved
    <2>3. ASSUME x \in Reserved', ~ (f.op = "push" /\ x = f.at) PROVE x \in Reserved
      <3>1. PICK i \in DOMAIN pending' : pending'[i].op = "push" /\ x = pending'[i].at
        BY <2>3 DEF Reserved
      <3>2. i # 1
        BY <1>2, <2>3, <3>1
      <3>3. i - 1 \in DOMAIN pending /\ pending'[i] = pending[i - 1]
        BY <1>2, <3>2
      <3> QED BY <3>1, <3>3 DEF Reserved
    <2> QED BY <2>1, <2>2, <2>3
  <1>4. Held' = Held
    <2>1. \A x : x \in Held' <=> x \in Held
      BY <1>1, <1>3, SizeAssumption DEF Held, TypeOK
    <2> QED BY <2>1
  <1> QED BY <1>1, <1>4 DEF Contents

(* With the innermost statement done, its slot is reserved no longer; no   *)
(* other statement works on it.                                            *)
LEMMA EndFreesSlot ==
    ASSUME IInv, pending # <<>>, pending' = Tail(pending)
    PROVE  /\ Top.at \notin Reserved'
           /\ Top.op = "push" => Reserved = Reserved' \cup {Top.at}
           /\ Top.op = "pop" => Reserved' = Reserved
  <1> USE DEF IInv
  <1>1. /\ Top = pending[1] /\ DOMAIN pending = 1..Len(pending)
        /\ DOMAIN pending' = 1..(Len(pending) - 1) /\ Len(pending) \in Nat \ {0}
        /\ \A i \in 1..(Len(pending) - 1) : pending'[i] = pending[i + 1]
    BY RestProperties DEF TypeOK, Top
  <1>2. \A x \in Reserved' : x \in Reserved /\ x # Top.at
    <2> TAKE x \in Reserved'
    <2>1. PICK i \in DOMAIN pending' : pending'[i].op = "push" /\ x = pending'[i].at
      BY DEF Reserved
    <2>2. i + 1 \in DOMAIN pending /\ pending'[i] = pending[i + 1] /\ 1 < i + 1
          /\ 1 \in DOMAIN pending
      BY <1>1
    <2>3. pending[1].at < pending[i + 1].at
      BY <2>2 DEF SlotsAreSeparate
    <2>4. pending[1].at \in Int /\ pending[i + 1].at \in Int
      BY <2>2, FrameType
    <2> QED BY <1>1, <2>1, <2>2, <2>3, <2>4 DEF Reserved
  <1>3. \A x \in Reserved : x \in Reserved' \/ (Top.op = "push" /\ x = Top.at)
    <2> TAKE x \in Reserved
    <2>1. PICK i \in DOMAIN pending : pending[i].op = "push" /\ x = pending[i].at
      BY DEF Reserved
    <2>2. CASE i = 1
      BY <1>1, <2>1, <2>2
    <2>3. CASE i # 1
      <3>1. i - 1 \in DOMAIN pending' /\ pending'[i - 1] = pending[i]
        BY <1>1, <2>3
      <3> QED BY <2>1, <3>1 DEF Reserved
    <2> QED BY <2>2, <2>3
  <1>4. Top.op = "push" => Top.at \in Reserved
    BY <1>1 DEF Reserved
  <1> QED BY <1>2, <1>3, <1>4

(* The store of PUSH is the push: the value goes in front of the others.   *)
LEMMA PushEndPushes ==
    ASSUME IInv, Disciplined, PushEnd
    PROVE  Lifo!Push
  <1> USE DEF IInv
  <1>1. PICK v \in Value : mem' = [mem EXCEPT ![Top.at] = v]
    BY DEF PushEnd
  <1>2. /\ pending # <<>> /\ pending' = Tail(pending) /\ Top.op = "push"
        /\ idx' = idx /\ idx = Top.at /\ got' = got
    BY DEF PushEnd
  <1>3. idx \in Slots
    <2>1. pending \in Seq(FrameSet)
      BY DEF TypeOK
    <2>2. Top \in FrameSet
      BY <1>2, <2>1, RestProperties DEF Top
    <2> QED BY <1>2, <2>2 DEF FrameSet
  <1>4. Held' = Held \cup {idx} /\ idx \notin Held
    <2>1. Reserved = Reserved' \cup {idx} /\ idx \notin Reserved'
      BY <1>2, EndFreesSlot
    <2> QED BY <1>2, <1>3, <2>1, SizeAssumption DEF Held, Slots
  <1>5. \A s \in Held : idx < s
    <2>1. idx \in Int
      BY <1>3, SizeAssumption DEF Slots
    <2> QED BY <1>4, <2>1, HeldType
  <1> DEFINE k == Cardinality(Held)
  <1>6. k \in Nat /\ Held \in SUBSET Int /\ IsFiniteSet(Held) /\ idx \in Int
    BY <1>3, HeldType, SizeAssumption DEF Slots
  <1>7. /\ Cardinality(Held') = k + 1 /\ Nth(Held', 1) = idx
        /\ \A n \in 1..k : Nth(Held', n + 1) = Nth(Held, n)
    BY <1>4, <1>5, <1>6, NewLowest
  <1>8. \A n \in 1..k : Nth(Held, n) \in Held
    BY <1>6, NthProperties
  <1>9. mem'[idx] = v /\ \A s \in Held : mem'[s] = mem[s]
    <2>1. Held \subseteq Slots
      BY HeldType
    <2> QED BY <1>1, <1>2, <1>3, <1>4, <2>1 DEF TypeOK
  <1>10. /\ Contents = [n \in 1..k |-> mem[Nth(Held, n)]]
         /\ Contents' = [n \in 1..(k + 1) |-> mem'[Nth(Held', n)]]
    BY <1>7 DEF Contents
  <1> HIDE DEF k
  <1> DEFINE W == {Contents[n] : n \in 1..k} \cup {Contents'[n] : n \in 1..(k + 1)}
  <1>11. /\ Contents \in [1..k -> W]
         /\ Contents' \in [1..(k + 1) -> W]
         /\ Contents'[1] = v
    BY <1>6, <1>7, <1>9, <1>10
  <1> HIDE DEF W
  <1>12. \A n \in 1..k : Contents'[n + 1] = Contents[n]
    <2> TAKE n \in 1..k
    <2>1. n + 1 \in 1..(k + 1)
      BY <1>6
    <2>2. Contents'[n + 1] = mem'[Nth(Held, n)]
      BY <1>7, <1>10, <2>1
    <2> QED BY <1>8, <1>9, <1>10, <2>2
  <1>13. Contents' = <<v>> \o Contents /\ Len(Contents) = k
    <2> DEFINE c == Contents
               d == Contents'
    <2>1. /\ c \in [1..k -> W] /\ d \in [1..(k + 1) -> W]
          /\ \A n \in 1..k : d[n + 1] = c[n]
      BY <1>11, <1>12
    <2>2. d[1] = v
      BY <1>11
    <2> HIDE DEF c, d
    <2>3. d = <<v>> \o c /\ Len(c) = k
      BY <1>6, <2>1, <2>2, FrontWord
    <2> QED BY <2>3 DEF c, d
  <1>14. k < Size
    <2>1. Held \subseteq Slots /\ Cardinality(Slots) = Size /\ IsFiniteSet(Slots)
      BY HeldType
    <2>2. k <= Size /\ k # Size
      BY <1>3, <1>4, <2>1, FS_Subset DEF k
    <2> QED BY <1>6, <2>2, SizeAssumption
  <1> QED BY <1>2, <1>13, <1>14 DEF Lifo!Push

(* The second step of POP is the pop: it delivers the first word.          *)
LEMMA PopEndPops ==
    ASSUME IInv, Disciplined, PopEnd
    PROVE  Lifo!Pop
  <1> USE DEF IInv
  <1>1. /\ pending # <<>> /\ pending' = Tail(pending) /\ Top.op = "pop"
        /\ idx = Top.at /\ idx' = idx + 1 /\ mem' = mem /\ got' = Top.val
    BY DEF PopEnd
  <1>2. idx \in Slots /\ idx \in Int
    <2>1. Top \in FrameSet
      BY <1>1, RestProperties DEF TypeOK, Top
    <2>2. idx \in Slots
      BY <1>1, <2>1 DEF FrameSet
    <2> QED BY <2>2, SizeAssumption DEF Slots
  <1>3. Top.val = mem[idx]
    <2>1. 1 \in DOMAIN pending /\ Top = pending[1]
      BY <1>1, RestProperties DEF TypeOK, Top
    <2> QED BY <1>1, <2>1 DEF LoadedWordIsCurrent
  <1>4. Held = Held' \cup {idx} /\ \A s \in Held' : idx < s
    <2>1. Reserved' = Reserved /\ idx \notin Reserved
      BY <1>1, EndFreesSlot
    <2>2. \A s : s \in Held <=> s \in Held' \/ s = idx
      BY <1>1, <1>2, <2>1, SizeAssumption DEF Held, Slots
    <2>3. \A s \in Held' : idx < s
      BY <1>1, <1>2, SizeAssumption DEF Held
    <2> QED BY <2>2, <2>3
  <1> DEFINE H == Held'
             k == Cardinality(H)
  <1>5. k \in Nat /\ H \in SUBSET Int /\ IsFiniteSet(H)
    <2>1. H \subseteq Held
      BY <1>4
    <2> HIDE DEF H
    <2>2. H \in SUBSET Int /\ IsFiniteSet(H)
      BY <2>1, HeldType, FS_Subset
    <2> QED BY <2>2, FS_CardinalityType
  <1>6. /\ Cardinality(Held) = k + 1 /\ Nth(Held, 1) = idx
        /\ \A n \in 1..k : Nth(Held, n + 1) = Nth(H, n)
    <2>1. Held = H \cup {idx} /\ \A s \in H : idx < s
      BY <1>4
    <2> HIDE DEF H
    <2> QED BY <1>2, <1>5, <2>1, NewLowest
  <1>7. /\ Contents = [n \in 1..(k + 1) |-> mem[Nth(Held, n)]]
        /\ Contents' = [n \in 1..k |-> mem[Nth(H, n)]]
    BY <1>1, <1>6 DEF Contents
  <1> HIDE DEF k, H
  <1> DEFINE W == {Contents'[n] : n \in 1..k} \cup {Contents[n] : n \in 1..(k + 1)}
  <1>8. /\ Contents \in [1..(k + 1) -> W]
        /\ Contents' \in [1..k -> W]
        /\ Contents[1] = mem[idx]
    BY <1>5, <1>6, <1>7
  <1> HIDE DEF W
  <1>9. \A n \in 1..k : Contents[n + 1] = Contents'[n]
    <2> TAKE n \in 1..k
    <2>1. n + 1 \in 1..(k + 1)
      BY <1>5
    <2> QED BY <1>6, <1>7, <2>1
  <1>10. /\ Contents' = Tail(Contents) /\ Contents # <<>>
         /\ mem[idx] = Head(Contents)
    <2> DEFINE d == Contents
               c == Contents'
    <2>1. /\ c \in [1..k -> W] /\ d \in [1..(k + 1) -> W]
          /\ \A n \in 1..k : d[n + 1] = c[n]
      BY <1>8, <1>9
    <2>2. d[1] = mem[idx]
      BY <1>8
    <2> HIDE DEF c, d
    <2>3. c = Tail(d) /\ d # <<>> /\ mem[idx] = Head(d)
      BY <1>5, <2>1, <2>2, FrontWord
    <2> QED BY <2>3 DEF c, d
  <1> QED BY <1>1, <1>3, <1>10 DEF Lifo!Pop

(* The stack is empty at first.                                            *)
LEMMA InitImplementsLifo == Init => Lifo!Init
  <1> SUFFICES ASSUME Init PROVE Lifo!Init
    OBVIOUS
  <1>1. Held = {}
    BY SizeAssumption DEF Init, Held
  <1>2. Cardinality(Held) = 0
    BY <1>1, FS_EmptySet
  <1>3. Contents = <<>>
    BY <1>2 DEF Contents
  <1> QED BY <1>3 DEF Init, Lifo!Init

(* A PUSH pushes when it stores, a POP pops when it ends, and their first  *)
(* steps are not seen.                                                     *)
LEMMA StepImplementsLifo ==
    ASSUME Disciplined
    PROVE  IInv /\ [Next]_vars => [Lifo!Next]_<<Contents, got>>
  <1> SUFFICES ASSUME IInv, [Next]_vars PROVE [Lifo!Next]_<<Contents, got>>
    OBVIOUS
  <1>1. CASE PushBegin
    BY <1>1, BeginKeepsContents DEF PushBegin
  <1>2. CASE PushEnd
    BY <1>2, PushEndPushes DEF Lifo!Next
  <1>3. CASE PopBegin
    BY <1>3, BeginKeepsContents DEF PopBegin
  <1>4. CASE PopEnd
    BY <1>4, PopEndPops DEF Lifo!Next
  <1>5. CASE AssignR6
    BY <1>5 DEF AssignR6, Contents, Held, Reserved
  <1>6. CASE UNCHANGED vars
    BY <1>6 DEF vars, Contents, Held, Reserved
  <1> QED BY <1>1, <1>2, <1>3, <1>4, <1>5, <1>6 DEF Next

(* PUSH and POP, each two steps with any number of balanced calls between, *)
(* implement the LIFO stack of the language reference: the value that a    *)
(* POP delivers is the last one that was pushed and not yet popped.        *)
THEOREM StackIsLifo == ASSUME Disciplined PROVE Spec => IsLifo
  <1> QED BY InitInvariant, StepInvariant, InitImplementsLifo, StepImplementsLifo,
             PTL DEF Spec, IsLifo, Lifo!Spec

-----------------------------------------------------------------------------
(***************************************************************************)
(* The FOR loop.                                                           *)
(***************************************************************************)
(* A sum in the range of the counter is not reduced, and any sum lands in  *)
(* it.                                                                     *)
LEMMA AddIsExact ==
    ASSUME NEW a \in Counter, NEW b \in Counter, a + b \in Counter
    PROVE  Add(a, b) = a + b
  <1> DEFINE x == a + b - MinInt
  <1>1. x \in Int /\ 0 <= x /\ x < Modulus /\ Modulus \in Nat /\ Modulus > 0
    BY RangeAssumption DEF Counter, Modulus
  <1>2. x % Modulus = x
    <2> HIDE DEF x
    <2>1. \A y, r \in Int : 0 <= y /\ y < r => y % r = y
      BY SMTT(30)
    <2> QED BY <1>1, <2>1
  <1>3. MinInt \in Int /\ a \in Int /\ b \in Int
    BY RangeAssumption DEF Counter
  <1> QED BY <1>2, <1>3 DEF Add

LEMMA AddInRange ==
    ASSUME NEW a \in Counter, NEW b \in Counter
    PROVE  Add(a, b) \in Counter
  <1> DEFINE x == a + b - MinInt
  <1>1. x \in Int /\ Modulus \in Int /\ Modulus > 0 /\ MinInt \in Int
        /\ MinInt + Modulus - 1 = MaxInt
    BY RangeAssumption DEF Counter, Modulus
  <1>2. x % Modulus \in 0..(Modulus - 1)
    <2> HIDE DEF x
    <2>1. \A y, r \in Int : r > 0 => y % r \in 0..(r - 1)
      BY SMTT(30)
    <2> QED BY <1>1, <2>1
  <1> HIDE DEF x
  <1>3. (x % Modulus) + MinInt \in MinInt..MaxInt
    BY <1>1, <1>2
  <1> QED BY <1>3 DEF Add, Counter, x

(* The inductive invariant.                                                *)
NotPast == pc \in {"body", "until", "step"} => Continues(counter)
LoopInv == LoopTypeOK /\ CounterStaysInBounds /\ NotPast

LEMMA InitLoopInv == LoopInit => LoopInv
  <1> SUFFICES ASSUME LoopInit PROVE LoopInv
    OBVIOUS
  <1>1. 0 \in 0..Modulus
    BY RangeAssumption DEF Modulus
  <1>2. LoopTypeOK
    BY <1>1 DEF LoopInit, LoopTypeOK
  <1>3. counter = first /\ first \in Int
    BY RangeAssumption DEF LoopInit, Counter
  <1>4. CounterStaysInBounds
    BY <1>3 DEF CounterStaysInBounds
  <1>5. NotPast
    BY DEF LoopInit, NotPast
  <1> QED BY <1>2, <1>4, <1>5 DEF LoopInv

(* A step taken from a counter that has not passed the end is not reduced. *)
LEMMA StepIsExact ==
    ASSUME LoopInv, Step, Ordinary
    PROVE  counter' = counter + step
  <1> USE DEF Counter
  <1>1. /\ counter \in Int /\ first \in Int /\ end \in Int /\ step \in Int
        /\ MinInt \in Int /\ MaxInt \in Int
        /\ counter \in Counter /\ first \in Counter /\ step \in Counter
    BY RangeAssumption DEF LoopInv, LoopTypeOK
  <1>2. Continues(counter) /\ counter' = Add(counter, step)
    BY DEF LoopInv, NotPast, Step
  <1>3. CASE ~downto
    <2>1. counter <= end /\ step > 0 /\ end + step <= MaxInt /\ counter >= first
      BY <1>1, <1>2, <1>3 DEF Continues, Ordinary, LoopInv, CounterStaysInBounds
    <2>2. counter + step \in Counter
      BY <1>1, <2>1
    <2> QED BY <1>1, <1>2, <2>2, AddIsExact
  <1>4. CASE downto
    <2>1. counter >= end /\ step < 0 /\ end + step >= MinInt /\ counter <= first
      BY <1>1, <1>2, <1>4 DEF Continues, Ordinary, LoopInv, CounterStaysInBounds
    <2>2. counter + step \in Counter
      BY <1>1, <2>1
    <2> QED BY <1>1, <1>2, <2>2, AddIsExact
  <1> QED BY <1>3, <1>4

(* A step taken from a counter that has not passed the end stays within    *)
(* one step of the end.                                                    *)
LEMMA StepKeeps ==
    ASSUME LoopInv, Step
    PROVE  LoopInv'
  <1> USE DEF Counter
  <1>1. /\ counter \in Int /\ first \in Int /\ end \in Int /\ step \in Int
        /\ MinInt \in Int /\ MaxInt \in Int
        /\ counter \in Counter /\ end \in Counter /\ step \in Counter
    BY RangeAssumption DEF LoopInv, LoopTypeOK
  <1>2. Add(counter, step) \in Counter
    BY <1>1, AddInRange
  <1>3. Continues(counter)
    BY DEF LoopInv, NotPast, Step
  <1>4. UNCHANGED fixed /\ counter' = Add(counter, step)
    BY DEF Step
  <1>5. LoopTypeOK'
    BY <1>2, <1>4 DEF LoopInv, LoopTypeOK, Step, fixed
  <1>6. NotPast'
    BY DEF NotPast, Step
  <1>7. ASSUME Ordinary, ~downto
        PROVE  counter' >= first /\ counter' <= end + step
    <2>1. counter <= end /\ step > 0 /\ counter >= first
      BY <1>3, <1>7, <1>1 DEF Continues, Ordinary, LoopInv, CounterStaysInBounds
    <2> QED BY <1>1, <1>7, <2>1, StepIsExact
  <1>8. ASSUME Ordinary, downto
        PROVE  counter' <= first /\ counter' >= end + step
    <2>1. counter >= end /\ step < 0 /\ counter <= first
      BY <1>3, <1>8, <1>1 DEF Continues, Ordinary, LoopInv, CounterStaysInBounds
    <2> QED BY <1>1, <1>8, <2>1, StepIsExact
  <1>9. CounterStaysInBounds'
    BY <1>4, <1>7, <1>8 DEF CounterStaysInBounds, Ordinary, fixed
  <1> QED BY <1>5, <1>6, <1>9 DEF LoopInv

LEMMA LoopStepInvariant == LoopInv /\ [LoopNext]_loopVars => LoopInv'
  <1> SUFFICES ASSUME LoopInv, [LoopNext]_loopVars PROVE LoopInv'
    OBVIOUS
  <1>0. Modulus \in Nat
    BY RangeAssumption DEF Modulus
  <1>1. CASE Cond
    BY <1>1 DEF LoopInv, LoopTypeOK, CounterStaysInBounds, NotPast, Cond,
                Ordinary, Continues, fixed
  <1>2. CASE Body
    BY <1>0, <1>2 DEF LoopInv, LoopTypeOK, CounterStaysInBounds, NotPast, Body,
                Ordinary, Continues, fixed
  <1>3. CASE Until
    BY <1>3 DEF LoopInv, LoopTypeOK, CounterStaysInBounds, NotPast, Until,
                Ordinary, Continues, fixed
  <1>4. CASE Step
    BY <1>4, StepKeeps
  <1>5. CASE UNCHANGED loopVars
    BY <1>5 DEF LoopInv, LoopTypeOK, CounterStaysInBounds, NotPast, Ordinary,
                Continues, loopVars
  <1> QED BY <1>1, <1>2, <1>3, <1>4, <1>5 DEF LoopNext

(* The counter of an ordinary loop never wraps, whatever its width, its    *)
(* bounds and its step (CounterStaysInBounds).                             *)
THEOREM LoopCounterStaysInBounds == LoopSpec => []CounterStaysInBounds
  <1>1. LoopInit /\ [][LoopNext]_loopVars => []LoopInv
    BY InitLoopInv, LoopStepInvariant, PTL
  <1>2. LoopInv => CounterStaysInBounds
    BY DEF LoopInv
  <1> QED BY <1>1, <1>2, PTL DEF LoopSpec

(* The counter and the bounds of every loop keep their types, wrapping or  *)
(* not (LoopTypeOK).                                                       *)
THEOREM LoopTypeCorrect == LoopSpec => []LoopTypeOK
  <1>1. LoopInit /\ [][LoopNext]_loopVars => []LoopInv
    BY InitLoopInv, LoopStepInvariant, PTL
  <1>2. LoopInv => LoopTypeOK
    BY DEF LoopInv
  <1> QED BY <1>1, <1>2, PTL DEF LoopSpec

-----------------------------------------------------------------------------
(* Arithmetic.                                                             *)
LEMMA Distributes ==
    ASSUME NEW v \in Int, NEW s \in Int
    PROVE  v * s \in Int /\ (v + 1) * s = v * s + s /\ (v - 1) * s = v * s - s
  BY SMTT(30)

LEMMA Negates ==
    ASSUME NEW v \in Int, NEW s \in Int
    PROVE  v * (-s) = -(v * s)
  BY SMTT(30)

LEMMA AtLeastItself ==
    ASSUME NEW v \in Nat, NEW s \in Int, s >= 1
    PROVE  v * s >= v
  BY SMTT(30)

LEMMA DivAtLeast ==
    ASSUME NEW q \in Int, NEW n \in Int, NEW s \in Int, s >= 1, q * s <= n
    PROVE  n \div s \in Int /\ q <= n \div s
  BY SMTT(30)

LEMMA DivIs ==
    ASSUME NEW q \in Int, NEW n \in Int, NEW s \in Int, s >= 1, q * s <= n, n < (q + 1) * s
    PROVE  n \div s = q
  BY SMTT(30)

(* The value of run n, from 0.                                             *)
ValueOf(n) == first + n * step

(* Where the loop is in the progression: the last value that the body has  *)
(* run for was not past the end.                                           *)
Progress ==
    /\ left => pc = "exit"
    /\ pc \in {"cond", "body"} => counter = ValueOf(visits)
    /\ pc \in {"until", "step"} \/ left => visits >= 1 /\ counter = ValueOf(visits - 1)
    /\ pc = "exit" /\ ~left => counter = ValueOf(visits) /\ ~Continues(counter)
    /\ visits >= 1 => Continues(first) /\ Continues(ValueOf(visits - 1))

Progresses == Ordinary => Progress

LEMMA CounterValues ==
    ASSUME LoopInv
    PROVE  /\ counter \in Int /\ first \in Int /\ end \in Int /\ step \in Int /\ visits \in Nat
           /\ Modulus \in Nat /\ visits <= Modulus
           /\ counter >= first - Modulus + 1 /\ counter <= first + Modulus - 1
           /\ \A n \in Int : ValueOf(n) \in Int /\ n * step \in Int
           /\ ValueOf(0) = first
  <1>1. /\ counter \in MinInt..MaxInt /\ first \in MinInt..MaxInt /\ end \in Int /\ step \in Int
        /\ visits \in 0..Modulus
    BY RangeAssumption DEF LoopInv, LoopTypeOK, Counter
  <1>2. MinInt \in Int /\ MaxInt \in Nat /\ Modulus = MaxInt - MinInt + 1 /\ Modulus \in Nat
    BY RangeAssumption DEF Modulus
  <1>3. \A n \in Int : ValueOf(n) \in Int /\ n * step \in Int
    BY <1>1, <1>2, Distributes DEF ValueOf
  <1>4. ValueOf(0) = first
    BY <1>1, <1>2 DEF ValueOf
  <1> QED BY <1>1, <1>2, <1>3, <1>4

(* The values of the progression are distinct, so that fewer than Modulus of *)
(* them lie in the range of the counter: the history is not cut off.       *)
LEMMA FewerThanRange ==
    ASSUME LoopInv, Ordinary, counter = ValueOf(visits)
    PROVE  visits < Modulus
  <1>1. CASE ~downto
    <2>1. step >= 1
      BY <1>1, CounterValues DEF Ordinary
    <2>2. visits * step >= visits
      BY <2>1, CounterValues, AtLeastItself
    <2> QED BY <2>2, CounterValues DEF ValueOf
  <1>2. CASE downto
    <2>1. -step >= 1 /\ -step \in Int
      BY <1>2, CounterValues DEF Ordinary
    <2>2. visits * (-step) >= visits
      BY <2>1, CounterValues, AtLeastItself
    <2>3. -(visits * step) >= visits
      BY <2>2, CounterValues, Negates
    <2> QED BY <2>3, CounterValues DEF ValueOf
  <1> QED BY <1>1, <1>2

LEMMA InitProgresses == LoopInit => Progresses
  <1> SUFFICES ASSUME LoopInit PROVE Progress
    BY DEF Progresses
  <1>1. LoopInv
    BY InitLoopInv
  <1>2. ValueOf(0) = first
    BY <1>1, CounterValues
  <1> QED BY <1>2 DEF LoopInit, Progress

LEMMA NextProgresses ==
    ASSUME LoopInv, Progresses, [LoopNext]_loopVars
    PROVE  Progresses'
  <1>1. (Ordinary' <=> Ordinary) /\ UNCHANGED fixed
    BY DEF LoopNext, Cond, Body, Until, Step, loopVars, fixed, Ordinary
  <1>2. SUFFICES ASSUME Ordinary PROVE Progress'
    BY <1>1 DEF Progresses
  <1>3. Progress
    BY <1>2 DEF Progresses
  <1>4. \A n : (Continues(n)' <=> Continues(n)) /\ ValueOf(n)' = ValueOf(n)
    BY <1>1 DEF Continues, ValueOf, fixed
  <1>5. CASE Cond
    <2>1. ~left /\ counter = ValueOf(visits)
      BY <1>3, <1>5 DEF Progress, Cond
    <2> QED BY <1>3, <1>4, <1>5, <2>1 DEF Progress, Cond, Continues, ValueOf, fixed
  <1>6. CASE Body
    <2>1. counter = ValueOf(visits) /\ ~left /\ Continues(counter)
      BY <1>3, <1>6 DEF Progress, Body, LoopInv, NotPast
    <2>2. visits' = visits + 1 /\ visits' - 1 = visits /\ visits \in Nat
      BY <1>2, <1>6, <2>1, FewerThanRange, CounterValues DEF Body
    <2>3. Continues(first)
      BY <1>3, <2>1, <2>2, CounterValues DEF Progress
    <2>4. counter' = ValueOf(visits - 1)'
      BY <1>1, <1>6, <2>1, <2>2 DEF Body, ValueOf, fixed
    <2>5. Continues(first)' /\ Continues(ValueOf(visits - 1))'
      BY <1>1, <1>6, <2>1, <2>2, <2>3 DEF Body, ValueOf, fixed, Continues
    <2>6. pc' \in {"until", "step"} /\ left' = left
      BY <1>6 DEF Body
    <2> QED BY <2>1, <2>2, <2>4, <2>5, <2>6 DEF Progress, ValueOf
  <1>7. CASE Until
    <2>1. visits >= 1 /\ counter = ValueOf(visits - 1) /\ ~left
      BY <1>3, <1>7 DEF Progress, Until
    <2> QED BY <1>1, <1>3, <1>7, <2>1 DEF Progress, Until, Continues, ValueOf, fixed
  <1>8. CASE Step
    <2>1. visits >= 1 /\ counter = ValueOf(visits - 1) /\ ~left
      BY <1>3, <1>8 DEF Progress, Step
    <2>2. counter' = counter + step
      BY <1>2, <1>8, StepIsExact
    <2>3. counter' = ValueOf(visits)
      BY <2>1, <2>2, CounterValues, Distributes DEF ValueOf
    <2> QED BY <1>1, <1>3, <1>8, <2>1, <2>3 DEF Progress, Step, Continues, ValueOf, fixed
  <1>9. CASE UNCHANGED loopVars
    BY <1>3, <1>9 DEF Progress, Continues, ValueOf, loopVars
  <1> QED BY <1>5, <1>6, <1>7, <1>8, <1>9 DEF LoopNext

(* How many values the progression has up to the end.                      *)
LEMMA RunsIs ==
    ASSUME LoopInv, Ordinary, Continues(first), visits >= 1, Continues(ValueOf(visits - 1))
    PROVE  /\ visits \in 1..Runs
           /\ ~Continues(ValueOf(visits)) => Runs = visits
  <1> DEFINE q == visits - 1
  <1>1. q \in Int /\ q + 1 = visits /\ q * step \in Int /\ visits * step \in Int
    BY CounterValues
  <1> HIDE DEF q
  <1>2. CASE ~downto
    <2>1. step >= 1 /\ end - first \in Int /\ Runs = ((end - first) \div step) + 1
      BY <1>2, CounterValues DEF Ordinary, Runs
    <2>2. q * step <= end - first
      BY <1>1, <1>2, CounterValues DEF Continues, ValueOf, q
    <2>3. q <= (end - first) \div step /\ (end - first) \div step \in Int
      BY <1>1, <2>1, <2>2, CounterValues, DivAtLeast
    <2>4. ~Continues(ValueOf(visits)) => end - first < (q + 1) * step
      BY <1>1, <1>2, CounterValues DEF Continues, ValueOf
    <2>5. ~Continues(ValueOf(visits)) => (end - first) \div step = q
      BY <1>1, <2>1, <2>2, <2>4, CounterValues, DivIs
    <2> QED BY <1>1, <2>1, <2>3, <2>5, CounterValues
  <1>3. CASE downto
    <2>1. /\ -step >= 1 /\ -step \in Int /\ first - end \in Int
          /\ Runs = ((first - end) \div (-step)) + 1
      BY <1>3, CounterValues DEF Ordinary, Runs
    <2>2. q * (-step) = -(q * step) /\ (q + 1) * (-step) = -(visits * step)
      BY <1>1, CounterValues, Negates
    <2>3. q * (-step) <= first - end
      BY <1>1, <1>3, <2>2, CounterValues DEF Continues, ValueOf, q
    <2>4. q <= (first - end) \div (-step) /\ (first - end) \div (-step) \in Int
      BY <1>1, <2>1, <2>3, DivAtLeast
    <2>5. ~Continues(ValueOf(visits)) => first - end < (q + 1) * (-step)
      BY <1>1, <1>3, <2>2, CounterValues DEF Continues, ValueOf
    <2>6. ~Continues(ValueOf(visits)) => (first - end) \div (-step) = q
      BY <1>1, <2>1, <2>3, <2>5, DivIs
    <2> QED BY <1>1, <2>1, <2>4, <2>6, CounterValues
  <1> QED BY <1>2, <1>3

(* The body of an ordinary loop runs for the values from the start to the  *)
(* end, a step apart, each once and no other, whatever the width and the   *)
(* step; an UNTIL ends it earlier, at one of them.                         *)
THEOREM LoopVisitsTheProgression == LoopSpec => []VisitsTheProgression
  <1>1. LoopInv /\ Progresses => VisitsTheProgression
    <2> SUFFICES ASSUME LoopInv, Ordinary, Progress PROVE VisitsTheProgression
      BY DEF Progresses, VisitsTheProgression
    <2>1. pc \in {"cond", "body"} => counter = first + visits * step
      BY DEF Progress, ValueOf
    <2>2. pc \in {"until", "step"} => counter = first + (visits - 1) * step
      BY DEF Progress, ValueOf
    <2>3. pc = "exit" /\ left => visits \in 1..Runs /\ counter = first + (visits - 1) * step
      BY RunsIs DEF Progress, ValueOf
    <2>4. ASSUME pc = "exit", ~left
          PROVE  visits = Runs /\ counter = first + visits * step
      <3>1. counter = ValueOf(visits) /\ ~Continues(ValueOf(visits))
        BY <2>4 DEF Progress
      <3>2. CASE visits = 0
        BY <3>1, <3>2, CounterValues DEF Runs, ValueOf
      <3>3. CASE visits >= 1
        BY <3>1, <3>3, RunsIs DEF Progress, ValueOf
      <3> QED BY <3>2, <3>3, CounterValues
    <2> QED BY <2>1, <2>2, <2>3, <2>4 DEF VisitsTheProgression
  <1>2. LoopInv /\ Progresses /\ [LoopNext]_loopVars => Progresses'
    BY NextProgresses
  <1>3. LoopInit /\ [][LoopNext]_loopVars => []LoopInv
    BY InitLoopInv, LoopStepInvariant, PTL
  <1> QED BY InitProgresses, <1>1, <1>2, <1>3, PTL DEF LoopSpec
=============================================================================
