------------------------------ MODULE SimStack ------------------------------
(***************************************************************************)
(* The simulated PDP-11 stack at run time: the IR that genStmt emits for   *)
(* PUSH and POP (src/src/codegen/pl11_codegen.cpp:602-658) over the        *)
(* globals of ensureSimStack (666-685).                                    *)
(*                                                                         *)
(* Neither statement is atomic.  PUSH moves the index before it evaluates  *)
(* its expression, POP reads the index before it evaluates its target and  *)
(* writes it back afterwards, and both expressions may call functions that *)
(* PUSH and POP themselves.  A statement under way is a frame of pending.  *)
(* Between any two of the steps the program may assign to R6, which it may *)
(* also call SP: the register is a variable as any other.                  *)
(***************************************************************************)
EXTENDS Sequences, Integers, FiniteSets

CONSTANTS Size,         \* words in __pl11_stack: 256 in the code
          Value,        \* the words that are pushed
          MaxPending,   \* bound on the nesting of PUSH and POP
          Disciplined   \* whether every function pops exactly what it pushed

ASSUME SizeAssumption == Size \in Nat \ {0}
ASSUME BoundAssumption == MaxPending \in Nat
ASSUME ValueAssumption == 0 \in Value /\ Value \subseteq Nat
ASSUME DisciplineAssumption == Disciplined \in BOOLEAN

VARIABLES mem,      \* __pl11_stack
          idx,      \* __pl11_sp_idx
          r6,       \* the global R6
          pending,  \* the PUSH and POP statements under way, innermost first
          got,      \* the word that the last POP stored in its target
          assigned  \* history: the program wrote R6 after PUSH and POP last did

vars == <<mem, idx, r6, pending, got, assigned>>

Slots == 0..(Size - 1)
(* CreateMul by two, CreateTrunc to i16.                                   *)
Address(i) == (2 * i) % 65536

(* at is the index the statement works on; val the word a POP has loaded.  *)
Frame(op, at, val) == [op |-> op, at |-> at, val |-> val]
Top == Head(pending)

(* The index at which the function being run began.                        *)
Floor == IF pending = <<>> THEN Size ELSE Top.at

Init == /\ mem = [i \in Slots |-> 0]
        /\ idx = Size
        /\ r6 = 0
        /\ pending = <<>>
        /\ got \in Value
        /\ assigned = FALSE

(* Variants: the store goes first, the decrement last; no decrement.       *)
PushBeginInPlace ==
    /\ Len(pending) < MaxPending
    /\ idx > 0
    /\ pending' = <<Frame("push", idx - 1, 0)>> \o pending
    /\ UNCHANGED <<mem, idx, r6, got, assigned>>

(* PUSH, up to the evaluation of its expression.  Nothing checks that a    *)
(* slot is left; programs are assumed to leave one (the index of a GEP     *)
(* outside the array would be undefined behaviour).                        *)
PushBegin ==
    /\ Len(pending) < MaxPending
    /\ idx > 0
    /\ idx' = idx - 1
    /\ r6' = Address(idx - 1) /\ assigned' = FALSE
    /\ pending' = <<Frame("push", idx - 1, 0)>> \o pending
    /\ UNCHANGED <<mem, got>>

(* Variant: the value goes to whatever the index is afterwards.            *)
PushEndBelow ==
    /\ pending # <<>>
    /\ Top.op = "push"
    /\ idx > 0
    /\ \E v \in Value : mem' = [mem EXCEPT ![idx - 1] = v]
    /\ pending' = Tail(pending)
    /\ UNCHANGED <<idx, r6, got, assigned>>

(* The rest: the value goes to the slot chosen before.                     *)
PushEnd ==
    /\ pending # <<>>
    /\ Top.op = "push"
    /\ Disciplined => idx = Top.at
    /\ \E v \in Value : mem' = [mem EXCEPT ![Top.at] = v]
    /\ pending' = Tail(pending)
    /\ UNCHANGED <<idx, r6, got, assigned>>

(* Variant: the index is incremented before the target is evaluated.       *)
PopBeginReleases ==
    /\ Len(pending) < MaxPending
    /\ idx < Size
    /\ Disciplined => idx < Floor
    /\ pending' = <<Frame("pop", idx, mem[idx])>> \o pending
    /\ idx' = idx + 1
    /\ r6' = Address(idx + 1) /\ assigned' = FALSE
    /\ UNCHANGED <<mem, got>>

(* POP, up to the evaluation of its target.                                *)
PopBegin ==
    /\ Len(pending) < MaxPending
    /\ idx < Size
    /\ Disciplined => idx < Floor
    /\ pending' = <<Frame("pop", idx, mem[idx])>> \o pending
    /\ UNCHANGED <<mem, idx, r6, got, assigned>>

(* Variant: R6 is not updated.                                             *)
PopEndKeepsR6 ==
    /\ pending # <<>>
    /\ Top.op = "pop"
    /\ Disciplined => idx = Top.at
    /\ got' = Top.val
    /\ idx' = Top.at + 1
    /\ pending' = Tail(pending)
    /\ assigned' = FALSE
    /\ UNCHANGED <<mem, r6>>

(* The rest: the index becomes the one read before plus one.               *)
PopEnd ==
    /\ pending # <<>>
    /\ Top.op = "pop"
    /\ Disciplined => idx = Top.at
    /\ got' = Top.val
    /\ idx' = Top.at + 1
    /\ r6' = Address(Top.at + 1) /\ assigned' = FALSE
    /\ pending' = Tail(pending)
    /\ UNCHANGED mem

(* value => R6, or => SP, in the program or in a function that is called   *)
(* from a PUSH or POP: the global changes, the stack does not.             *)
AssignR6 ==
    /\ \E v \in Value : r6' = v
    /\ assigned' = TRUE
    /\ UNCHANGED <<mem, idx, pending, got>>

Next == PushBegin \/ PushEnd \/ PopBegin \/ PopEnd \/ AssignR6

Spec == Init /\ [][Next]_vars

-----------------------------------------------------------------------------
FrameSet == [op : {"push", "pop"}, at : Slots, val : Value]

TypeOK == /\ mem \in [Slots -> Value]
          /\ idx \in 0..Size
          /\ r6 \in Nat
          /\ pending \in Seq(FrameSet)
          /\ got \in Value
          /\ assigned \in BOOLEAN

(* A POP delivers the word that is in its slot when it ends, although it   *)
(* loads it before its target is evaluated; and it lies at the end of the  *)
(* stack as the program sees it.                                           *)
LoadedWordIsCurrent ==
    \A i \in DOMAIN pending : pending[i].op = "pop" =>
        mem[pending[i].at] = pending[i].val

(* The statements under way work on slots of their own, and the functions  *)
(* called by one never reach below the slots of those that wait for it.    *)
SlotsAreSeparate ==
    /\ \A i, j \in DOMAIN pending : i < j => pending[i].at < pending[j].at
    /\ \A i \in DOMAIN pending : idx <= pending[i].at

(* The words that have been pushed and not yet popped lie in the slots     *)
(* above the index, without those of PUSH statements that have not stored  *)
(* yet; the last one pushed is the lowest.                                 *)
Reserved == {pending[i].at : i \in {j \in DOMAIN pending : pending[j].op = "push"}}
Held == (idx..(Size - 1)) \ Reserved
Rank(S, s) == Cardinality({u \in S : u <= s})
Nth(S, n) == CHOOSE s \in S : Rank(S, s) = n
Contents == [n \in 1..Cardinality(Held) |-> mem[Nth(Held, n)]]

Lifo == INSTANCE LifoStack WITH stk <- Contents, Capacity <- Size

(* As long as every function called from a PUSH or a POP leaves the stack  *)
(* as it found it, the statements implement a LIFO stack, in spite of the  *)
(* order in which they touch the index, R6 and the slot, and whatever the  *)
(* program assigns to R6.                                                  *)
IsLifo == Lifo!Spec

(* "R6 is kept synchronised as the simulated stack-pointer address"        *)
(* (src/README.md:274), also by calls in the middle of a PUSH or POP: the  *)
(* two copies disagree only before the first PUSH or POP, when R6 is 0 and *)
(* the stack as ensureSimStack made it, and from an assignment of the      *)
(* program to R6 until the next step that moves the index.                 *)
R6Synchronised ==
    \/ assigned
    \/ r6 = Address(idx)
    \/ r6 = 0 /\ idx = Size /\ pending = <<>> /\ mem = [i \in Slots |-> 0]
=============================================================================
