------------------------------ MODULE LifoStack ------------------------------
(***************************************************************************)
(* What PUSH and POP promise (section 8.5 of                               *)
(* src/docs/pl11-language-reference.md): the last value pushed is the      *)
(* first value popped, and the stack holds Capacity words.                 *)
(***************************************************************************)
EXTENDS Sequences, Integers

CONSTANTS Value, Capacity

VARIABLES stk,   \* the words on the stack, the last one pushed first
          got    \* the word that the last POP delivered

Init == stk = <<>> /\ got \in Value

Push == /\ Len(stk) < Capacity
        /\ \E v \in Value : stk' = <<v>> \o stk
        /\ UNCHANGED got

Pop == /\ stk # <<>>
       /\ got' = Head(stk)
       /\ stk' = Tail(stk)

Next == Push \/ Pop

Spec == Init /\ [][Next]_<<stk, got>>
=============================================================================
