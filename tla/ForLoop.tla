------------------------------ MODULE ForLoop ------------------------------
(***************************************************************************)
(* The arithmetic of a FOR loop at run time: the code that genStmt emits   *)
(* for ForStmtNode (src/src/codegen/pl11_codegen.cpp:345-416), on a        *)
(* counter of fixed width in two's complement.  The end and the step are   *)
(* evaluated once, before the start value is stored, and live in SSA       *)
(* values; the counter lives in memory.  The body is any statement that    *)
(* leaves the counter alone, as the language demands.                      *)
(***************************************************************************)
EXTENDS Integers

CONSTANTS MinInt, MaxInt   \* the range of the counter: -2^15, 2^15 - 1 for WORD

ASSUME RangeAssumption == /\ MinInt \in Int
                          /\ MaxInt \in Nat \ {0}
                          /\ MinInt = -MaxInt - 1

VARIABLES
    counter,   \* the counter
    first,     \* the start value, or what the counter held before
    end,       \* endVal
    step,      \* stepVal
    downto,    \* whether DOWNTO is said
    hasUntil,  \* whether there is an UNTIL clause
    pc,        \* the basic block being executed
    left,      \* whether it was UNTIL that ended the loop
    visits     \* history: how many times the body has run

loopVars == <<counter, first, end, step, downto, hasUntil, pc, left, visits>>
fixed == <<first, end, step, downto, hasUntil>>

Counter == MinInt..MaxInt
Modulus == MaxInt - MinInt + 1

(* CreateAdd: modulo 2^w.                                                  *)
Add(a, b) == ((a + b - MinInt) % Modulus) + MinInt

(* The header has been evaluated: the counter holds the start value, or    *)
(* what it held before if there is none.  The step of TO is 1 and of       *)
(* DOWNTO is -1 unless a STEP is given, and that is any value: only the    *)
(* keyword picks the comparison.                                           *)
LoopInit == /\ first \in Counter
            /\ end \in Counter
            /\ step \in Counter
            /\ downto \in BOOLEAN
            /\ hasUntil \in BOOLEAN
            /\ counter = first
            /\ pc = "cond"
            /\ left = FALSE
            /\ visits = 0

(* Variant: only one comparison.                                           *)
ContinuesUp(n) == n <= end

Continues(n) == IF downto THEN n >= end ELSE n <= end

Cond == /\ pc = "cond"
        /\ pc' = IF Continues(counter) THEN "body" ELSE "exit"
        /\ UNCHANGED <<counter, fixed, left, visits>>

Body == /\ pc = "body"
        /\ pc' = IF hasUntil THEN "until" ELSE "step"
        /\ visits' = IF visits < Modulus THEN visits + 1 ELSE visits
        /\ UNCHANGED <<counter, fixed, left>>

(* Variant: the counter is stepped before UNTIL is tested.                 *)
UntilAfterStep ==
    /\ pc = "until"
    /\ counter' = Add(counter, step)
    /\ \E holds \in BOOLEAN : /\ pc' = IF holds THEN "exit" ELSE "step"
                              /\ left' = holds
    /\ UNCHANGED <<fixed, visits>>

Until == /\ pc = "until"
         /\ \E holds \in BOOLEAN : /\ pc' = IF holds THEN "exit" ELSE "step"
                                   /\ left' = holds
         /\ UNCHANGED <<counter, fixed, visits>>

Step == /\ pc = "step"
        /\ counter' = Add(counter, step)
        /\ pc' = "cond"
        /\ UNCHANGED <<fixed, left, visits>>

LoopNext == Cond \/ Body \/ Until \/ Step

(* The processor keeps executing.                                          *)
LoopSpec == LoopInit /\ [][LoopNext]_loopVars /\ WF_loopVars(LoopNext)

-----------------------------------------------------------------------------
LoopTypeOK ==
    /\ counter \in Counter /\ first \in Counter /\ end \in Counter /\ step \in Counter
    /\ downto \in BOOLEAN /\ hasUntil \in BOOLEAN /\ left \in BOOLEAN
    /\ pc \in {"cond", "body", "until", "step", "exit"}
    /\ visits \in 0..Modulus

(* The step goes the way the keyword says and the value after the last one *)
(* is still in the range of the counter.                                   *)
Ordinary == IF downto THEN step < 0 /\ end + step >= MinInt
                      ELSE step > 0 /\ end + step <= MaxInt

(* The counter never wraps: it stays between its first value and one step  *)
(* past the end.                                                           *)
CounterStaysInBounds ==
    Ordinary =>
        IF downto THEN counter <= first /\ (counter >= end + step \/ counter = first)
                  ELSE counter >= first /\ (counter <= end + step \/ counter = first)

(* The body runs for first, first + step, first + 2 step and so on: the    *)
(* values up to the end, each once.  An UNTIL leaves the counter at the    *)
(* value of the run that ended the loop, the end of the loop at the first  *)
(* value past the end.                                                     *)
Runs == IF Continues(first)
        THEN (IF downto THEN (first - end) \div (-step)
                        ELSE (end - first) \div step) + 1
        ELSE 0

VisitsTheProgression ==
    Ordinary =>
        /\ pc \in {"body", "cond"} => counter = first + visits * step
        /\ pc \in {"until", "step"} => counter = first + (visits - 1) * step
        /\ pc = "exit" /\ left  => /\ visits \in 1..Runs
                                   /\ counter = first + (visits - 1) * step
        /\ pc = "exit" /\ ~left => /\ visits = Runs
                                   /\ counter = first + visits * step

(* Such a loop comes to an end, with or without UNTIL.                     *)
OrdinaryLoopsEnd == Ordinary => <>(pc = "exit")
=============================================================================
