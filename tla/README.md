# PL-11 compiler: a TLA+ verification project

PL-11 is a block-structured systems language for the PDP-11. The repository
holds a compiler for it that emits LLVM IR (`src/src`), a build script
(`src/pl11build`), the grammars, the documentation and a set of end-to-end
tests. This directory holds TLA+ models of the compiler, the TLC configurations
that check them on small instances, and TLAPS proofs of the properties that
matter most. Source paths below are those of the repository.

Contents: [the system](#the-system) · [hard behaviours](#what-is-hard-to-test) ·
[modules](#modules) · [runs](#runs) · [findings](#findings) ·
[proofs](#proofs) · [not modelled](#what-is-not-modelled) · [plan](#plan)

## The system

A compilation is a pipeline run once, by `main.cpp`, with no concurrency: the
parser pulls tokens from the lexer one at a time, the AST it builds is read by
the semantic analyser (which only fills in the format specifiers of PRINT) and
then by the code generator. The components and their state:

| Component | State | Operations | Correct when |
|---|---|---|---|
| Lexer (`src/lexer`) | position, line, column, one remembered token | `next`, `peek`, the scanners of numbers, strings, comments | each token is the longest of a documented form, at its true place, and a literal has the value of its digits; comments do not nest |
| Parser (`src/parser`) | the current token, the call stack | one function per construct, `expect`, `match`; the first error ends it | it decides right on one token; every statement of the grammar is accepted and has one reading; UNTIL and ELSE belong to the nearest construct that can take them |
| AST (`src/ast`) | – | constructors | – |
| Semantic analyser (`src/sema`) | stack of scopes, the return type of the procedure at hand | `analyseBlock/Decl/Stmt/Expr` | a name denotes the innermost declaration; an accepted program can be compiled |
| Code generator: control flow (`src/codegen`) | the insertion point, the current function, the label map, the blocks made so far, and the C++ locals of each active handler | one branch of `genStmt` per statement, `genBlock`, `genDecl` for procedures, `generate` | the IR is well formed, and it does what the source says |
| Code generator: names and types | stack of scopes, allocas | `genDecl`, `genExpr`, `genLValue`, `lookupSymbol` | agrees with the analyser on what each name denotes |
| Simulated stack (IR emitted for PUSH and POP) | `__pl11_stack`, `__pl11_sp_idx`, `R6` | PUSH, POP | last in, first out; R6 is the address of the top |
| Driver (`main.cpp`) | output files, exit code | lex, parse, analyse, generate, print | an error gives no result and a non-zero exit code |
| `pl11build` | temporary and output files | compile each source, assemble, link, clean up | a failed step leaves nothing behind and is reported |
| Test harness, build files, grammars | – | – | – |

Components interact by direct calls and by what they leave behind: the parser's
tree, the annotations of sema on it, the IR module, the files on disk. The code
generator relies on LLVM for three things the models treat as external: the
`IRBuilder` (append at the insertion point), `verifyModule` and the execution of
what was generated.

## What is hard to test

`PROJECT.json` lists every hazard with its line. In short:

* **Blocks kept across recursion.** Each handler of `genStmt` keeps pointers to
  basic blocks in locals, calls itself for the sub-statements, and finishes
  wherever those have left the insertion point. RETURN, GOTO and labels move it
  in the middle of any nesting. Whether a block is closed twice, never, or by the
  wrong handler depends on the combination, not on any one statement.
* **State saved and restored by hand.** A procedure body can begin in the middle
  of any block: insertion point and current function are restored afterwards,
  the label map is not.
* **Order of effects.** UNTIL against STEP in the loops; the index against the
  operand in PUSH and POP, when the operand calls a function that pushes.
* **Two passes with their own symbol tables** and their own notion of the type
  of an expression, which must agree; nothing is passed from one to the other.
* **Boundaries**: the counter of FOR at the end of its range, 256 words of
  stack, literals that do not fit.

* **One token, one character of lookahead.** A statement that begins with an
  identifier has consumed it before it is known whether it is a label, an
  assignment or a call; `1.` may be a real or the start of a range; a quote may
  end a string or be one of a pair.
* **Files and exit codes.** `pl11build` runs up to three programs per source, each
  of which may fail or be interrupted, and promises that the files between them
  are gone afterwards; it removes them one at a time, and may be interrupted there.

There are no threads, no messages and no persistent state besides the output
files; the only thing that comes from outside while something runs is an
interrupt of `pl11build`.

## Modules

| Module | Models | Notes |
|---|---|---|
| `Lexer` | `next`, `peek` and all scanners of `pl11_lexer.cpp` | on characters; an iteration of the skipping loop and a token are steps |
| `Parser` | every parse function of `pl11_parser.cpp` | on kinds of tokens; the C++ call stack is the variable `todo` |
| `Grammar` | `pl11.ebnf` as data, read without choosing | reference for `Parser` |
| `PL11Ast` | the statement nodes of `pl11_ast.h` | constructors, and which nodes are well formed |
| `Names` | declarations, scopes and uses of names in `sema` and then in `codegen` | both passes over one program, each with its own scope stack |
| `ExprTypes` | `analyseExpr` and `genExpr`, and what each statement does with the types | every expression, built bottom-up on an operand stack |
| `CodegenCFG` | `generate`, `genBlock`, `genDecl` (procedures), `genStmt` | the C++ call stack is the variable `work`; one action per uninterrupted stretch of a handler |
| `StatementSemantics` | what the language reference and the handlers' comments promise each statement does | abstract specification: a machine over source statements that emits events |
| `Lowering` | `CodegenCFG` followed by the execution of the blocks it made | refines `StatementSemantics` |
| `SimStack` | the code that PUSH and POP expand to, `ensureSimStack` | each statement in two steps, with calls in between |
| `LifoStack` | a bounded stack | abstract specification of `SimStack` |
| `ForLoop` | the code a FOR expands to | the counter on fixed-width integers |
| `Driver` | `main.cpp`: options, phases, output, exit code | what the phases say of a text is given |
| `Build` | a command of the user: `pl11c`, or the script `pl11build` that runs it | composes with `Driver`, which is the process the script waits for |
| `MC...` | the texts, tokens, programs, command lines and widths TLC enumerates | `MCLexer` also holds the values of literals and the property that needs them |
| `CodegenCFG_proof`, `LegalPrograms_proof` (which extends it), `RunTime_proof` (of `SimStack` and `ForLoop`), `Names_proof`, `ExprTypes_proof`, `Build_proof`, `Lexer_proof`, `Parser_proof` | theorems | |

A definition that says "Variant" in its comment is not part of a model: it is
what the definition after it would be with a plausible mistake in the code, and
is there to see that a property would notice (`PROJECT.json`, `mutants`).

### Lexer

A character is a string of length one; each that some test of the code singles
out is there, with a few that stand for the rest, and "COMMENT" is one character
of width seven. `Read(i)` is what the scanner that `next()` chooses at position
`i` reads: where the token ends, its kind and its value, with the conversions
(`std::stoll`, `std::stoi`) modelled by what they do to digits that are not of
the base and to numbers that do not fit. White space, the two forms of comments
and the token are steps of their own, and `next()` and `peek()` come in any
order. A conversion that throws ends the process (`Abort`), as nobody catches it.

What the tokens are is stated without the scanners: `Form(kind, i, j)` are the forms
of `pl11.ebnf`, and `Ends(i)` is where a token of any form that begins at `i` could
end. The value of a number is a sum of its digits (`MCLexer`).

### Parser and Grammar

The input is chosen token by token as the parser advances, so that everything
that can be written with a vocabulary is read, and nothing behind the token at
which the parser stops. A parse function is the sequence of what it does -
expect a token, match an optional one, loop while the current token is in a set,
call another function, make a node - chosen on the current token when it is
entered. `todo` is the concatenation of what the active functions have still to
do. A node is the span of tokens it covers, with the place of the operator, ELSE
or UNTIL that is its own; the tree is known from the spans.

`Grammar` matches a rule by following all ways at once, and comes in two
strengths. The lax grammar has what the parser takes beyond `pl11.ebnf`: missing
semicolons, function calls `f()` without arguments, the postfix `^`, DO without a
body, `WORD*n`, REF of any expression, a FORWARD with a type, commas between
parameters, constants and array bounds in parentheses, a register to be modified
in parentheses. `AcceptedIsProgram` says it takes nothing else. The strict
grammar lacks what the parser refuses of `pl11.ebnf`: the short assignment whose
left operand is more than the variable (`A+B+C;`, which ebnf:101 and section 5.5
of the reference allow), statements that begin with SP or PC, a REPEAT whose
last statement ends in a loop without an UNTIL of its own, names of parameters
in a list, a negative constant, the other order of an array declaration, and
`CALL p()`. `RejectedIsNoProgram` says that it refuses nothing else, and stops
at the first token that cannot follow.

### CodegenCFG

A basic block is its parent function and the sequence of its instructions, of
which only evaluations, calls and terminators are kept; a block is denoted by
its position in `blocks`, in order of creation. `insert` is the builder's
insertion point, `labels` is `labels_`, `scopes` the part of `scopes_` that
names procedures. `work` is the C++ call stack made explicit: an item is either
a node still to be generated or the rest of a handler after its recursive call.
Such an item carries what the handler holds in locals: `to`, the blocks it will
branch to and that are already placed, and `owed`, the blocks it has created and
branched to and must still make the insertion point. `GenIf`, for instance, is
the handler of IF up to `genStmt(*is->thenStmt)`, `EndThen` goes on from there
to the ELSE branch or to the end, `EndElse` is the rest. `Finish` is the tail of
`generate`, with `verifyModule` as an operator. `pending` and `relabelled` are
history variables for what a program does wrong with its labels.

`LegalProgramsCompile` says that a legal program is neither refused with a
CodegenError nor rejected by `verifyModule`. What is legal is stated by a reading
`A` of the program: `A.at` gives each node the contexts it stands in (how many
procedures are around it, the innermost of them, the names a CALL may use, the open
scopes), `A.labels` and `A.gotos` what it defines and jumps to, `A.depth` the one
depth at which a label is used. `Legal(A, p)` demands what the builder relies on: a
label is defined once and in the procedure that jumps to it, a RETURN fits its
procedure and there is none in `main`, a CALL names a procedure whose declaration
precedes it, the values of a CASE differ in the type of its selector, and
procedures with bodies are declared only by the program and by procedures. The
last is the code's: `genDecl` clears `labels_` for each body, and one in a block
amid the statements would make the labels around it be forgotten. No RETURN fits
`main`, which returns i32 (`pl11_codegen.cpp:112`): sema rejects one with a value
(`pl11_sema.cpp:225`), and takes one without, which becomes `ret void` and is
rejected by `verifyModule`. The run `cfg_programs` has both.

The constant of a case becomes one of the selector's type, its upper bits dropped
(`CaseValues`); `Modulus` says how many values the type of each expression has. In
`cfg_programs` a selector has two bits and 1 and 5 are the same case. What a
constant out of range means is said nowhere; `lowering_legal` has constants in
range only (`InRangeAssumption` of `MCLowering`), so that `RefinesSource` compares
the values that the source has.

### SimStack

`idx`, `r6` and `mem` are the three globals. A PUSH first moves the index and
then evaluates its operand, a POP first loads the word and then evaluates its
target; in between, called functions may push and pop. `pending` holds the
statements begun and not ended, innermost first. `Disciplined` says whether a
called function leaves the stack as it found it; the run takes it to be so, and
`R6Synchronised` is proved for either case.

Register 6, which may also be written SP, is a variable that a program may assign
to (`pl11_parser.cpp:546`, `pl11_codegen.cpp:893` and 284). `AssignR6` does so between
any two steps, also in the functions that the operand of a PUSH or the target of a
POP calls. The stack does not follow: PUSH and POP work on `idx` alone, so `IsLifo`
is unaffected, and R6 differs from the address of `idx` until the next PUSH begins
or the next POP ends. `assigned` is a history variable that says so, and
`R6Synchronised` is the claim that nothing else separates the two.

### Lowering and StatementSemantics

`Lowering` runs a program through `CodegenCFG` and, once `verifyModule` has
accepted it, executes `main` block by block; conditions and case values are
nondeterministic. Every evaluation, test, call and return is an event in `out`.
`StatementSemantics` runs the source itself and produces the same events. The
refinement mapping is the identity on `out` and a history variable `src` that
records which source state the events so far lead to.

### Names

A program is the sequence of its nodes in the order both passes visit them.
`at` is the node being visited. In phase "sema", `scopes` is `Sema::scopes_` and
`curReturnType` the member of that name; in phase "codegen", `genScopes` is
`Codegen::scopes_`, `curFunc` is `curFunc_`, and `owner` says in which function
each declaration got its alloca. `saved` is what the active handlers keep in
locals (`savedRet`, `prevFunc`). A pass ends by reaching the end of the program
or by throwing, and the exception is the value of `phase`. `resolved` and
`emitted` record what each pass took each use for; `Denoted` says from the text
alone, without a stack, which declaration a use denotes.

### ExprTypes

An operand is a pair: the `TypeSpec` that sema infers, the `llvm::Type` of the
value that codegen emits. Leaves push one, operators replace the topmost ones
and a statement consumes all. An instruction of LLVM that is given operands of
the wrong types is `Bad`, whether LLVM would stop at an assertion or in
`verifyModule`. `outcome` is "rejected" (by sema), "bad", "raw" (valid IR that
accesses memory with another type than that of the object) or "ok". CHARACTER
operands come from literals and variables only.

### ForLoop

`pc` is the basic block being executed and `counter` the counter in memory. The header
has been evaluated in the initial state; the step and the end are arbitrary,
including those whose sign disagrees with TO or DOWNTO. The body leaves the
counter alone. `Ordinary` names the loops whose step goes the right way and
whose first value past the end is still representable: of the others the
language reference promises nothing and the code is bound to wrap around.

### Driver and Build

`driver` is the process `pl11c`: the words of its command line not read yet, the
phase it is in, what it has printed and its exit code. `verdict` says which phase
stops the compilation of each source, if any does; a literal that cannot be
converted ends whichever phase reads it. `script` is `pl11build`: `pc` is the part
that comes next, `tmpFiles` is `TMPFILES`, `objects` the object files for the
link. While `pc` is "compiling" the process `driver` runs with its output sent to
a file that the shell has emptied. `files` maps names to contents, an absent file
to `Absent`; a content says what it was made of. llc and clang may fail at any
time, and clang links no two objects since each has a `main`
(`pl11_codegen.cpp:111`). `command` remembers the command line and the files before
it.

`Interrupt` may come at any point of the script: before the trap is set it ends
it at once, behind that it leads to the trap, and in the trap it ends the script
(`pc` is "killed"), as a trap under way is not begun again. `Cleanup` is a round of
the trap's loop: it removes one file, the one behind the `removed` that are done.
`NothingLeftBehind` says what may be there afterwards. The files of a source that
the script has finished are gone, those it found under these names included. Those
of the source at hand, and of the ones behind it, are gone or as it found them. An
interrupted cleanup may leave what it had not come to, and nothing else.

## Runs

| Run | Question | Bounds | Properties |
|---|---|---|---|
| `lexer` | is every text cut into the tokens it is documented to have, with their places and values? | seven alphabets, one for each kind of token; texts of up to 4 or 5 characters; `long long` of 6 bits, `int` of 8 | `PeekLosesNothing`, `PlacesAreTrue`, `NothingIsDropped`, `LongestMatch`, `LiteralsAreRight`, `Termination` |
| `parser` | does the parser read the grammar? | ten vocabularies of constructs that may be taken for one another; 8 to 11 tokens | `ClausesAreNearest`, `Precedence`, `ModifyReadsAsWritten`, `AcceptedIsProgram`, `RejectedIsNoProgram`, `Termination` |
| `names_scopes` | do both passes take every name for the declaration the text says, and every RETURN for the same procedure's? | two names as variables, constants, parameters, procedures and FORWARD, three levels, a use after each scope | `SemaIsLexical`, `PassesAgree`, `NothingUndefinedLate`, `ReturnsFitTheirFunction`, `CallsFit` |
| `names_forward` | can what is announced be defined? | the same | `ForwardCanBeDefined`: violated |
| `names_globals` | are variables of the outermost block visible in procedures? | the same | `GlobalsAreVisible`: violated |
| `exprtypes` | do the two notions of type agree, and is sema's acceptance enough? | four operands; three vocabularies: BYTE, WORD, LONG with literals of 16 to 64 bits, REF and elements; WORD, BIT, BIT*16 with everything but REF; a mix of numbers and strings | `OperandsAgree`, `AcceptedProgramsFit` |
| `cfg_programs` | do the handlers compose, two levels deep, with procedures one in another or one behind another, and with labels and GOTO in any order, missing or twice? | every statement of depth two over an effect and a RETURN, a RETURN with a value in main, case values that differ or are equal in two bits; two procedures, seven bodies, FORWARD, labels not shared with the enclosing block; every sequence of three statements over two labels, bare or inside IF, WHILE, REPEAT | type invariant, `NothingAfterTerminator`, `OpenBlocksAreOwed`, `OwedToOneHandler`, `OnlyUnresolvedLabelsStayOpen`, `BranchesStayInFunction`, `RejectionIsExplained` |
| `cfg_shared_label` | may a procedure and its enclosing block use the same label? | both have L | `BranchesStayInFunction`: violated |
| `lowering_legal` | does the compiled code do what the source says? | a procedure whose body has depth two, a function it calls with a RETURN in one branch; bodies of three statements with legal labels and jumps in every direction; all legal in the sense of `Legal` | `RefinesSource`, `LegalProgramsCompile` |
| `simstack_lifo` | is the stack a stack, whatever happens during a PUSH or POP? | 3 words, 3 values, nesting 3, called functions balanced, R6 assigned to at any point | `IsLifo`, `LoadedWordIsCurrent`, `SlotsAreSeparate`, `R6Synchronised` |
| `forloop` | does a FOR run for its progression, once each, and end? | four bits, every start, end, step and form | `CounterStaysInBounds`, `VisitsTheProgression`, `OrdinaryLoopsEnd` |
| `build` | is every failure reported, every success complete, and nothing left behind? | two sources, one that is missing; command lines of up to three words of any kind, and those of the script with two options, an output and two sources; with and without LLVM; files there before or not | `NothingLeftBehind`, `SuccessIsComplete`, `OnlyOutputsChange`, `ErrorsAreReported`, `Termination` |

The type invariants of `SimStack`, `ForLoop` and `Names` are proved for all values
of the constants and not run again.

Why the bounds are enough. A handler of `CodegenCFG` is affected by what is
below it only through the insertion point it finds after the recursive call:
open, dead after a RETURN or GOTO, or reopened by a label. All three occur at
depth one, depth two exercises every handler with every other one above and
below it, and the theorems remove the bound for the invariants. Two labels and
three statements give every order of definition and use. For `SimStack`, three
words let a PUSH inside a PUSH inside a POP happen at a boundary and away from
it; the theorems hold for every size. In `Names`, a lookup distinguishes the scope
at hand, the one around it and the outermost one, hence three levels; a second
name is what a declaration must leave alone; the theorems have neither bound. In
`ExprTypes` the rules look at two operands at a time, and an expression of any
size is reached because operands of equal types are the same state; the theorems
hold for any number of operands and any vocabulary. In `Lexer` a decision looks
one character ahead; four or five characters hold every form of token with
something before or behind it, and with 6 bits four digits reach both sides of
the limit in each base. The parser decides on one token, and what it has read
before acts through `todo` only. The bound of each vocabulary lets the ambiguous
cases occur in full: an ELSE behind two IFs (11 tokens), an UNTIL behind two
loops, two operators of each pair of levels, a statement with two labels. In `Build` a second source is what the first must not disturb, and a
third word is what an option with an argument may take by mistake; the theorems
hold for any command line. In `ForLoop` nothing depends on the width but where it
wraps, and the theorems hold for every width.

Fairness. `LoweringSpec` assumes weak fairness of the next-state relation as a
whole: the compiler is a sequential program that goes on until it returns, and a
processor goes on executing. It is what makes "the compiled program stops only
where the source does" a property of the code. `ForLoop` assumes the same of the
processor, for `OrdinaryLoopsEnd`, `Parser` of the compiler, and `Lexer` of the
caller as well: `tokenize` and the parser call `next` until EOF. `Build` assumes that
the shell goes on when the process it waits for has ended (`WF_vars(Step)`); an
interrupt is not part of `Step` and need not come. No fairness between actions
is assumed, there being one thread.

Deadlock is not checked where the system stops by design (a compilation ends, a
compiled program may end, a command ends); it is checked for `SimStack`.

## Findings

* `cfg_shared_label`: `genDecl` clears `labels_` when it enters a procedure body
  (`pl11_codegen.cpp:214`) and does not restore it (247-249), although
  `pl11_codegen.h:87` calls it function-scoped. A label of the enclosing block
  that a procedure also uses resolves to the block of the other function.
* `names_forward`: a FORWARD declaration makes the definition a redeclaration in
  sema (`pl11_sema.cpp:41`). The example of section 9.2 of the reference is
  rejected.
* `names_globals`: variables of the outermost block are allocas of `main`
  (`pl11_codegen.cpp:163`) and cannot be used in a procedure (section 9.3 of the
  reference says they are global).

The models contain further behaviour that differs from the reference. It shows
in the conditions of the properties, and no run is spent on it:

* codegen skips a FORWARD declaration (`pl11_codegen.cpp:183`) and takes its name
  for an outer declaration if there is one (`Announced` in `Names`);
* constants can be assigned to (`pl11_sema.cpp:165`; reference, section 4.3);
* an OUT parameter is a pointer and its argument a value (`pl11_codegen.cpp:189`,
  485; reference, section 7.2; `HasOut` in `Names`);
* constants and elements are stored at the width of the value instead of the
  target's, a string as its address (`pl11_codegen.cpp:175`, 273, 284; "raw" in
  `ExprTypes`);
* elements of arrays of several dimensions cannot be addressed
  (`pl11_codegen.cpp:864`, `ElementPtrFits`);
* the bounds of a FOR are not converted to the type of its counter
  (`pl11_codegen.cpp:382`, `Loop` in `ExprTypes`);
* R6 starts at 0 (`pl11_codegen.cpp:101`) and the index at 256 (683), so SP is wrong
  until the first PUSH or POP; an assignment to R6 or SP does not move the
  simulated stack, although `tests/push_pop.pl11:6` points SP at a buffer so that
  PUSH store there, and the reference (line 817) has PUSH store "at the address now
  in SP". That R6 "is kept synchronised" (`pl11_codegen.cpp:605`, `README.md:274`)
  holds between assignments (`R6Synchronised`);
* PUSH moves the index before it evaluates its operand (`pl11_codegen.cpp:610-622`),
  the reference says after (`docs/pl11-language-reference.md:817`); the difference
  shows if a called function leaves a word on the stack;
* REAL and INTEGER operands are not converted (`pl11_codegen.cpp:752`), although
  sema takes them for compatible (`pl11_sema.cpp:72`);
* an address literal `177560B` is read in base 10 (`pl11_lexer.cpp:281`) unless it
  begins with 0, where the comment above it and the reference (line 777) say
  octal; `08` is 0, as the conversion stops at the 8 (`Documented` in `MCLexer`);
* a literal without digits or out of range ends the compiler by an uncaught
  exception (`Abort`); `--lex` ends with 0 even if there are error tokens;
* the parser takes `WORD*3`, which stays a word of 16 bits; what else it takes
  beyond `pl11.ebnf`, or not, is listed under *Parser and Grammar*;
* two sources never link, since each object defines `main`
  (`pl11_codegen.cpp:111`, `Link`); a failed `pl11build --emit-llvm` leaves the
  empty .ll file; `--keep-ir` keeps the object files, too; an output named like an
  intermediate file is removed with them (`SuccessIsComplete`); llc and clang must
  be installed even for `--emit-llvm` (`FindTools`).

## Proofs

The proofs need no bound on the program, the nesting, the labels, the size of the
stack, the length of a text or of a command line. They assume only the named
assumptions of the modules: that the children of a node are nodes
(`NodeAssumption`), that a program is a block or, in `Names`, properly nested
(`ProgramsAssumption`), that the type of a selector has at least one value
(`ModulusAssumption`), that the stack has at least one word and a zero word
exists (`SizeAssumption`, `ValueAssumption`), that the range of a counter is that
of a two's complement integer (`RangeAssumption`), that types have widths that
can be declared (`VocabularyAssumption`), that a command line is a sequence of
words (`LinesAssumption`). TLC evaluates each of them in the runs.

**`CodegenCFG_proof`** proves `TypeOK`, `NothingAfterTerminator`,
`OpenBlocksAreOwed`, `OwedToOneHandler` and `OnlyUnresolvedLabelsStayOpen`.
None of them is inductive. A handler that resumes makes the block it is owed the
insertion point and appends to it without looking, so one must know that nobody
has filled this block meanwhile; that in turn depends on no two handlers owing
the same block, and on the switch that CASE back-patches being still the last
instruction of its block. The invariant is

    IInv == Typed /\ Chained(work) /\ SwitchClosed /\ OpenBlocksAreOwed
            /\ Separate /\ NothingAfterTerminator /\ Unfilled /\ Ended

where `Typed` strengthens `TypeOK` with the shape of each kind of frame,
`Chained` says that a frame that needs another one below it has it, `Separate`
that owed blocks are distinct, not labels and not the insertion point,
`Unfilled` that they are empty, `Ended` what holds after `Finish`. The proof has
three layers: facts about the primitives and about sequences; `HandlerStep`,
which shows once that a step which touches only the insertion point, fresh
blocks and its own owed blocks preserves `IInv`; and one lemma per action,
`GenIfKeeps` and so on, that shows its action to be such a step.

`BranchesStayInFunction` is false in general (the finding `cfg_shared_label`), and
is proved under `LabelsAtOneDepth`: no label of a program is used at two depths of
procedures. Labels of procedures beside each other may still be the same. The
invariant `BranchInv` relates each entry of `labels_` that may still be used to the
function being generated, by the depth at which its label occurs, and each frame on
the C++ stack to the function it belongs to; what a finished procedure leaves in
`labels_` has the depth of that procedure and is not looked up outside of it.
`RejectionIsExplained` follows under the same hypothesis: what `verifyModule`
checks and no programmer's mistake explains is ruled out check by check. In the
run `cfg_programs` TLC finds the hypothesis true of its programs, and in
`cfg_shared_label` false of one (the two `ASSUME`s of `MCCodegenCFG`).

**`LegalPrograms_proof`** proves `LegalProgramsCompile` under `ProgramsAreLegal`,
that every program has a reading in which it is legal; this implies
`LabelsAtOneDepth`, and the invariants above hold. The invariant
`LegalInv` gives every frame on the C++ stack the context its node stands in
(`Settled`), so that the builder's function, `scopes` and `labels` are those the
context says. The labels that the frames have still to generate are distinct and
not placed yet, and every block that a GOTO has announced belongs to one of them;
hence at the end of each body, and of `main`, none is left open. `Suiting` says
that every instruction suits the function it is in, and that the values of a
switch, which the arms are added to one by one, are those of the arms before the
ones to come; that only the 0 which `generate` adds returns from `main` is part of
it. With `IInv` and `BranchesStayInFunction` this leaves `verifyModule` nothing
to complain about, and `CALL` and the declarations nothing to throw. In the run
`lowering_legal` TLC finds the reading it constructs to be one in which all its
programs are legal (`LegalProgramsAssumption` of `MCLowering`).

**`RunTime_proof`** is about the code that is emitted. For `SimStack` it proves, for
`Disciplined = TRUE`, the type invariant, `SlotsAreSeparate` and `LoadedWordIsCurrent`; their conjunction is inductive.
`R6Synchronised` is proved without that hypothesis, whatever the called functions
leave on the stack and whatever is assigned to R6; it is inductive by itself.
`IsLifo` is the refinement of `LifoStack`, step by step: the store of a PUSH is the abstract push and the end of
a POP the abstract pop, all other steps stutter. The abstract stack is the memory
above the index without the slots reserved by pending PUSHes, in order; that an
enumeration of this set by its order is unique, and what becomes of it when a slot
is added or taken away, are the lemmas this needs.

For `ForLoop` it proves, for every width, the type invariant,
`CounterStaysInBounds` and `VisitsTheProgression`. The second is not inductive:
that one more step does not wrap needs that the comparison let the counter pass,
which is known only while `pc` is between the test and the step. The invariant
adds this; lemmas show `Add` to be ordinary addition wherever the sum is in
range. For the third, `Progress` says how far the counter has come after so many
rounds; that the history holds fewer values than the range has shows that it is
never cut off, and lemmas on division relate the last value to the end.

**`Names_proof`** proves the type invariant and the five properties of
`names_scopes`, for programs of any length and depth. The invariant says of both
scope stacks what they hold at every node: as many scopes as there are blocks and
procedures open there, and in each of them exactly the names declared in it so
far (`ScopesAre`), for codegen those of the kinds it allocates. It is stated on
the text of the program alone, so that a scope that is left uncovers what was
known of the one around it. The saved values of the handlers belong to the
procedures around the one at hand (`SemaInv`, `GenInv`). From this a lookup yields
`Denoted`, and the two passes agree since both do.

**`ExprTypes_proof`** proves `OperandsAgree` and `AcceptedProgramsFit` for expressions
of any size over any vocabulary. Each operand is `Sound`: its value is of the
kind of its type, at least as wide if the program keeps to integers, and of 16
bits if it keeps to words. One lemma per operator shows that it makes a sound
operand of sound ones, and one per statement what it accepts of them.

**`Build_proof`** proves the four safety properties of `build`. The invariant `IInv` says
that the compiler runs only while the script waits for it and then writes only the
file that the shell gave it (`Child`), that the files of every source begun with
are listed (`Listed`), that what is not listed and no output is as it was
(`Untouched`), and that the trap has removed what it has passed of the list
(`Emptied`). `Outs`, `Reports` and `Complete` are invariants on top of it: what
is left of the command line is a suffix of it; the compiler that is in a phase has
passed the ones before; the sources behind the script have their objects, in order.

**`Lexer_proof`** proves four properties for texts of every length.
`PeekLosesNothing`: the cache is empty whenever a token is being read, and holds the
last one read when it is full. `PlacesAreTrue`: line and column are functions of the
position alone (`Located`), which needs that each scanner counts the line ends it
passes, those in strings and comments included; the lemmas on line ends say how the
last one before a position changes when the position moves. `NothingIsDropped`: the
reading position is always at the end of the last token or of white space and
complete comments behind it. `LongestMatch`: the first character of a token decides
which forms could begin there (`FirstCharacter`), and each scanner is compared with
those forms: a word and the digits of a number are whole runs (`PastIsFarthest`,
`PastIsWhole`); an address and a real begin with the same run of digits, so that one
character behind it decides. A string is the hard case: its form is a chain of
characters, pairs of quotes and escapes followed from the opening quote, the scan is
defined from the end of the text; `ScanFindsString` and `StringIsFound` show, by
induction from either end, that both find the same closing quote or none.

**`Parser_proof`** proves the three invariants of the parser that do not speak of the
grammar, for inputs of every length over every vocabulary.

`ClausesAreNearest`: in `todo`, the node of an IF or of a loop that has no clause yet
comes directly behind the match of its clause, or is next, with a current token that is
not its clause (`ClauseInv`). For that, each of the 42 parse functions must look for the
clause of a statement last and make no other node in between: `BodyStarted` says it of
all of them, from one lemma per function.

`Precedence` and `ModifyReadsAsWritten` speak of whole expressions, and the invariant
must say what is known in the middle of one, however many functions are active. Between
two goals it is one of nine facts about the tokens read and the nodes made so far, for
example `Value(i, l)`: what has been read from token i on closes no parenthesis that it
did not open, ends like an operand, its operators outside parentheses are of level l or
tighter and have each been applied, and the last node is that of it. `Follows` says
which fact a goal makes of which, and a `Path` is a sequence of goals in which each
follows the one before, weakened where need be. The inductive invariant is `PrecInv`:

* `todo` is a path from a fact that holds (`Runs`);
* the nodes of operations and short assignments made so far read as they should;
* the operators of the operations that are made or have been begun are distinct and
  before the current token, so that none is applied twice.

`CallRuns` is the contract of the functions: from what is known where one is called, its
goals are a path to what its caller expects. It holds of the loops that a statement
runs around its first identifier because they are, level by level, those of the
functions of the expressions (`AfterNameBody`); in the mutant `ParseAfterNameFlat`, whose
loop takes two levels at once, they are no path. A step then carries out one goal of the
path (`ExpectRun`, `LoopRun`, `OperatorsRun`, `NodeRun`); what an operation is made of is
the lemma `Operation`. Goals outside expressions are neutral: nothing is known between
them, they make neither kind of node, and only they read an ELSE or UNTIL, so that
`Owning` never touches an operation.

Only model-checked:

* `RefinesSource`: it is a refinement along recursive definitions and under
  fairness, and `StatementSemantics` and `Lowering` use RECURSIVE operators, with
  which no theorem can be stated;
* liveness: `OrdinaryLoopsEnd` and the three `Termination`s;
* `AcceptedIsProgram` and `RejectedIsNoProgram`, which speak of a recursive reading of
  the grammar, and `LiteralsAreRight`, of sums of digits. What such a definition
  computes for every input is shown by induction over data, which the prover's
  backends do not offer.

## What is not modelled

* The values of expressions, apart from the counter of a FOR and the words of
  PUSH and POP: in `CodegenCFG` and `Lowering` an expression is a name and its
  evaluation an event, in `ExprTypes` a pair of types. A test may come out either
  way. The bytes of memory and the bounds of arrays are not modelled.
* `ExprTypes` leaves out names of arrays without an index, and stores through
  IND, for which no type is declared.
* SSA dominance, which `verifyModule` also checks. It concerns the end value of
  a FOR that is entered by a GOTO from outside.
* `ASM`, and PRINT beyond being an effect.
* The stack beyond its 256 words: the code has no check and the emitted program
  no defined behaviour there.
* The text of tokens, the contents of strings and the values of reals: in `Lexer` a
  real may turn out to be out of range or not.
* `parseDeclaration` and `parseDeclSection`, which nobody calls; reading and
  rendering of trees and tokens (`dump`, `tokenKindName`).
* Sources in other directories than the current one, and which of several
  installed versions of llc and clang is found.
* The test harness (`run_pl11_test.cmake`) and the build files, which have no
  state; `pl11.g4`, which no step of the build reads.

## Plan

1. `PL11Ast`, `CodegenCFG`, its runs and `CodegenCFG_proof` – done.
2. `SimStack`, `LifoStack` and their theorems in `RunTime_proof` – done.
3. `StatementSemantics`, `Lowering` – done.
4. `Names`, `ExprTypes`, `ForLoop` with its theorems in `RunTime_proof` – done.
5. `Lexer`, `Parser` with `Grammar`, `Driver` and `Build` – done.
6. `Names_proof`, `ExprTypes_proof`, `Build_proof`, `Lexer_proof`, `Parser_proof`,
   `VisitsTheProgression`, `IsLifo`, `BranchesStayInFunction` – done.
7. Open: `Memory`, elements, POP and IND on bytes, with the bounds of arrays; SSA
   dominance in `verifyModule`, for a FOR entered by a GOTO.
8. `Precedence`, `ModifyReadsAsWritten` and `LongestMatch` for every input,
   `LegalProgramsCompile` for every legal program (`LegalPrograms_proof`) – done.
9. Open theorem: the step simulation of `Lowering` for single handlers.
