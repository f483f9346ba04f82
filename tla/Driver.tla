------------------------------- MODULE Driver -------------------------------
(***************************************************************************)
(* The compiler as a process, src/src/main.cpp: the options, the order of  *)
(* the phases, what is written where and the exit code.                    *)
(*                                                                         *)
(* A word of a command line is a pair: <<"a", "pl11">> is the file a.pl11, *)
(* <<"out", "">> the file out and <<"--lex", "option">> an option.  What   *)
(* the phases would say of a text is given by verdict, the phases being    *)
(* modelled elsewhere (Lexer, Parser, Names, ExprTypes, CodegenCFG).       *)
(***************************************************************************)
EXTENDS Sequences, Integers, FiniteSets

LOCAL INSTANCE SequencesExt

CONSTANTS Stems        \* names of sources: the stem a is that of a.pl11

VARIABLES files,       \* the content of each file
          verdict,     \* what stops the compilation of each source, if anything
          hasLLVM,     \* PL11_WITH_LLVM
          driver       \* the process

Option(name) == <<name, "option">>
Modes        == {Option("--lex"), Option("--parse"), Option("--sema"), Option("--emit-llvm")}
Src(s) == <<s, "pl11">>
LL(s)  == <<s, "ll">>
Obj(s) == <<s, "o">>

Sources    == {Src(s) : s \in Stems}
Absent     == <<"absent">>
Empty      == <<"empty">>
Source     == <<"source">>
Old        == <<"old">>      \* something of the user's
IR(s)      == <<"ir", s>>
Object(s)  == <<"object", s>>

ContentOf(f) == IF f \in DOMAIN files THEN files[f] ELSE Absent
Write(f, c)  == files' = [g \in DOMAIN files \cup {f} |-> IF g = f THEN c ELSE files[g]]

(* A literal that cannot be converted ends the process wherever it is read;*)
(* behind a syntax error, only --lex gets to it.                           *)
Verdicts == {"literal", "syntax, then literal", "syntax", "semantics", "generation", "none"}

NoFile   == <<"", "">>
Terminal == <<"terminal", "">>

Started(args, to) ==
    [at |-> "options", args |-> args, input |-> NoFile, output |-> <<"a", "out">>,
     modes |-> {}, stdout |-> to, printed |-> <<>>, code |-> 0]

Running(phase) == driver.at = phase
GoTo(phase)    == driver' = [driver EXCEPT !.at = phase]
Exit(code)     == driver' = [driver EXCEPT !.at = "exited", !.code = code]

(* An exception that nobody catches.                                       *)
Abort          == Exit(134)

(* return 0, with text printed on the standard output.                     *)
ExitPrinting(text) ==
    driver' = [driver EXCEPT !.at = "exited", !.code = 0, !.printed = text]

driverVars == <<files, verdict, hasLLVM, driver>>
context    == <<verdict, hasLLVM>>

-----------------------------------------------------------------------------
(* An option without its argument is an unknown one.                       *)
ReadOption ==
    /\ Running("options") /\ driver.args # <<>>
    /\ LET arg  == Head(driver.args)
           rest == Tail(driver.args)
       IN CASE arg \in Modes ->
                 driver' = [driver EXCEPT !.args = rest, !.modes = @ \cup {arg}]
            [] arg = Option("-o") /\ rest # <<>> ->
                 driver' = [driver EXCEPT !.args = Tail(rest), !.output = Head(rest)]
            [] arg = Option("-h") -> Exit(0)
            [] arg[2] # "option"  -> driver' = [driver EXCEPT !.args = rest, !.input = arg]
            [] OTHER              -> Exit(1)
    /\ UNCHANGED <<files, context>>

(* No argument at all gives the usage, too.                                *)
ReadFile ==
    /\ Running("options") /\ driver.args = <<>>
    /\ IF ContentOf(driver.input) = Absent THEN Exit(1) ELSE GoTo("lexing")
    /\ UNCHANGED <<files, context>>

(* A file that is no source is one that the parser rejects.                *)
Verdict     == IF files[driver.input] = Source THEN verdict[driver.input[1]] ELSE "syntax"
Asked(mode) == Option(mode) \in driver.modes

Lex ==
    /\ Running("lexing")
    /\ CASE ~Asked("--lex") -> GoTo("parsing")
         [] Asked("--lex") /\ Verdict \in {"literal", "syntax, then literal"} -> Abort
         [] OTHER -> ExitPrinting(<<"tokens">>)
    /\ UNCHANGED <<files, context>>

Parse ==
    /\ Running("parsing")
    /\ CASE Verdict = "literal" -> Abort
         [] Verdict \in {"syntax", "syntax, then literal"} -> Exit(1)
         [] OTHER -> IF Asked("--parse") THEN ExitPrinting(<<"parsed">>)
                     ELSE GoTo("analysing")
    /\ UNCHANGED <<files, context>>

Analyse ==
    /\ Running("analysing")
    /\ IF Verdict = "semantics" THEN Exit(1)
       ELSE IF Asked("--sema") THEN ExitPrinting(<<"analysed">>)
       ELSE GoTo("generating")
    /\ UNCHANGED <<files, context>>

(* emitIR() prints the whole module at once.                               *)
EmitIR ==
    /\ ExitPrinting(IR(driver.input[1]))
    /\ IF driver.stdout = Terminal THEN UNCHANGED files
       ELSE Write(driver.stdout, IR(driver.input[1]))

(* .o is appended to the name, whatever it is.                             *)
ObjectFile ==
    LET stem == driver.output[1] IN
    <<IF driver.output[2] \in {"", "option"} THEN stem ELSE stem \o "." \o driver.output[2],
      "o">>

(* The target may be unknown or the file not writable; an emission that is *)
(* not possible is noticed when the file is open.                          *)
WriteObject ==
    \/ /\ Exit(1)
       /\ UNCHANGED files \/ Write(ObjectFile, Empty)
    \/ /\ ExitPrinting(<<"written">>)
       /\ Write(ObjectFile, Object(driver.input[1]))

(* Variant: the error is reported, and the program goes on to its end.     *)
GenerateForgetsReturn ==
    /\ Running("generating") /\ hasLLVM
    /\ IF Verdict = "generation" THEN ExitPrinting(<<>>) /\ UNCHANGED files
       ELSE IF Asked("--emit-llvm") THEN EmitIR
       ELSE WriteObject
    /\ UNCHANGED context

Generate ==
    /\ Running("generating") /\ hasLLVM
    /\ IF Verdict = "generation" THEN Exit(1) /\ UNCHANGED files
       ELSE IF Asked("--emit-llvm") THEN EmitIR
       ELSE WriteObject
    /\ UNCHANGED context

GenerateNothing ==
    /\ Running("generating") /\ ~hasLLVM
    /\ IF Asked("--emit-llvm") THEN Exit(1) ELSE ExitPrinting(<<"compiled">>)
    /\ UNCHANGED <<files, context>>

DriverStep == ReadOption \/ ReadFile \/ Lex \/ Parse \/ Analyse \/ Generate \/ GenerateNothing
=============================================================================
