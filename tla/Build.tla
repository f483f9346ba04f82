------------------------------- MODULE Build -------------------------------
(***************************************************************************)
(* A command given by the user: the compiler itself (Driver), or the script*)
(* src/pl11build, which compiles each source, assembles what comes out,    *)
(* links, and removes what lies in between.  script.pc names the part of   *)
(* the script that comes next.                                             *)
(*                                                                         *)
(* External: llc, clang, rm, and the shell, which calls the EXIT trap      *)
(* however the script ends, also after an interrupt from the terminal,     *)
(* which stops the process in the foreground, too; a trap that is running  *)
(* is not called again.  All sources are in one directory, the current one.*)
(***************************************************************************)
EXTENDS Driver

LOCAL INSTANCE SequencesExt

CONSTANTS CompilerLines,  \* the command lines of pl11c
          ScriptLines     \* the command lines of pl11build

Word == STRING \X STRING

ASSUME LinesAssumption == /\ Stems \subseteq STRING
                          /\ CompilerLines \subseteq Seq(Word)
                          /\ ScriptLines \subseteq Seq(Word)

VARIABLES script,      \* the script and its variables
          command      \* history: the command line, and the files before it

vars == <<driverVars, script, command>>

At(pc)         == script.pc = pc
Then(pc)       == script' = [script EXCEPT !.pc = pc]
(* exit, before and after the trap is set.                                 *)
Stop(code)     == script' = [script EXCEPT !.pc = "stopped", !.code = code]
ExitWith(code) == script' = [script EXCEPT !.pc = "trap", !.code = code]

NoProcess == [Started(<<>>, Terminal) EXCEPT !.at = "none"]
Begun(pc, line) ==
    [pc |-> pc, args |-> line, sources |-> <<>>, output |-> NoFile, keepIR |-> FALSE,
     emitOnly |-> FALSE, tmpFiles |-> <<>>, removed |-> 0, objects |-> <<>>, next |-> 1,
     code |-> 0]

Intermediates(ss) == UNION {{LL(s), Obj(s)} : s \in ss}

StemsOf(line) == {s \in Stems : Src(s) \in ToSet(line)}

(* What the commands would write may be there before, or not.              *)
Init ==
    /\ hasLLVM \in BOOLEAN
    /\ \E old \in {Absent, Old} :
         files = [f \in Sources \cup Intermediates(Stems) \cup {<<s, "">> : s \in Stems} |->
                    IF f \in Sources THEN Source ELSE old]
    /\ \/ \E line \in CompilerLines :
            /\ driver = Started(line, Terminal) /\ script = Begun("none", <<>>)
            /\ command = [line |-> line, files |-> files]
            /\ verdict \in [StemsOf(line) -> Verdicts]
       \/ \E line \in ScriptLines :
            /\ driver = NoProcess /\ script = Begun("options", line)
            /\ command = [line |-> line, files |-> files]
            /\ verdict \in [StemsOf(line) -> Verdicts]

-----------------------------------------------------------------------------
(* Variant: -v is not shifted away.                                        *)
ReadScriptOptionNoShift ==
    /\ At("options") /\ script.args # <<>>
    /\ LET arg  == Head(script.args)
           rest == Tail(script.args)
       IN CASE arg = Option("-o") /\ rest = <<>> -> Stop(1)
            [] arg = Option("-o") /\ rest # <<>> ->
                 script' = [script EXCEPT !.args = Tail(rest), !.output = Head(rest)]
            [] arg = Option("--keep-ir") ->
                 script' = [script EXCEPT !.args = rest, !.keepIR = TRUE]
            [] arg = Option("--emit-llvm") ->
                 script' = [script EXCEPT !.args = rest, !.emitOnly = TRUE]
            [] arg = Option("-v") -> UNCHANGED script
            [] arg = Option("-h") -> Stop(0)
            [] arg[2] = "pl11"    ->
                 script' = [script EXCEPT !.args = rest, !.sources = Append(@, arg[1])]
            [] OTHER              -> Stop(1)
    /\ UNCHANGED <<driverVars, command>>

ReadScriptOption ==
    /\ At("options") /\ script.args # <<>>
    /\ LET arg  == Head(script.args)
           rest == Tail(script.args)
       IN CASE arg = Option("-o") /\ rest = <<>> -> Stop(1)
            [] arg = Option("-o") /\ rest # <<>> ->
                 script' = [script EXCEPT !.args = Tail(rest), !.output = Head(rest)]
            [] arg = Option("--keep-ir") ->
                 script' = [script EXCEPT !.args = rest, !.keepIR = TRUE]
            [] arg = Option("--emit-llvm") ->
                 script' = [script EXCEPT !.args = rest, !.emitOnly = TRUE]
            [] arg = Option("-v") -> script' = [script EXCEPT !.args = rest]
            [] arg = Option("-h") -> Stop(0)
            [] arg[2] = "pl11"    ->
                 script' = [script EXCEPT !.args = rest, !.sources = Append(@, arg[1])]
            [] OTHER              -> Stop(1)
    /\ UNCHANGED <<driverVars, command>>

(* Variant: the extension is left on.                                      *)
DefaultOutputUnstripped == <<script.sources[1], "pl11">>
DefaultOutput           == <<script.sources[1], "">>

(* One of pl11c, llc and clang may not be installed; all three must be.    *)
FindTools ==
    /\ At("options") /\ script.args = <<>>
    /\ \/ Stop(1)
       \/ /\ script.sources # <<>>
          /\ script' = [script EXCEPT !.pc = "compile",
                          !.output = IF @ = NoFile THEN DefaultOutput ELSE @]
    /\ UNCHANGED <<driverVars, command>>

Stem == script.sources[script.next]
MoreSources == script.next <= Len(script.sources)

(* Variant: the object file is not listed.                                 *)
CompileNoObjectListed ==
    /\ At("compile") /\ MoreSources
    /\ IF ContentOf(Src(Stem)) = Absent THEN ExitWith(1) /\ UNCHANGED driverVars
       ELSE /\ script' = [script EXCEPT !.pc = "compiling", !.tmpFiles = Append(@, LL(Stem))]
            /\ Write(LL(Stem), Empty)
            /\ driver' = Started(<<Option("--emit-llvm"), Src(Stem)>>, LL(Stem))
            /\ UNCHANGED context
    /\ UNCHANGED command

(* The shell empties the file that the output goes to and starts pl11c.    *)
Compile ==
    /\ At("compile") /\ MoreSources
    /\ IF ContentOf(Src(Stem)) = Absent THEN ExitWith(1) /\ UNCHANGED driverVars
       ELSE /\ script' = [script EXCEPT !.pc = "compiling",
                                        !.tmpFiles = @ \o <<LL(Stem), Obj(Stem)>>]
            /\ Write(LL(Stem), Empty)
            /\ driver' = Started(<<Option("--emit-llvm"), Src(Stem)>>, LL(Stem))
            /\ UNCHANGED context
    /\ UNCHANGED command

(* ${TMPFILES[@]/$ll} leaves an empty name in the place of the file.       *)
Unlisted(list, f) == [i \in DOMAIN list |-> IF list[i] = f THEN NoFile ELSE list[i]]

KeepIt == script' = [script EXCEPT !.pc = "compile", !.next = @ + 1,
                       !.tmpFiles = IF script.keepIR THEN @ ELSE Unlisted(@, LL(Stem))]

(* Variant: an error is reported, and the next source taken.               *)
CompiledOrNot ==
    /\ At("compiling") /\ driver.at = "exited"
    /\ IF script.emitOnly \/ driver.code # 0 THEN KeepIt ELSE Then("assemble")
    /\ UNCHANGED <<driverVars, command>>

Compiled ==
    /\ At("compiling") /\ driver.at = "exited"
    /\ IF driver.code # 0 THEN ExitWith(1)
       ELSE IF script.emitOnly THEN KeepIt
       ELSE Then("assemble")
    /\ UNCHANGED <<driverVars, command>>

(* A command that fails leaves its output file alone or removes it.        *)
Fails(output) ==
    /\ ExitWith(1)
    /\ UNCHANGED files \/ Write(output, Absent)

(* llc.                                                                    *)
Assemble ==
    /\ At("assemble")
    /\ \/ /\ ContentOf(LL(Stem)) = IR(Stem)
          /\ Write(Obj(Stem), Object(Stem))
          /\ script' = [script EXCEPT !.pc = "compile", !.next = @ + 1,
                                      !.objects = Append(@, Stem)]
       \/ Fails(Obj(Stem))
    /\ UNCHANGED <<context, driver, command>>

AllCompiled ==
    /\ At("compile") /\ ~MoreSources
    /\ IF script.emitOnly THEN ExitWith(0) ELSE Then("link")
    /\ UNCHANGED <<driverVars, command>>

Program(ss) == <<"program">> \o ss

(* clang.  Every object file defines main (pl11_codegen.cpp:111), so the   *)
(* linker refuses a second one.                                            *)
Link ==
    /\ At("link")
    /\ \/ /\ Len(script.objects) = 1
          /\ ContentOf(Obj(script.objects[1])) = Object(script.objects[1])
          /\ Write(script.output, Program(script.objects))
          /\ ExitWith(0)
       \/ Fails(script.output)
    /\ UNCHANGED <<context, driver, command>>

(* Before the trap is set nothing is called, in the trap nothing more.     *)
Interrupt ==
    /\ \/ At("options") /\ Stop(130)
       \/ script.pc \in {"compile", "compiling", "assemble", "link"} /\ ExitWith(130)
       \/ At("trap") /\ script' = [script EXCEPT !.pc = "killed", !.code = 130]
    /\ driver' = NoProcess
    /\ UNCHANGED <<files, context, command>>

(* The trap: a file at a time.                                             *)
Cleanup ==
    /\ At("trap")
    /\ IF script.keepIR \/ script.emitOnly \/ script.removed = Len(script.tmpFiles)
       THEN Then("exited") /\ UNCHANGED files
       ELSE LET gone == script.tmpFiles[script.removed + 1]
            IN /\ files' = [f \in DOMAIN files |-> IF f = gone THEN Absent ELSE files[f]]
               /\ script' = [script EXCEPT !.removed = @ + 1]
    /\ UNCHANGED <<context, driver, command>>

Process == DriverStep /\ UNCHANGED <<script, command>>

Step == Process \/ ReadScriptOption \/ FindTools \/ Compile \/ Compiled \/ Assemble
        \/ AllCompiled \/ Link \/ Cleanup
Next == Step \/ Interrupt

(* The shell waits for each process and goes on; an interrupt may come.    *)
Spec == Init /\ [][Next]_vars /\ WF_vars(Step)

-----------------------------------------------------------------------------
(***************************************************************************)
(* Properties.                                                             *)
(***************************************************************************)
Finished == \/ At("none") /\ driver.at = "exited"
            \/ script.pc \in {"stopped", "exited", "killed"}

Before(f) == IF f \in DOMAIN command.files THEN command.files[f] ELSE Absent

(* Whatever fails, and whenever the script is interrupted, unless they are *)
(* asked for: the files between a source that it has finished and the      *)
(* program are gone, those that it made and those that it found; of the    *)
(* source at hand, and of those behind it, they are gone or as it found    *)
(* them.  Only when the cleanup is interrupted itself there may be others, *)
(* those of the list that it had not come to.                              *)
ListedFrom(k) == {script.tmpFiles[j] : j \in k .. Len(script.tmpFiles)}
NotReached    == ListedFrom(script.removed + 1)
NothingLeftBehind ==
    script.pc \in {"exited", "killed"} /\ ~script.keepIR /\ ~script.emitOnly =>
        \A i \in DOMAIN script.sources : \A f \in Intermediates({script.sources[i]}) :
            \/ ContentOf(f) = Absent
            \/ i >= script.next /\ ContentOf(f) = Before(f)
            \/ At("killed") /\ f \in NotReached

(* When the script reports success, everything it was asked for is there   *)
(* and made of all of the sources; an output that is named like a file in  *)
(* between is removed with it.                                             *)
SuccessIsComplete ==
    At("exited") /\ script.code = 0 =>
        IF script.emitOnly
        THEN \A i \in DOMAIN script.sources :
                LET s == script.sources[i] IN ContentOf(LL(s)) = IR(s)
        ELSE \/ ContentOf(script.output) = Program(script.sources)
             \/ script.output \in ListedFrom(1) /\ ~script.keepIR

NamedOutput(f) ==
    \E i \in DOMAIN command.line :
        i > 1 /\ command.line[i] = f /\ command.line[i - 1] = Option("-o")

IsOutput(f) ==
    \/ \E i \in DOMAIN script.sources :
          LET s == script.sources[i]
          IN f \in {LL(s)} \cup (IF script.emitOnly THEN {} ELSE {Obj(s), <<s, "">>})
    \/ NamedOutput(f) /\ ~script.emitOnly

(* The script writes what the usage says: the files that belong to a source*)
(* on the command line, and the output that it names; a source is safe if  *)
(* -o does not name it.                                                    *)
OnlyOutputsChange ==
    ~At("none") => \A f \in DOMAIN files : files[f] # Before(f) => IsOutput(f)

(* What makes the compiler give up before it has the result of a mode.     *)
Reported(mode) ==
    LET lexing == {"literal", "syntax, then literal"}
    IN CASE mode = "--lex"   -> lexing
         [] mode = "--parse" -> lexing \cup {"syntax"}
         [] mode = "--sema"  -> lexing \cup {"syntax", "semantics"}
         [] mode = "--emit-llvm" -> IF hasLLVM THEN Verdicts \ {"none"} ELSE Verdicts
         [] mode = "none"    -> Verdicts \ (IF hasLLVM THEN {"none"} ELSE {"none", "generation"})
Result(mode) ==
    CASE mode = "--lex"       -> <<"tokens">>
      [] mode = "--parse"     -> <<"parsed">>
      [] mode = "--sema"      -> <<"analysed">>
      [] mode = "--emit-llvm" -> IR(driver.input[1])
      [] mode = "none"        -> IF hasLLVM THEN <<"written">> ELSE <<"compiled">>
Wanted ==
    LET stages == <<"--lex", "--parse", "--sema", "--emit-llvm">>
        asked  == {i \in DOMAIN stages : Option(stages[i]) \in driver.modes}
    IN IF asked = {} THEN "none" ELSE stages[CHOOSE i \in asked : \A j \in asked : i <= j]

(* The compiler delivers the result of the earliest stage that it is asked *)
(* for, and exit code 0, or nothing on its output and another code, which  *)
(* is the case whenever a phase up to that stage fails.                    *)
ErrorsAreReported ==
    driver.at = "exited" /\ driver.args = <<>> /\ ContentOf(driver.input) = Source =>
        /\ Verdict \in Reported(Wanted) => driver.code # 0
        /\ driver.printed = IF driver.code = 0 THEN Result(Wanted) ELSE <<>>

(* Every command ends, whatever the command line is.                       *)
Termination == <>Finished
=============================================================================
