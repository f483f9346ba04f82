---------------------------- MODULE Build_proof ----------------------------
(***************************************************************************)
(* For every command line - any number of sources, options in any order,   *)
(* any file given to -o - and whatever fails or is interrupted:            *)
(*   - the script leaves no intermediate file behind: a file is listed     *)
(*     before it is made, nothing is made that is not listed, and what is  *)
(*     listed is removed or still to be removed (IInv);                    *)
(*   - it writes only the files of its sources and the output that is named*)
(*     on the command line (Outs);                                         *)
(*   - the compiler that exits with 0 has passed every phase up to the one *)
(*     asked for and printed that one's result (Reports);                  *)
(*   - the script that exits with 0 has what it was asked for, made of all *)
(*     of its sources in order (Complete).                                 *)
(***************************************************************************)
EXTENDS Build, TLAPS, SequenceTheorems

(* The script and the compiler are records; what their fields hold.        *)
IsScript ==
    script = [pc |-> script.pc, args |-> script.args, sources |-> script.sources,
              output |-> script.output, keepIR |-> script.keepIR,
              emitOnly |-> script.emitOnly, tmpFiles |-> script.tmpFiles,
              removed |-> script.removed, objects |-> script.objects,
              next |-> script.next, code |-> script.code]
IsDriver ==
    driver = [at |-> driver.at, args |-> driver.args, input |-> driver.input,
              output |-> driver.output, modes |-> driver.modes, stdout |-> driver.stdout,
              printed |-> driver.printed, code |-> driver.code]

(* What the list of files holds; one that is kept leaves an empty name.    *)
Names == {NoFile} \cup {LL(s) : s \in STRING} \cup {Obj(s) : s \in STRING}

Working == {"compile", "compiling", "assemble", "link"}

Typed ==
    /\ IsScript /\ IsDriver
    /\ script.pc \in Working \cup {"none", "options", "stopped", "trap", "exited",
                                 "killed"}
    /\ script.args \in Seq(Word) /\ script.sources \in Seq(STRING)
    /\ script.next \in Nat \ {0} /\ script.tmpFiles \in Seq(Names)

(* The compiler runs when the script waits for it, and then only writes to *)
(* the file that the shell gave it.                                        *)
EmitsIR ==
    \/ Option("--emit-llvm") \in driver.modes
    \/ driver.at = "options" /\ driver.args = <<Option("--emit-llvm"), Src(Stem)>>
Child ==
    /\ script.pc \notin {"none", "compiling"} => driver.at \in {"none", "exited"}
    /\ script.pc \in {"compiling", "assemble"} => script.next \in DOMAIN script.sources
    /\ script.pc = "compiling" => driver.stdout = LL(Stem) /\ EmitsIR

Linking == ~script.keepIR /\ ~script.emitOnly

OnList   == ListedFrom(1)
Lists(i) == Intermediates({script.sources[i]}) \subseteq OnList

(* The files of the sources that the script has begun with are listed.     *)
Reached == IF script.pc \in {"compiling", "assemble"} THEN script.next ELSE script.next - 1
Listed ==
    /\ script.pc = "options" => script.next = 1
    /\ script.pc \in Working \cup {"trap"} /\ Linking =>
          /\ \A i \in DOMAIN script.sources : i <= Reached => Lists(i)
          /\ script.pc = "link" => script.next > Len(script.sources)

(* What is not listed is as it was.                                        *)
AsBefore(f) == f \in OnList \/ ContentOf(f) = Before(f)
Untouched ==
    /\ script.pc = "options" => files = command.files
    /\ script.pc \in Working \cup {"options", "trap"} /\ Linking =>
          \A i \in DOMAIN script.sources : \A f \in Intermediates({script.sources[i]}) :
              AsBefore(f)

(* What is listed is removed by the trap, in the order of the list.        *)
Emptied ==
    /\ script.pc \in Working \cup {"options"} => script.removed = 0
    /\ script.pc = "trap" =>
          /\ script.removed \in 0 .. Len(script.tmpFiles)
          /\ Linking => \A f \in OnList : f \in NotReached \/ ContentOf(f) = Absent

IInv == Typed /\ Child /\ Listed /\ Untouched /\ Emptied /\ NothingLeftBehind

LEMMA SameList ==
    ASSUME script'.tmpFiles = script.tmpFiles
    PROVE  OnList' = OnList
  BY DEF OnList, ListedFrom

(* The list grows at its end.                                              *)
LEMMA LongerList ==
    ASSUME script.tmpFiles \in Seq(Names), NEW f \in Names, NEW g \in Names,
           script'.tmpFiles = script.tmpFiles \o <<f, g>>
    PROVE  /\ script'.tmpFiles \in Seq(Names)
           /\ OnList' = OnList \cup {f, g}
  <1> DEFINE old == script.tmpFiles
             new == old \o <<f, g>>
  <1>1. /\ new \in Seq(Names) /\ Len(old) \in Nat /\ Len(new) = Len(old) + 2
        /\ \A j \in 1 .. Len(old) : new[j] = old[j]
        /\ new[Len(old) + 1] = f /\ new[Len(old) + 2] = g
    OBVIOUS
  <1>2. OnList = {old[j] : j \in 1 .. Len(old)} /\ OnList' = {new[j] : j \in 1 .. Len(new)}
    BY DEF OnList, ListedFrom
  <1>3. script'.tmpFiles \in Seq(Names)
    BY <1>1
  <1> HIDE DEF old, new
  <1>4. {new[j] : j \in 1 .. Len(new)} \subseteq {old[j] : j \in 1 .. Len(old)} \cup {f, g}
    <2> SUFFICES ASSUME NEW j \in 1 .. Len(new)
                 PROVE  new[j] \in {old[i] : i \in 1 .. Len(old)} \cup {f, g}
      OBVIOUS
    <2>1. j \in 1 .. Len(old) \/ j = Len(old) + 1 \/ j = Len(old) + 2
      BY <1>1
    <2> QED BY <1>1, <2>1
  <1>5. {old[j] : j \in 1 .. Len(old)} \cup {f, g} \subseteq {new[j] : j \in 1 .. Len(new)}
    <2>1. ASSUME NEW j \in 1 .. Len(old) PROVE old[j] \in {new[i] : i \in 1 .. Len(new)}
      <3>1. j \in 1 .. Len(new) /\ new[j] = old[j]
        BY <1>1
      <3> QED BY <3>1
    <2>2. Len(old) + 1 \in 1 .. Len(new) /\ Len(old) + 2 \in 1 .. Len(new)
      BY <1>1
    <2> QED BY <1>1, <2>1, <2>2
  <1> QED BY <1>2, <1>3, <1>4, <1>5

(* A write changes one file.                                               *)
LEMMA WriteOne ==
    ASSUME NEW w, NEW c, Write(w, c)
    PROVE  \A f : f # w => ContentOf(f)' = ContentOf(f)
  BY DEF Write, ContentOf

LEMMA SameFiles ==
    ASSUME files' = files
    PROVE  \A f : ContentOf(f)' = ContentOf(f)
  BY DEF ContentOf

(* The files of a source.                                                  *)
LEMMA IntermediatesOf ==
    ASSUME NEW s
    PROVE  Intermediates({s}) = {LL(s), Obj(s)}
  BY DEF Intermediates

(* A step of the script that changes only files that it lists leaves the   *)
(* rest as it was.                                                         *)
LEMMA ChangesOnlyListed ==
    ASSUME Untouched, Emptied, script'.tmpFiles \in Seq(Names),
           script'.removed = script.removed, script.pc \in Working \cup {"options"}, command' = command,
           script'.sources = script.sources, Linking' => Linking,
           OnList \subseteq OnList',
           script'.pc \in Working \cup {"trap"},
           Linking => \A i \in DOMAIN script.sources :
                          \A f \in Intermediates({script.sources[i]}) :
                              f \in OnList' \/ ContentOf(f)' = ContentOf(f)
    PROVE  Untouched' /\ Emptied' /\ NothingLeftBehind'
  <1>1. \A f : Before(f)' = Before(f)
    BY DEF Before
  <1>2. script'.pc \notin {"options", "exited", "killed"}
    BY DEF Working
  <1>3. ASSUME NEW i \in DOMAIN script.sources, NEW f \in Intermediates({script.sources[i]}),
               Linking'
        PROVE  AsBefore(f)'
    <2>1. AsBefore(f)
      BY <1>3 DEF Untouched
    <2> QED BY <1>1, <1>3, <2>1 DEF AsBefore
  <1>4. Untouched'
    BY <1>2, <1>3 DEF Untouched
  <1>5. script'.removed = 0 /\ Len(script'.tmpFiles) \in Nat
    BY DEF Emptied
  <1>6. NotReached' = OnList'
    BY <1>5 DEF NotReached, OnList
  <1>7. Emptied'
    BY <1>5, <1>6 DEF Emptied
  <1> QED BY <1>2, <1>4, <1>7 DEF NothingLeftBehind, At

-----------------------------------------------------------------------------
(* One lemma for each action.                                              *)

LEMMA InitInvariant == Init => IInv
  <1> SUFFICES ASSUME Init PROVE IInv
    OBVIOUS
  <1>1. CASE \E line \in CompilerLines :
               driver = Started(line, Terminal) /\ script = Begun("none", <<>>)
    <2>1. PICK line \in CompilerLines :
               driver = Started(line, Terminal) /\ script = Begun("none", <<>>)
      BY <1>1
    <2>2. Typed
      <3>1. IsScript /\ IsDriver
        BY <2>1 DEF IsScript, IsDriver, Started, Begun
      <3>2. /\ script.pc = "none" /\ script.args = <<>> /\ script.sources = <<>> /\ script.next = 1
            /\ script.tmpFiles = <<>>
        BY <2>1 DEF Begun
      <3> QED BY <3>1, <3>2 DEF Typed
    <2>3. script.pc = "none"
      BY <2>1 DEF Begun
    <2> QED BY <2>2, <2>3 DEF IInv, Child, Listed, Untouched, Emptied, NothingLeftBehind, At, Working
  <1>2. CASE \E line \in ScriptLines :
               /\ driver = NoProcess /\ script = Begun("options", line)
               /\ command = [line |-> line, files |-> files]
    <2>1. PICK line \in ScriptLines :
               /\ driver = NoProcess /\ script = Begun("options", line)
               /\ command = [line |-> line, files |-> files]
      BY <1>2
    <2>2. line \in Seq(Word)
      BY LinesAssumption
    <2>3. Typed /\ driver.at = "none"
      <3>1. IsScript
        BY <2>1 DEF IsScript, Begun
      <3>2. IsDriver /\ driver.at = "none"
        BY <2>1 DEF IsDriver, NoProcess, Started
      <3>3. /\ script.pc = "options" /\ script.args = line
            /\ script.sources = <<>> /\ script.next = 1 /\ script.tmpFiles = <<>>
        BY <2>1 DEF Begun
      <3> QED BY <2>2, <3>1, <3>2, <3>3 DEF Typed
    <2>4. /\ script.pc = "options" /\ script.next = 1 /\ script.removed = 0
          /\ command.files = files
      BY <2>1 DEF Begun
    <2>5. \A f : AsBefore(f)
      BY <2>4 DEF ContentOf, Before, AsBefore
    <2> QED BY <2>3, <2>4, <2>5 DEF IInv, Child, Listed, Untouched, Emptied, NothingLeftBehind,
                                    At, Working
  <1> QED BY <1>1, <1>2 DEF Init

(* The compiler at work, called by the user or by the script.              *)
LEMMA ProcessKeeps ==
    ASSUME IInv, Process PROVE IInv'
  <1> USE DEF IInv
  <1>1. script' = script /\ command' = command /\ driver.at \notin {"none", "exited"}
    BY DEF Process, DriverStep, ReadOption, ReadFile, Lex, Parse, Analyse, Generate,
           GenerateNothing, Running
  <1>2. script.pc \in {"none", "compiling"}
    BY <1>1 DEF Child
  <1>3. IsDriver'
    <2>1. CASE ReadOption
      BY <2>1 DEF ReadOption, Typed, IsDriver, Exit
    <2>2. CASE ReadFile \/ Lex \/ Parse \/ Analyse \/ GenerateNothing
      BY <2>2 DEF ReadFile, Lex, Parse, Analyse, GenerateNothing, GoTo, Exit, Abort,
                  ExitPrinting, Typed, IsDriver
    <2>3. CASE Generate
      BY <2>3 DEF Generate, EmitIR, WriteObject, Exit, ExitPrinting, Typed, IsDriver
    <2> QED BY <2>1, <2>2, <2>3 DEF Process, DriverStep
  <1>4. Typed'
    BY <1>1, <1>3 DEF Typed, IsScript
  <1>5. CASE script.pc = "none"
    BY <1>1, <1>4, <1>5 DEF Child, Listed, Untouched, Emptied, NothingLeftBehind, At, Working
  <1>6. CASE script.pc = "compiling"
    <2>1. driver.stdout = LL(Stem) /\ EmitsIR
      BY <1>6 DEF Child
    <2>2. /\ driver'.stdout = LL(Stem) /\ EmitsIR'
          /\ \A f : f # LL(Stem) => ContentOf(f)' = ContentOf(f)
      <3>1. CASE ReadOption
        <4>1. driver'.stdout = driver.stdout /\ driver.modes \subseteq driver'.modes
          BY <3>1 DEF ReadOption, Exit, Typed, IsDriver
        <4>2. driver.args = <<Option("--emit-llvm"), Src(Stem)>> =>
                Option("--emit-llvm") \in driver'.modes
          <5>1. Option("--emit-llvm") \in Modes
            BY DEF Modes
          <5>2. SUFFICES ASSUME driver.args = <<Option("--emit-llvm"), Src(Stem)>>
                         PROVE  Option("--emit-llvm") \in driver'.modes
            OBVIOUS
          <5>3. Head(driver.args) = Option("--emit-llvm")
            BY <5>2
          <5>4. driver' = [driver EXCEPT !.args = Tail(driver.args),
                                         !.modes = @ \cup {Head(driver.args)}]
            BY <3>1, <5>1, <5>3 DEF ReadOption, Option
          <5> QED BY <5>3, <5>4 DEF Typed, IsDriver
        <4> QED BY <2>1, <3>1, <4>1, <4>2, SameFiles DEF ReadOption, EmitsIR
      <3>2. CASE ReadFile \/ Lex \/ Parse \/ Analyse \/ GenerateNothing
        <4>1. /\ driver'.stdout = driver.stdout /\ driver.modes = driver'.modes
              /\ files' = files
              /\ driver.at # "options" \/ driver.args = <<>>
          BY <3>2 DEF ReadFile, Lex, Parse, Analyse, GenerateNothing, GoTo, Exit, Abort,
                      ExitPrinting, Typed, IsDriver, Running
        <4> QED BY <2>1, <4>1, SameFiles DEF EmitsIR
      <3>3. CASE Generate
        <4>1. Option("--emit-llvm") \in driver.modes
          BY <2>1, <3>3 DEF Generate, Running, EmitsIR
        <4>2. /\ driver'.stdout = driver.stdout /\ driver.modes = driver'.modes
              /\ files' = files \/ Write(LL(Stem), IR(driver.input[1]))
          BY <2>1, <3>3, <4>1 DEF Generate, EmitIR, Asked, Exit, ExitPrinting, Typed, IsDriver
        <4> QED BY <2>1, <4>1, <4>2, SameFiles, WriteOne DEF EmitsIR
      <3> QED BY <3>1, <3>2, <3>3 DEF Process, DriverStep
    <2>3. Child'
      <3>1. LL(Stem)' = LL(Stem)
        BY <1>1 DEF Stem
      <3> QED BY <1>1, <1>6, <2>2, <3>1 DEF Child
    <2>4. Listed'
      BY <1>1, SameList DEF Listed, Lists, Linking, Reached
    <2>5. ASSUME Linking PROVE LL(Stem) \in OnList
      <3>1. script.next \in DOMAIN script.sources /\ Reached = script.next
        BY <1>6 DEF Child, Reached
      <3>2. Lists(script.next)
        BY <1>6, <2>5, <3>1 DEF Listed, Working, Typed
      <3> QED BY <3>2, IntermediatesOf DEF Lists, Stem
    <2>6. Untouched' /\ Emptied' /\ NothingLeftBehind'
      BY <1>1, <1>6, <2>2, <2>5, SameList, ChangesOnlyListed DEF Linking, Working, Typed
    <2> QED BY <1>4, <2>3, <2>4, <2>6
  <1> QED BY <1>2, <1>5, <1>6

(* The options: nothing is listed and nothing is changed.                  *)
LEMMA ReadScriptOptionKeeps ==
    ASSUME IInv, ReadScriptOption PROVE IInv'
  <1> USE DEF IInv
  <1>1. /\ script.pc = "options" /\ script.args \in Seq(Word) /\ script.args # <<>>
        /\ files' = files /\ driver' = driver /\ command' = command
    BY DEF ReadScriptOption, driverVars, At, Typed
  <1>2. Head(script.args) \in Word /\ Tail(script.args) \in Seq(Word)
    BY <1>1
  <1>3. Head(script.args)[1] \in STRING
    BY <1>2 DEF Word
  <1> DEFINE rest == Tail(script.args)
  <1>4. \/ \E code \in {0, 1} : script' = [script EXCEPT !.pc = "stopped", !.code = code]
        \/ /\ rest # <<>>
           /\ script' = [script EXCEPT !.args = Tail(rest), !.output = Head(rest)]
        \/ script' = [script EXCEPT !.args = rest, !.keepIR = TRUE]
        \/ script' = [script EXCEPT !.args = rest, !.emitOnly = TRUE]
        \/ script' = [script EXCEPT !.args = rest]
        \/ script' = [script EXCEPT !.args = rest, !.sources = Append(@, Head(script.args)[1])]
    BY DEF ReadScriptOption, Stop
  <1>5. /\ IsScript' /\ script'.pc \in {"options", "stopped"}
        /\ script'.next = script.next
        /\ script'.tmpFiles = script.tmpFiles /\ script'.removed = script.removed
        /\ \/ script'.args = script.args
           \/ script'.args = rest
           \/ rest # <<>> /\ script'.args = Tail(rest)
        /\ \/ script'.sources = script.sources
           \/ script'.sources = Append(script.sources, Head(script.args)[1])
    <2>1. CASE \E code \in {0, 1} : script' = [script EXCEPT !.pc = "stopped", !.code = code]
      BY <1>1, <2>1 DEF Typed, IsScript
    <2>2. CASE /\ rest # <<>>
               /\ script' = [script EXCEPT !.args = Tail(rest), !.output = Head(rest)]
      BY <1>1, <2>2 DEF Typed, IsScript
    <2>3. CASE script' = [script EXCEPT !.args = rest, !.keepIR = TRUE]
      BY <1>1, <2>3 DEF Typed, IsScript
    <2>4. CASE script' = [script EXCEPT !.args = rest, !.emitOnly = TRUE]
      BY <1>1, <2>4 DEF Typed, IsScript
    <2>5. CASE script' = [script EXCEPT !.args = rest]
      BY <1>1, <2>5 DEF Typed, IsScript
    <2>6. CASE script' = [script EXCEPT !.args = rest,
                                        !.sources = Append(@, Head(script.args)[1])]
      BY <1>1, <2>6 DEF Typed, IsScript
    <2> QED BY <1>4, <2>1, <2>2, <2>3, <2>4, <2>5, <2>6
  <1>6. script'.args \in Seq(Word) /\ script'.sources \in Seq(STRING)
    <2>1. rest # <<>> => Tail(rest) \in Seq(Word)
      BY <1>2
    <2>2. Append(script.sources, Head(script.args)[1]) \in Seq(STRING)
      BY <1>3 DEF Typed
    <2> QED BY <1>1, <1>2, <1>5, <2>1, <2>2 DEF Typed
  <1>7. Typed'
    BY <1>1, <1>5, <1>6 DEF Typed, IsDriver
  <1>8. Child' /\ Listed' /\ Emptied' /\ NothingLeftBehind'
    BY <1>1, <1>5 DEF Child, Listed, Emptied, NothingLeftBehind, At, Working
  <1>9. Untouched'
    <2>1. files' = command'.files
      BY <1>1 DEF Untouched
    <2>2. \A f : AsBefore(f)'
      BY <2>1 DEF AsBefore, ContentOf, Before
    <2> QED BY <1>5, <2>1, <2>2 DEF Untouched, Working
  <1> QED BY <1>7, <1>8, <1>9

LEMMA FindToolsKeeps ==
    ASSUME IInv, FindTools PROVE IInv'
  <1> USE DEF IInv
  <1>1. /\ script.pc = "options"
        /\ files' = files /\ driver' = driver /\ command' = command
    BY DEF FindTools, driverVars, At
  <1>2. /\ IsScript' /\ script'.pc \in {"compile", "stopped"}
        /\ script'.next = script.next /\ script'.args = script.args
        /\ script'.sources = script.sources
        /\ script'.keepIR = script.keepIR /\ script'.emitOnly = script.emitOnly
        /\ script'.tmpFiles = script.tmpFiles /\ script'.removed = script.removed
    BY DEF FindTools, Stop, Typed, IsScript
  <1>3. Typed'
    BY <1>1, <1>2 DEF Typed, IsDriver, Working
  <1>4. Child'
    BY <1>1, <1>2 DEF Child
  <1>5. CASE script'.pc = "stopped"
    BY <1>3, <1>4, <1>5 DEF Listed, Untouched, Emptied, NothingLeftBehind, At, Working
  <1>6. CASE script'.pc = "compile"
    <2>1. Untouched' /\ Emptied' /\ NothingLeftBehind'
      BY <1>1, <1>2, <1>6, SameFiles, SameList, ChangesOnlyListed DEF Linking, Working, Typed
    <2>2. Listed'
      <3>1. script'.next = 1 /\ script'.sources \in Seq(STRING)
        BY <1>1, <1>2 DEF Listed, Typed
      <3>2. \A i \in DOMAIN script'.sources : ~(i <= Reached')
        BY <1>6, <3>1 DEF Reached
      <3> QED BY <1>6, <3>2 DEF Listed
    <2> QED BY <1>3, <1>4, <2>1, <2>2
  <1> QED BY <1>2, <1>5, <1>6

(* Both intermediate files are listed before the first of them is made.    *)
LEMMA CompileKeeps ==
    ASSUME IInv, Compile PROVE IInv'
  <1> USE DEF IInv
  <1>1. /\ script.pc = "compile" /\ command' = command
        /\ script.next \in Nat \ {0} /\ script.next <= Len(script.sources)
        /\ script.sources \in Seq(STRING)
    BY DEF Compile, At, MoreSources, Typed
  <1>2. CASE ExitWith(1) /\ UNCHANGED driverVars
    <2>1. /\ IsScript' /\ script'.pc = "trap"
          /\ script'.next = script.next /\ script'.args = script.args
          /\ script'.sources = script.sources
          /\ script'.keepIR = script.keepIR /\ script'.emitOnly = script.emitOnly
          /\ script'.tmpFiles = script.tmpFiles /\ script'.removed = script.removed
          /\ files' = files /\ driver' = driver
      BY <1>2 DEF ExitWith, Typed, IsScript, driverVars
    <2>2. Typed' /\ Child' /\ Listed'
      BY <1>1, <2>1, SameList DEF Typed, IsDriver, Child, Listed, Lists, Linking, Reached, Working
    <2>3. Untouched' /\ Emptied' /\ NothingLeftBehind'
      BY <1>1, <2>1, SameFiles, SameList, ChangesOnlyListed DEF Linking, Working, Typed
    <2> QED BY <2>2, <2>3
  <1>3. CASE /\ script' = [script EXCEPT !.pc = "compiling",
                                         !.tmpFiles = @ \o <<LL(Stem), Obj(Stem)>>]
             /\ Write(LL(Stem), Empty)
             /\ driver' = Started(<<Option("--emit-llvm"), Src(Stem)>>, LL(Stem))
    <2>1. /\ IsScript' /\ script'.pc = "compiling"
          /\ script'.next = script.next /\ script'.args = script.args
          /\ script'.sources = script.sources
          /\ script'.keepIR = script.keepIR /\ script'.emitOnly = script.emitOnly
          /\ script'.tmpFiles = script.tmpFiles \o <<LL(Stem), Obj(Stem)>>
          /\ script'.removed = script.removed
      BY <1>3 DEF Typed, IsScript
    <2>2. /\ IsDriver' /\ driver'.at = "options" /\ driver'.stdout = LL(Stem)
          /\ driver'.args = <<Option("--emit-llvm"), Src(Stem)>>
      BY <1>3 DEF Started, IsDriver
    <2>3. Stem' = Stem
      BY <2>1 DEF Stem
    <2>10. /\ script'.tmpFiles \in Seq(Names)
           /\ OnList' = OnList \cup Intermediates({Stem})
      <3>1. Stem \in STRING
        BY <1>1 DEF Stem
      <3>2. LL(Stem) \in Names /\ Obj(Stem) \in Names
        BY <3>1 DEF Names
      <3>3. script.tmpFiles \in Seq(Names)
        BY DEF Typed
      <3> QED BY <2>1, <3>2, <3>3, LongerList, IntermediatesOf
    <2>4. Typed'
      BY <1>1, <2>1, <2>2, <2>10 DEF Typed, Working
    <2>5. Child'
      <3>1. LL(Stem)' = LL(Stem) /\ Src(Stem)' = Src(Stem)
        BY <2>3 DEF LL, Src
      <3>2. script'.next \in DOMAIN script'.sources
        BY <1>1, <2>1
      <3> QED BY <2>1, <2>2, <3>1, <3>2 DEF Child, EmitsIR
    <2>6. Listed'
      <3>1. ASSUME NEW i \in DOMAIN script.sources, i <= script.next, Linking PROVE Lists(i)'
        <4>1. CASE i = script.next
          BY <2>1, <2>10, <4>1 DEF Lists, Stem
        <4>2. CASE i <= script.next - 1
          BY <1>1, <2>1, <2>10, <3>1, <4>2 DEF Listed, Reached, Lists, Working
        <4> QED BY <1>1, <3>1, <4>1, <4>2
      <3> QED BY <2>1, <3>1 DEF Listed, Reached, Linking
    <2>7. \A f : f # LL(Stem) => ContentOf(f)' = ContentOf(f)
      BY <1>3, WriteOne
    <2>8. LL(Stem) \in OnList' /\ OnList \subseteq OnList'
      BY <2>10, IntermediatesOf
    <2>9. Untouched' /\ Emptied' /\ NothingLeftBehind'
      BY <1>1, <2>1, <2>7, <2>8, <2>10, ChangesOnlyListed DEF Linking, Working
    <2> QED BY <2>4, <2>5, <2>6, <2>9
  <1> QED BY <1>2, <1>3 DEF Compile

(* KeepIt applies when what it keeps is asked for.                         *)
LEMMA CompiledKeeps ==
    ASSUME IInv, Compiled PROVE IInv'
  <1> USE DEF IInv
  <1>1. /\ script.pc = "compiling" /\ command' = command /\ files' = files
        /\ driver' = driver /\ driver.at = "exited"
    BY DEF Compiled, At, driverVars
  <1>2. script.next \in Nat \ {0} /\ script.next \in DOMAIN script.sources
    BY <1>1 DEF Typed, Child
  <1>3. CASE KeepIt /\ script.emitOnly
    <2>1. /\ IsScript' /\ script'.pc = "compile" /\ script'.emitOnly
          /\ script'.next = script.next + 1 /\ script'.args = script.args
          /\ script'.sources = script.sources /\ script'.removed = script.removed
          /\ \/ script'.tmpFiles = script.tmpFiles
             \/ script'.tmpFiles = Unlisted(script.tmpFiles, LL(Stem))
      BY <1>3 DEF KeepIt, Typed, IsScript
    <2>2. Unlisted(script.tmpFiles, LL(Stem)) \in Seq(Names)
      <3>1. script.tmpFiles \in Seq(Names) /\ NoFile \in Names
        BY DEF Typed, Names
      <3> QED BY <3>1 DEF Unlisted
    <2> QED BY <1>1, <1>2, <2>1, <2>2 DEF Typed, IsDriver, Child, Listed, Untouched, Emptied,
                                          Linking, NothingLeftBehind, At, Working
  <1>4. CASE ExitWith(1) \/ Then("assemble")
    <2>1. /\ IsScript' /\ script'.pc \in {"assemble", "trap"}
          /\ script'.next = script.next /\ script'.args = script.args
          /\ script'.sources = script.sources
          /\ script'.keepIR = script.keepIR /\ script'.emitOnly = script.emitOnly
          /\ script'.tmpFiles = script.tmpFiles /\ script'.removed = script.removed
      BY <1>4 DEF ExitWith, Then, Typed, IsScript
    <2>2. Typed' /\ Child'
      BY <1>1, <1>2, <2>1 DEF Typed, IsDriver, Child, Working
    <2>3. Listed'
      <3>1. script.next \in Nat /\ Reached = script.next
            /\ Reached' \in {script.next, script.next - 1} /\ script.sources \in Seq(STRING)
        BY <1>1, <2>1 DEF Reached, Typed
      <3>2. \A i \in DOMAIN script.sources : i <= Reached' => i <= Reached
        BY <3>1
      <3>3. \A i \in DOMAIN script.sources : Lists(i)' <=> Lists(i)
        BY <2>1, SameList DEF Lists
      <3>4. Linking => \A i \in DOMAIN script.sources : i <= Reached => Lists(i)
        BY <1>1 DEF Listed, Working
      <3> QED BY <2>1, <3>2, <3>3, <3>4 DEF Listed, Linking
    <2>4. Untouched' /\ Emptied' /\ NothingLeftBehind'
      BY <1>1, <2>1, SameFiles, SameList, ChangesOnlyListed DEF Linking, Working, Typed
    <2> QED BY <2>2, <2>3, <2>4
  <1> QED BY <1>3, <1>4 DEF Compiled

LEMMA AssembleKeeps ==
    ASSUME IInv, Assemble PROVE IInv'
  <1> USE DEF IInv
  <1>1. /\ script.pc = "assemble" /\ command' = command /\ driver' = driver
        /\ driver.at \in {"none", "exited"}
    BY DEF Assemble, At, Child
  <1>2. script.next \in Nat \ {0} /\ script.next \in DOMAIN script.sources
    BY <1>1 DEF Typed, Child
  <1>3. \A f : f # Obj(Stem) => ContentOf(f)' = ContentOf(f)
    BY WriteOne, SameFiles DEF Assemble, Fails
  <1>4. /\ IsScript' /\ script'.args = script.args
        /\ script'.sources = script.sources
        /\ script'.keepIR = script.keepIR /\ script'.emitOnly = script.emitOnly
        /\ script'.tmpFiles = script.tmpFiles /\ script'.removed = script.removed
        /\ \/ script'.pc = "compile" /\ script'.next = script.next + 1
           \/ script'.pc = "trap" /\ script'.next = script.next
    BY DEF Assemble, Fails, ExitWith, Typed, IsScript
  <1>5. Typed' /\ Child'
    BY <1>1, <1>2, <1>4 DEF Typed, IsDriver, Child, Working
  <1>6. \A i \in DOMAIN script.sources : i <= script.next /\ Linking => Lists(i)
    BY <1>1 DEF Listed, Reached, Working
  <1>7. Linking => Obj(Stem) \in OnList
    <2>1. SUFFICES ASSUME Linking PROVE Lists(script.next)
      BY IntermediatesOf DEF Lists, Stem
    <2> QED BY <1>2, <1>6, <2>1
  <1>8. Listed'
    <2>1. \A i \in DOMAIN script.sources : Lists(i)' <=> Lists(i)
      BY <1>4, SameList DEF Lists
    <2>2. Linking' <=> Linking
      BY <1>4 DEF Linking
    <2>3. CASE script'.pc = "compile"
      <3>1. script'.next = script.next + 1 /\ Reached' = script.next
        BY <1>2, <1>4, <2>3 DEF Reached
      <3> QED BY <1>4, <1>6, <2>1, <2>2, <2>3, <3>1 DEF Listed
    <2>4. CASE script'.pc = "trap"
      <3>1. script'.next = script.next /\ Reached' = script.next - 1
        BY <1>4, <2>4 DEF Reached
      <3>2. \A i \in DOMAIN script.sources : i <= Reached' => i <= script.next
        BY <1>2, <3>1 DEF Typed
      <3> QED BY <1>4, <1>6, <2>1, <2>2, <2>4, <3>2 DEF Listed
    <2> QED BY <1>4, <2>3, <2>4
  <1>9. Untouched' /\ Emptied' /\ NothingLeftBehind'
    BY <1>1, <1>3, <1>4, <1>7, SameList, ChangesOnlyListed DEF Linking, Working, Typed
  <1> QED BY <1>5, <1>8, <1>9

LEMMA AllCompiledKeeps ==
    ASSUME IInv, AllCompiled PROVE IInv'
  <1> USE DEF IInv
  <1>1. /\ script.pc = "compile" /\ command' = command /\ driver' = driver /\ files' = files
        /\ driver.at \in {"none", "exited"}
    BY DEF AllCompiled, At, Child, driverVars
  <1>2. script.next \in Nat /\ script.next > Len(script.sources)
    BY DEF AllCompiled, MoreSources, Typed
  <1>3. /\ IsScript' /\ script'.pc \in {"trap", "link"}
        /\ script'.next = script.next /\ script'.args = script.args
        /\ script'.sources = script.sources
        /\ script'.keepIR = script.keepIR /\ script'.emitOnly = script.emitOnly
        /\ script'.tmpFiles = script.tmpFiles /\ script'.removed = script.removed
    BY DEF AllCompiled, ExitWith, Then, Typed, IsScript
  <1>4. Typed' /\ Child'
    BY <1>1, <1>3 DEF Typed, IsDriver, Child, Working
  <1>5. Listed'
    <2>1. \A i \in DOMAIN script.sources : Linking => Lists(i)
      <3>1. \A i \in DOMAIN script.sources : i <= script.next - 1
        BY <1>2 DEF Typed
      <3> QED BY <1>1, <3>1 DEF Listed, Reached, Working
    <2> QED BY <1>2, <1>3, <2>1, SameList DEF Listed, Lists, Linking
  <1>6. Untouched' /\ Emptied' /\ NothingLeftBehind'
    BY <1>1, <1>3, SameFiles, SameList, ChangesOnlyListed DEF Linking, Working, Typed
  <1> QED BY <1>4, <1>5, <1>6

(* The output may be any file, one of those listed included.               *)
LEMMA LinkKeeps ==
    ASSUME IInv, Link PROVE IInv'
  <1> USE DEF IInv
  <1>1. /\ script.pc = "link" /\ command' = command /\ driver' = driver
        /\ driver.at \in {"none", "exited"}
    BY DEF Link, At, Child
  <1>2. \A f : f # script.output => ContentOf(f)' = ContentOf(f)
    BY WriteOne, SameFiles DEF Link, Fails
  <1>3. /\ IsScript' /\ script'.pc = "trap"
        /\ script'.next = script.next /\ script'.args = script.args
        /\ script'.sources = script.sources
        /\ script'.keepIR = script.keepIR /\ script'.emitOnly = script.emitOnly
        /\ script'.tmpFiles = script.tmpFiles /\ script'.removed = script.removed
    BY DEF Link, Fails, ExitWith, Typed, IsScript
  <1>4. Typed' /\ Child' /\ Listed'
    BY <1>1, <1>3, SameList DEF Typed, IsDriver, Child, Listed, Lists, Linking, Reached, Working
  <1>5. ASSUME Linking, NEW i \in DOMAIN script.sources PROVE Lists(i)
    <2>1. i <= Reached
      BY <1>1, <1>5 DEF Listed, Reached, Typed, Working
    <2> QED BY <1>1, <1>5, <2>1 DEF Listed, Working
  <1>6. Untouched' /\ Emptied' /\ NothingLeftBehind'
    BY <1>1, <1>2, <1>3, <1>5, SameList, ChangesOnlyListed DEF Linking, Working, Lists, Typed
  <1> QED BY <1>4, <1>6

(* What there is while the trap is called.                                 *)
LEMMA Remains ==
    ASSUME IInv, script.pc = "trap", Linking,
           NEW i \in DOMAIN script.sources, NEW f \in Intermediates({script.sources[i]})
    PROVE  \/ ContentOf(f) = Absent
           \/ i >= script.next /\ ContentOf(f) = Before(f)
           \/ f \in NotReached
  <1>1. CASE f \in OnList
    BY <1>1 DEF IInv, Emptied
  <1>2. CASE f \notin OnList
    <2>1. ContentOf(f) = Before(f)
      BY <1>2 DEF IInv, Untouched, AsBefore
    <2>2. ~(i <= Reached)
      BY <1>2 DEF IInv, Listed, Lists
    <2>3. i \in Nat /\ script.next \in Nat /\ Reached = script.next - 1
      BY DEF IInv, Typed, Reached
    <2> QED BY <2>1, <2>2, <2>3
  <1> QED BY <1>1, <1>2

LEMMA NextIsListed ==
    ASSUME IInv, script.pc = "trap", script.removed # Len(script.tmpFiles)
    PROVE  /\ script.removed \in Nat /\ Len(script.tmpFiles) \in Nat
           /\ script.removed < Len(script.tmpFiles)
           /\ script.tmpFiles[script.removed + 1] \in OnList
  <1>1. /\ script.removed \in Nat /\ Len(script.tmpFiles) \in Nat
        /\ script.removed < Len(script.tmpFiles)
    BY DEF IInv, Emptied, Typed
  <1> QED BY <1>1 DEF OnList, ListedFrom

(* Before the trap is set nothing is made; in the trap, what it has not    *)
(* come to stays.                                                          *)
LEMMA InterruptKeeps ==
    ASSUME IInv, Interrupt PROVE IInv'
  <1> USE DEF IInv
  <1>1. command' = command /\ files' = files /\ driver' = NoProcess
    BY DEF Interrupt
  <1>2. IsDriver' /\ driver'.at = "none"
    BY <1>1 DEF IsDriver, NoProcess, Started
  <1>3. CASE script.pc \in Working /\ ExitWith(130)
    <2>1. /\ IsScript' /\ script'.pc = "trap"
          /\ script'.next = script.next /\ script'.args = script.args
          /\ script'.sources = script.sources
          /\ script'.keepIR = script.keepIR /\ script'.emitOnly = script.emitOnly
          /\ script'.tmpFiles = script.tmpFiles /\ script'.removed = script.removed
      BY <1>3 DEF ExitWith, Typed, IsScript
    <2>2. Typed' /\ Child'
      BY <1>1, <1>2, <2>1 DEF Typed, Child, Working
    <2>3. Listed'
      <3>1. script'.next - 1 <= script.next /\ script.next \in Nat
        BY <2>1 DEF Typed
      <3>2. \A i \in DOMAIN script.sources : i <= Reached' => i <= Reached
        BY <2>1, <3>1 DEF Reached, Typed
      <3> QED BY <1>3, <2>1, <3>2, SameList DEF Listed, Lists, Linking
    <2>4. Untouched' /\ Emptied' /\ NothingLeftBehind'
      BY <1>1, <1>3, <2>1, SameFiles, SameList, ChangesOnlyListed DEF Linking, Typed
    <2> QED BY <2>2, <2>3, <2>4
  <1>4. CASE At("options") /\ Stop(130)
    <2>1. /\ IsScript' /\ script'.pc = "stopped"
          /\ script'.next = script.next /\ script'.args = script.args
          /\ script'.sources = script.sources /\ script'.tmpFiles = script.tmpFiles
      BY <1>4 DEF Stop, Typed, IsScript
    <2> QED BY <1>1, <1>2, <2>1 DEF Typed, Child, Listed, Untouched, Emptied, NothingLeftBehind,
                                    At, Working
  <1>5. CASE At("trap") /\ script' = [script EXCEPT !.pc = "killed", !.code = 130]
    <2>1. /\ IsScript' /\ script'.pc = "killed" /\ script.pc = "trap"
          /\ script'.next = script.next /\ script'.args = script.args
          /\ script'.sources = script.sources
          /\ script'.keepIR = script.keepIR /\ script'.emitOnly = script.emitOnly
          /\ script'.tmpFiles = script.tmpFiles /\ script'.removed = script.removed
      BY <1>5 DEF At, Typed, IsScript
    <2>2. Typed' /\ Child' /\ Listed' /\ Untouched' /\ Emptied'
      BY <1>1, <1>2, <2>1 DEF Typed, Child, Listed, Untouched, Emptied, Working
    <2>3. ASSUME Linking, NEW i \in DOMAIN script.sources,
                 NEW f \in Intermediates({script.sources[i]})
          PROVE  \/ ContentOf(f) = Absent
                 \/ i >= script.next /\ ContentOf(f) = Before(f)
                 \/ f \in NotReached
      BY <2>1, <2>3, Remains
    <2>4. NotReached' = NotReached
      BY <2>1 DEF NotReached, ListedFrom
    <2>5. \A f : ContentOf(f)' = ContentOf(f) /\ Before(f)' = Before(f)
      BY <1>1 DEF ContentOf, Before
    <2>6. NothingLeftBehind'
      BY <2>1, <2>3, <2>4, <2>5 DEF NothingLeftBehind, At, Linking, Intermediates
    <2> QED BY <2>2, <2>6
  <1> QED BY <1>3, <1>4, <1>5 DEF Interrupt, Working

(* What is listed is removed, the rest is as it was.                       *)
LEMMA CleanupKeeps ==
    ASSUME IInv, Cleanup PROVE IInv'
  <1> USE DEF IInv
  <1>1. script.pc = "trap" /\ command' = command /\ driver' = driver
    BY DEF Cleanup, At
  <1>2. \A f : Before(f)' = Before(f)
    BY <1>1 DEF Before
  <1>3. CASE /\ script.keepIR \/ script.emitOnly \/ script.removed = Len(script.tmpFiles)
             /\ Then("exited") /\ UNCHANGED files
    <2>1. /\ IsScript' /\ script'.pc = "exited"
          /\ script'.next = script.next /\ script'.args = script.args
          /\ script'.sources = script.sources
          /\ script'.keepIR = script.keepIR /\ script'.emitOnly = script.emitOnly
          /\ script'.tmpFiles = script.tmpFiles /\ script'.removed = script.removed
      BY <1>3 DEF Then, Typed, IsScript
    <2>2. Typed' /\ Child' /\ Listed' /\ Untouched' /\ Emptied'
      BY <1>1, <2>1 DEF Typed, IsDriver, Child, Listed, Untouched, Emptied, Working
    <2>3. ASSUME Linking PROVE NotReached = {}
      <3>1. script.removed = Len(script.tmpFiles) /\ Len(script.tmpFiles) \in Nat
        BY <1>3, <2>3 DEF Linking, Typed
      <3> QED BY <3>1 DEF NotReached, ListedFrom
    <2>4. ASSUME Linking, NEW i \in DOMAIN script.sources,
                 NEW f \in Intermediates({script.sources[i]})
          PROVE  ContentOf(f) = Absent \/ (i >= script.next /\ ContentOf(f) = Before(f))
      BY <1>1, <2>3, <2>4, Remains
    <2>5. NothingLeftBehind'
      BY <1>2, <1>3, <2>1, <2>4, SameFiles DEF NothingLeftBehind, At, Linking, Intermediates
    <2> QED BY <2>2, <2>5
  <1>4. CASE /\ Linking /\ script.removed # Len(script.tmpFiles)
             /\ \E gone :
                   /\ gone = script.tmpFiles[script.removed + 1]
                   /\ files' = [f \in DOMAIN files |-> IF f = gone THEN Absent ELSE files[f]]
             /\ script' = [script EXCEPT !.removed = @ + 1]
    <2> DEFINE k == script.removed
               n == Len(script.tmpFiles)
               gone == script.tmpFiles[k + 1]
    <2>1. /\ IsScript' /\ script'.pc = "trap"
          /\ script'.next = script.next /\ script'.args = script.args
          /\ script'.sources = script.sources
          /\ script'.keepIR = script.keepIR /\ script'.emitOnly = script.emitOnly
          /\ script'.tmpFiles = script.tmpFiles /\ script'.removed = k + 1
      BY <1>1, <1>4 DEF Typed, IsScript
    <2>2. k \in Nat /\ n \in Nat /\ k < n
      BY <1>1, <1>4, NextIsListed
    <2>3. \A f : ContentOf(f)' = IF f = gone THEN Absent ELSE ContentOf(f)
      BY <1>4 DEF ContentOf
    <2>4. gone \in OnList
      BY <1>1, <1>4, NextIsListed
    <2>5. ASSUME NEW f \in NotReached, f # gone PROVE f \in NotReached'
      <3>1. PICK j \in k + 1 .. n : f = script.tmpFiles[j]
        BY DEF NotReached, ListedFrom
      <3>2. j # k + 1
        BY <2>5, <3>1
      <3>3. j \in (k + 1) + 1 .. n
        BY <2>2, <3>1, <3>2
      <3>4. NotReached' = {script.tmpFiles[i] : i \in (k + 1) + 1 .. n}
        BY <2>1 DEF NotReached, ListedFrom
      <3> QED BY <3>1, <3>3, <3>4
    <2>6. Emptied'
      <3>1. OnList' = OnList
        BY <2>1, SameList
      <3>2. \A f \in OnList : f \in NotReached \/ ContentOf(f) = Absent
        BY <1>1, <1>4 DEF Emptied
      <3>3. \A f \in OnList' : f \in NotReached' \/ ContentOf(f)' = Absent
        BY <2>3, <2>5, <3>1, <3>2
      <3>4. script'.removed \in 0 .. Len(script'.tmpFiles)
        BY <2>1, <2>2
      <3> QED BY <2>1, <3>3, <3>4 DEF Emptied, Working
    <2>7. Typed' /\ Child'
      BY <1>1, <2>1 DEF Typed, IsDriver, Child, Working
    <2>8. Listed'
      BY <1>1, <2>1, SameList DEF Listed, Lists, Linking, Reached, Working
    <2>9. Untouched'
      <3>1. OnList' = OnList
        BY <2>1, SameList
      <3>2. \A f : AsBefore(f) => AsBefore(f)'
        BY <1>2, <2>3, <2>4, <3>1 DEF AsBefore
      <3>3. \A i \in DOMAIN script.sources : \A f \in Intermediates({script.sources[i]}) :
               AsBefore(f)
        BY <1>1, <1>4 DEF Untouched
      <3> QED BY <2>1, <3>2, <3>3 DEF Untouched, Intermediates
    <2>10. NothingLeftBehind'
      BY <2>1 DEF NothingLeftBehind, At
    <2> QED BY <2>6, <2>7, <2>8, <2>9, <2>10
  <1> QED BY <1>3, <1>4 DEF Cleanup, Linking

-----------------------------------------------------------------------------
LEMMA Invariance == Spec => []IInv
  <1>1. IInv /\ [Next]_vars => IInv'
    <2> SUFFICES ASSUME IInv, [Next]_vars PROVE IInv'
      OBVIOUS
    <2>1. CASE Step
      BY <2>1, ProcessKeeps, ReadScriptOptionKeeps, FindToolsKeeps, CompileKeeps, CompiledKeeps,
         AssembleKeeps, AllCompiledKeeps, LinkKeeps, CleanupKeeps DEF Step
    <2>2. CASE UNCHANGED vars
      <3>1. script' = script /\ driver' = driver /\ files' = files /\ command' = command
        BY <2>2 DEF vars, driverVars
      <3>2. Typed' /\ Child'
        BY <3>1 DEF IInv, Typed, IsScript, IsDriver, Child, EmitsIR, Stem
      <3>3. OnList' = OnList /\ NotReached' = NotReached
        BY <3>1 DEF OnList, NotReached, ListedFrom
      <3>4. \A f : ContentOf(f)' = ContentOf(f) /\ Before(f)' = Before(f)
        BY <3>1 DEF ContentOf, Before
      <3>5. Listed' /\ Untouched' /\ Emptied'
        BY <3>1, <3>3, <3>4 DEF IInv, Listed, Lists, Reached, Linking, Untouched, AsBefore, Emptied
      <3>6. NothingLeftBehind'
        BY <3>1, <3>3, <3>4 DEF IInv, NothingLeftBehind, At
      <3> QED BY <3>2, <3>5, <3>6 DEF IInv
    <2> QED BY <2>1, <2>2, InterruptKeeps DEF Next
  <1> QED BY InitInvariant, <1>1, PTL DEF Spec

(* Whatever fails, and whenever the script is interrupted: the intermediate*)
(* files that it was not asked to keep are gone or, for the source at hand *)
(* and those behind it, as they were; an interrupted cleanup leaves only   *)
(* files that it had not come to.                                          *)
THEOREM BuildNothingLeftBehind == Spec => []NothingLeftBehind
  <1>1. IInv => NothingLeftBehind
    BY DEF IInv
  <1> QED BY Invariance, <1>1, PTL

-----------------------------------------------------------------------------
(* What is written belongs to a source on the command line or is named by  *)
(* -o there: what is left of the line is an end of it.                     *)
Suffix ==
    LET read == Len(command.line) - Len(script.args)
    IN /\ command.line \in Seq(Word) /\ read >= 0
       /\ \A j \in DOMAIN script.args : script.args[j] = command.line[read + j]

Outs ==
    /\ script.pc \in {"options", "stopped"} => files = command.files
    /\ script.pc = "options" =>
          Suffix /\ script.tmpFiles = <<>> /\ (script.output = NoFile \/ NamedOutput(script.output))
    /\ script.pc \in Working =>
          \/ NamedOutput(script.output)
          \/ script.sources # <<>> /\ script.output = DefaultOutput
    /\ script.pc \in {"assemble", "link"} => ~script.emitOnly
    /\ script.pc # "none" =>
          /\ ~script.emitOnly => \A f \in OnList :
                \E i \in DOMAIN script.sources : f \in Intermediates({script.sources[i]})
          /\ \A f : ContentOf(f) = Before(f) \/ IsOutput(f)

OutInv == IInv /\ Outs

LEMMA NothingListed ==
    /\ script.tmpFiles = <<>> => OnList = {}
    /\ script'.tmpFiles = <<>> => OnList' = {}
  BY DEF OnList, ListedFrom

LEMMA InitOuts == Init => Outs
  <1> SUFFICES ASSUME Init PROVE Outs
    OBVIOUS
  <1>1. CASE \E line \in CompilerLines :
               driver = Started(line, Terminal) /\ script = Begun("none", <<>>)
    <2>1. script.pc = "none"
      BY <1>1 DEF Begun
    <2> QED BY <2>1 DEF Outs, Working
  <1>2. CASE \E line \in ScriptLines :
               /\ driver = NoProcess /\ script = Begun("options", line)
               /\ command = [line |-> line, files |-> files]
    <2>1. PICK line \in ScriptLines :
               /\ driver = NoProcess /\ script = Begun("options", line)
               /\ command = [line |-> line, files |-> files]
      BY <1>2
    <2>2. /\ script.pc = "options" /\ script.args = line /\ script.tmpFiles = <<>>
          /\ script.output = NoFile /\ command.line = line /\ command.files = files
      BY <2>1 DEF Begun
    <2>3. line \in Seq(Word)
      BY LinesAssumption
    <2>4. Suffix
      BY <2>2, <2>3 DEF Suffix
    <2>5. \A f : ContentOf(f) = Before(f)
      BY <2>2 DEF ContentOf, Before
    <2> QED BY <2>2, <2>4, <2>5, NothingListed DEF Outs, Working
  <1> QED BY <1>1, <1>2 DEF Init

(* Behind the options, a step that changes and lists only such files.      *)
LEMMA ChangesOnlyOutputs ==
    ASSUME Outs, script.pc \in Working \cup {"trap"}, command' = command,
           script'.sources = script.sources, script'.emitOnly = script.emitOnly,
           script'.output = script.output,
           script'.pc \in Working \cup {"trap", "exited", "killed"},
           script'.pc \in Working => script.pc \in Working,
           script'.pc \in {"assemble", "link"} => ~script.emitOnly,
           ~script.emitOnly => \A f \in OnList' : f \in OnList \/
               \E i \in DOMAIN script.sources : f \in Intermediates({script.sources[i]}),
           \A f : ContentOf(f)' = ContentOf(f) \/ IsOutput(f)
    PROVE  Outs'
  <1>1. \A f : Before(f)' = Before(f) /\ (NamedOutput(f)' <=> NamedOutput(f))
    BY DEF Before, NamedOutput
  <1>2. \A f : IsOutput(f)' <=> IsOutput(f)
    BY <1>1 DEF IsOutput
  <1>3. DefaultOutput' = DefaultOutput
    BY DEF DefaultOutput
  <1>4. script'.pc \notin {"options", "stopped", "none"} /\ script.pc # "none"
    BY DEF Working
  <1>5. ~script.emitOnly => \A f \in OnList :
           \E i \in DOMAIN script.sources : f \in Intermediates({script.sources[i]})
    BY <1>4 DEF Outs
  <1>6. \A f : ContentOf(f) = Before(f) \/ IsOutput(f)
    BY <1>4 DEF Outs
  <1>7. \A f : ContentOf(f)' = Before(f)' \/ IsOutput(f)'
    BY <1>1, <1>2, <1>6
  <1>8. script'.pc \in Working =>
           \/ NamedOutput(script.output)'
           \/ script'.sources # <<>> /\ (script.output = DefaultOutput)'
    <2>1. NamedOutput(script.output)' <=> NamedOutput(script.output)
      BY DEF NamedOutput
    <2>2. (script.output = DefaultOutput)' <=> script.output = DefaultOutput
      BY <1>3
    <2> QED BY <2>1, <2>2 DEF Outs
  <1>9. ~script'.emitOnly => \A f \in OnList' :
           \E i \in DOMAIN script'.sources : f \in Intermediates({script'.sources[i]})
    BY <1>5
  <1> QED BY <1>4, <1>7, <1>8, <1>9 DEF Outs, Intermediates

(* The files of a source that the script has taken are its outputs.        *)
LEMMA OwnFiles ==
    ASSUME NEW i \in DOMAIN script.sources
    PROVE  /\ IsOutput(LL(script.sources[i]))
           /\ ~script.emitOnly =>
                 IsOutput(Obj(script.sources[i])) /\ IsOutput(<<script.sources[i], "">>)
  BY DEF IsOutput

LEMMA TailOf ==
    ASSUME NEW S, NEW t \in Seq(S), t # <<>>
    PROVE  /\ Tail(t) \in Seq(S) /\ Len(Tail(t)) = Len(t) - 1
           /\ Len(t) \in Nat \ {0} /\ Head(t) = t[1]
           /\ \A j \in DOMAIN Tail(t) : Tail(t)[j] = t[j + 1] /\ j + 1 \in DOMAIN t
  OBVIOUS

LEMMA ReadScriptOptionOuts ==
    ASSUME OutInv, ReadScriptOption PROVE Outs'
  <1>1. /\ script.pc = "options" /\ script.args \in Seq(Word) /\ script.args # <<>>
        /\ files' = files /\ command' = command
    BY DEF ReadScriptOption, driverVars, At, OutInv, IInv, Typed
  <1> DEFINE rest == Tail(script.args)
  <1>2. /\ Suffix /\ files = command.files /\ script.tmpFiles = <<>>
        /\ script.output = NoFile \/ NamedOutput(script.output)
    BY <1>1 DEF OutInv, Outs
  <1>3. /\ rest \in Seq(Word) /\ Len(rest) = Len(script.args) - 1
        /\ Len(script.args) \in Nat \ {0} /\ Head(script.args) = script.args[1]
        /\ \A j \in DOMAIN rest : rest[j] = script.args[j + 1] /\ j + 1 \in DOMAIN script.args
    BY <1>1, TailOf
  <1>4. script.pc = "options" /\ IsScript
    BY <1>1 DEF OutInv, IInv, Typed
  <1>5. CASE script'.pc = "stopped"
    <2>1. script'.tmpFiles = <<>>
      BY <1>2, <1>4, <1>5 DEF ReadScriptOption, Stop, IsScript
    <2>2. \A f : ContentOf(f)' = Before(f)'
      BY <1>1, <1>2 DEF ContentOf, Before
    <2> QED BY <1>1, <1>2, <1>5, <2>1, <2>2, NothingListed DEF Outs, Working
  <1>6. CASE /\ script' = [script EXCEPT !.args = Tail(rest), !.output = Head(rest)]
             /\ rest # <<>> /\ Head(script.args) = Option("-o")
    <2>1. /\ script'.pc = "options" /\ script'.tmpFiles = <<>>
          /\ script'.args = Tail(rest) /\ script'.output = Head(rest)
      BY <1>2, <1>4, <1>6 DEF IsScript
    <2> DEFINE k == Len(command.line) - Len(script.args)
    <2>2. /\ command.line \in Seq(Word) /\ k \in Nat
          /\ \A j \in DOMAIN script.args : script.args[j] = command.line[k + j]
      BY <1>1, <1>2 DEF Suffix
    <2>3. Suffix'
      <3>1. /\ script'.args \in Seq(Word) /\ Len(script'.args) = Len(rest) - 1
            /\ \A j \in DOMAIN script'.args :
                  script'.args[j] = rest[j + 1] /\ j + 1 \in DOMAIN rest
        <4>1. /\ Tail(rest) \in Seq(Word) /\ Len(Tail(rest)) = Len(rest) - 1
              /\ \A j \in DOMAIN Tail(rest) : Tail(rest)[j] = rest[j + 1] /\ j + 1 \in DOMAIN rest
          <5> HIDE DEF rest
          <5> QED BY <1>3, <1>6, TailOf
        <4> QED BY <2>1, <4>1
      <3>2. \A j \in DOMAIN script'.args :
               script'.args[j] = script.args[j + 1 + 1] /\ j + 1 + 1 \in DOMAIN script.args
        BY <1>3, <3>1
      <3> HIDE DEF rest
      <3>3. Len(command'.line) - Len(script'.args) = k + 2
        BY <1>1, <1>3, <2>2, <3>1
      <3> HIDE DEF k
      <3>4. \A j \in DOMAIN script'.args : script'.args[j] = command.line[k + (j + 1 + 1)]
        <4> TAKE j \in DOMAIN script'.args
        <4> DEFINE m == j + 1 + 1
        <4>1. script'.args[j] = script.args[m] /\ m \in DOMAIN script.args
          BY <3>2
        <4> HIDE DEF m
        <4>2. script'.args[j] = command.line[k + m]
          BY <2>2, <4>1
        <4> QED BY <4>2 DEF m
      <3>5. \A j \in DOMAIN script'.args : k + (j + 1 + 1) = (k + 2) + j
        <4>1. \A j \in DOMAIN script'.args : j \in Nat
          BY <3>1
        <4> QED BY <2>2, <4>1
      <3> QED BY <1>1, <2>2, <3>1, <3>3, <3>4, <3>5 DEF Suffix
    <2> HIDE DEF rest, k
    <2>4. /\ k + 2 \in DOMAIN command.line /\ k + 2 > 1
          /\ command.line[k + 2] = Head(rest) /\ command.line[k + 2 - 1] = Option("-o")
      <3>1. Head(rest) = rest[1] /\ 1 \in DOMAIN rest
        BY <1>3, <1>6, TailOf
      <3>2. script.args[2] = Head(rest) /\ script.args[1] = Option("-o")
        BY <1>3, <1>6, <3>1
      <3>3. 1 \in DOMAIN script.args /\ 2 \in DOMAIN script.args
        BY <1>1, <1>3, <3>1
      <3>4. k + 2 <= Len(command.line)
        BY <1>1, <3>3, <2>2 DEF k
      <3> QED BY <2>2, <3>2, <3>3, <3>4
    <2>5. NamedOutput(script.output)'
      <3>1. \E i \in DOMAIN command.line :
               i > 1 /\ command.line[i] = Head(rest) /\ command.line[i - 1] = Option("-o")
        <4> DEFINE i == k + 2
        <4>1. /\ i \in DOMAIN command.line /\ i > 1
              /\ command.line[i] = Head(rest) /\ command.line[i - 1] = Option("-o")
          BY <2>2, <2>4
        <4> HIDE DEF i
        <4> QED BY <4>1
      <3> QED BY <1>1, <2>1, <3>1 DEF NamedOutput, Option
    <2>6. \A f : ContentOf(f)' = Before(f)'
      BY <1>1, <1>2 DEF ContentOf, Before
    <2> QED BY <1>1, <1>2, <2>1, <2>3, <2>5, <2>6, NothingListed DEF Outs, Working
  <1>7. CASE /\ script'.pc = "options" /\ script'.tmpFiles = script.tmpFiles
             /\ script'.args = rest /\ script'.output = script.output
    <2> DEFINE k == Len(command.line) - Len(script.args)
    <2>2. /\ command.line \in Seq(Word) /\ k \in Nat
          /\ \A j \in DOMAIN script.args : script.args[j] = command.line[k + j]
      BY <1>1, <1>2 DEF Suffix
    <2>3. Suffix'
      BY <1>1, <1>3, <1>7, <2>2 DEF Suffix
    <2>5. NamedOutput(script.output) => NamedOutput(script.output)'
      BY <1>1, <1>7 DEF NamedOutput
    <2>6. \A f : ContentOf(f)' = Before(f)'
      BY <1>1, <1>2 DEF ContentOf, Before
    <2> QED BY <1>1, <1>2, <1>7, <2>3, <2>5, <2>6, NothingListed DEF Outs, Working, NoFile
  <1>8. \/ script'.pc = "stopped"
        \/ /\ script' = [script EXCEPT !.args = Tail(rest), !.output = Head(rest)]
           /\ rest # <<>> /\ Head(script.args) = Option("-o")
        \/ /\ script'.pc = "options" /\ script'.tmpFiles = script.tmpFiles
           /\ script'.args = rest /\ script'.output = script.output
    BY <1>4 DEF ReadScriptOption, Stop, IsScript
  <1> QED BY <1>5, <1>6, <1>7, <1>8

LEMMA FindToolsOuts ==
    ASSUME OutInv, FindTools PROVE Outs'
  <1>1. /\ script.pc = "options" /\ IsScript /\ Outs
        /\ files' = files /\ command' = command
    BY DEF FindTools, driverVars, At, OutInv, IInv, Typed
  <1>2. /\ files = command.files /\ script.tmpFiles = <<>>
        /\ script.output = NoFile \/ NamedOutput(script.output)
    BY <1>1 DEF Outs
  <1>3. /\ script'.tmpFiles = <<>>
        /\ \/ script'.pc = "stopped"
           \/ /\ script'.pc = "compile" /\ script'.sources = script.sources
              /\ script.sources # <<>>
              /\ \/ script'.output = DefaultOutput
                 \/ script.output # NoFile /\ script'.output = script.output
    BY <1>1, <1>2 DEF FindTools, Stop, IsScript
  <1>4. NamedOutput(script.output) /\ script'.output = script.output => NamedOutput(script.output)'
    BY <1>1 DEF NamedOutput
  <1>5. script'.sources = script.sources => DefaultOutput' = DefaultOutput
    BY DEF DefaultOutput
  <1>6. \A f : ContentOf(f)' = Before(f)'
    BY <1>1, <1>2 DEF ContentOf, Before
  <1>7. CASE script'.pc = "stopped"
    BY <1>1, <1>2, <1>3, <1>6, <1>7, NothingListed DEF Outs, Working
  <1>8. CASE script'.pc = "compile"
    <2>1. \/ NamedOutput(script.output)'
          \/ script'.sources # <<>> /\ (script.output = DefaultOutput)'
      <3>1. /\ script'.sources = script.sources /\ script.sources # <<>>
            /\ \/ script'.output = DefaultOutput
               \/ NamedOutput(script.output) /\ script'.output = script.output
        BY <1>2, <1>3, <1>8
      <3> QED BY <1>4, <1>5, <3>1
    <2> QED BY <1>3, <1>6, <1>8, <2>1, NothingListed DEF Outs, Working
  <1> QED BY <1>3, <1>7, <1>8

(* The compiler writes to the file that the shell gave it.                 *)
LEMMA ProcessOuts ==
    ASSUME OutInv, Process PROVE Outs'
  <1>1. script' = script /\ command' = command /\ driver.at \notin {"none", "exited"}
    BY DEF Process, DriverStep, ReadOption, ReadFile, Lex, Parse, Analyse, Generate,
           GenerateNothing, Running
  <1>2. script.pc \in {"none", "compiling"}
    BY <1>1 DEF OutInv, IInv, Child
  <1>3. CASE script.pc = "none"
    BY <1>1, <1>3 DEF Outs, Working
  <1>4. CASE script.pc = "compiling"
    <2>1. script.next \in DOMAIN script.sources /\ driver.stdout = LL(Stem) /\ EmitsIR
      BY <1>4 DEF OutInv, IInv, Child
    <2>2. \A f : f # LL(Stem) => ContentOf(f)' = ContentOf(f)
      <3>1. CASE Generate
        <4>1. Asked("--emit-llvm")
          BY <2>1, <3>1 DEF Generate, Running, EmitsIR, Asked
        <4>2. files' = files \/ Write(LL(Stem), IR(driver.input[1]))
          BY <2>1, <3>1, <4>1 DEF Generate, EmitIR
        <4> QED BY <4>2, SameFiles, WriteOne
      <3>2. CASE ~Generate
        BY <3>2, SameFiles DEF Process, DriverStep, ReadOption, ReadFile, Lex, Parse, Analyse,
                               GenerateNothing
      <3> QED BY <3>1, <3>2
    <2>3. IsOutput(LL(Stem))
      BY <2>1, OwnFiles DEF Stem
    <2>4. Outs
      BY DEF OutInv
    <2> QED BY <1>1, <1>4, <2>2, <2>3, <2>4, SameList, ChangesOnlyOutputs DEF Working
  <1> QED BY <1>2, <1>3, <1>4

LEMMA CompileOuts ==
    ASSUME OutInv, Compile PROVE Outs'
  <1>1. /\ script.pc = "compile" /\ command' = command /\ IsScript /\ Outs
        /\ script.next \in DOMAIN script.sources
    BY DEF Compile, At, MoreSources, OutInv, IInv, Typed
  <1>2. /\ script'.pc \in {"compiling", "trap"}
        /\ script'.sources = script.sources /\ script'.emitOnly = script.emitOnly
        /\ script'.output = script.output
        /\ \/ script'.tmpFiles = script.tmpFiles
           \/ script'.tmpFiles = script.tmpFiles \o <<LL(Stem), Obj(Stem)>>
    BY <1>1 DEF Compile, ExitWith, IsScript
  <1>3. \A f : f # LL(Stem) => ContentOf(f)' = ContentOf(f)
    BY WriteOne, SameFiles DEF Compile, driverVars
  <1>4. IsOutput(LL(Stem))
    BY <1>1, OwnFiles DEF Stem
  <1>5. \A f \in OnList' : f \in OnList \/
            \E i \in DOMAIN script.sources : f \in Intermediates({script.sources[i]})
    <2>1. Stem \in STRING /\ script.tmpFiles \in Seq(Names)
      BY <1>1 DEF OutInv, IInv, Typed, Stem
    <2>2. LL(Stem) \in Names /\ Obj(Stem) \in Names
      BY <2>1 DEF Names
    <2>3. OnList' = OnList \/ OnList' = OnList \cup Intermediates({Stem})
      BY <1>2, <2>1, <2>2, SameList, LongerList, IntermediatesOf
    <2> QED BY <1>1, <2>3 DEF Stem
  <1> QED BY <1>1, <1>2, <1>3, <1>4, <1>5, ChangesOnlyOutputs DEF Working

LEMMA CompiledOuts ==
    ASSUME OutInv, Compiled PROVE Outs'
  <1>1. script.pc = "compiling" /\ command' = command /\ files' = files /\ IsScript /\ Outs
    BY DEF Compiled, At, driverVars, OutInv, IInv, Typed
  <1>2. /\ script'.pc \in {"compile", "assemble", "trap"}
        /\ script'.sources = script.sources /\ script'.emitOnly = script.emitOnly
        /\ script'.output = script.output
        /\ ~script.emitOnly => script'.tmpFiles = script.tmpFiles
        /\ script'.pc = "assemble" => ~script.emitOnly
    <2>1. CASE KeepIt /\ script.emitOnly
      BY <1>1, <2>1 DEF KeepIt, IsScript
    <2>2. CASE ExitWith(1)
      BY <1>1, <2>2 DEF ExitWith, IsScript
    <2>3. CASE Then("assemble") /\ ~script.emitOnly
      BY <1>1, <2>3 DEF Then, IsScript
    <2> QED BY <2>1, <2>2, <2>3 DEF Compiled
  <1> QED BY <1>1, <1>2, SameFiles, SameList, ChangesOnlyOutputs DEF Working

LEMMA AssembleOuts ==
    ASSUME OutInv, Assemble PROVE Outs'
  <1>1. /\ script.pc = "assemble" /\ command' = command /\ IsScript /\ Outs
        /\ script.next \in DOMAIN script.sources /\ ~script.emitOnly
    BY DEF Assemble, At, OutInv, Outs, IInv, Typed, Child
  <1>2. /\ script'.pc \in {"compile", "trap"}
        /\ script'.sources = script.sources /\ script'.emitOnly = script.emitOnly
        /\ script'.output = script.output
        /\ script'.tmpFiles = script.tmpFiles
    BY <1>1 DEF Assemble, Fails, ExitWith, IsScript
  <1>3. \A f : f # Obj(Stem) => ContentOf(f)' = ContentOf(f)
    BY WriteOne, SameFiles DEF Assemble, Fails
  <1>4. IsOutput(Obj(Stem))
    BY <1>1, OwnFiles DEF Stem
  <1> QED BY <1>1, <1>2, <1>3, <1>4, SameList, ChangesOnlyOutputs DEF Working

LEMMA AllCompiledOuts ==
    ASSUME OutInv, AllCompiled PROVE Outs'
  <1>1. script.pc = "compile" /\ command' = command /\ files' = files /\ IsScript /\ Outs
    BY DEF AllCompiled, At, driverVars, OutInv, IInv, Typed
  <1>2. /\ script'.pc \in {"link", "trap"}
        /\ script'.sources = script.sources /\ script'.emitOnly = script.emitOnly
        /\ script'.output = script.output
        /\ script'.tmpFiles = script.tmpFiles
        /\ script'.pc = "link" => ~script.emitOnly
    BY <1>1 DEF AllCompiled, ExitWith, Then, IsScript
  <1> QED BY <1>1, <1>2, SameFiles, SameList, ChangesOnlyOutputs DEF Working

(* The output is that of -o or is named after the first source.            *)
LEMMA LinkOuts ==
    ASSUME OutInv, Link PROVE Outs'
  <1>1. /\ script.pc = "link" /\ command' = command /\ IsScript /\ Outs
        /\ ~script.emitOnly /\ script.sources \in Seq(STRING)
        /\ \/ NamedOutput(script.output)
           \/ script.sources # <<>> /\ script.output = DefaultOutput
    BY DEF Link, At, OutInv, Outs, IInv, Typed, Working
  <1>2. /\ script'.pc = "trap"
        /\ script'.sources = script.sources /\ script'.emitOnly = script.emitOnly
        /\ script'.output = script.output
        /\ script'.tmpFiles = script.tmpFiles
    BY <1>1 DEF Link, Fails, ExitWith, IsScript
  <1>3. \A f : f # script.output => ContentOf(f)' = ContentOf(f)
    BY WriteOne, SameFiles DEF Link, Fails
  <1>4. IsOutput(script.output)
    <2>1. CASE NamedOutput(script.output)
      BY <1>1, <2>1 DEF IsOutput
    <2>2. CASE script.sources # <<>> /\ script.output = DefaultOutput
      <3>1. 1 \in DOMAIN script.sources
        BY <1>1, <2>2
      <3> QED BY <1>1, <2>2, <3>1, OwnFiles DEF DefaultOutput
    <2> QED BY <1>1, <2>1, <2>2
  <1> QED BY <1>1, <1>2, <1>3, <1>4, SameList, ChangesOnlyOutputs DEF Working

LEMMA InterruptOuts ==
    ASSUME OutInv, Interrupt PROVE Outs'
  <1>1. command' = command /\ files' = files /\ IsScript /\ Outs
    BY DEF Interrupt, OutInv, IInv, Typed
  <1>2. CASE At("options") /\ Stop(130)
    <2>1. /\ script.pc = "options" /\ script'.pc = "stopped"
          /\ script'.tmpFiles = script.tmpFiles
      BY <1>1, <1>2 DEF At, Stop, IsScript
    <2>2. files = command.files /\ script.tmpFiles = <<>>
      BY <1>1, <2>1 DEF Outs
    <2>3. \A f : ContentOf(f)' = Before(f)'
      BY <1>1, <2>2 DEF ContentOf, Before
    <2> QED BY <1>1, <2>1, <2>2, <2>3, NothingListed DEF Outs, Working
  <1>3. CASE script.pc \in Working \cup {"trap"} /\ script'.pc \in {"trap", "killed"}
    <2>1. /\ script'.sources = script.sources /\ script'.emitOnly = script.emitOnly
          /\ script'.output = script.output
          /\ script'.tmpFiles = script.tmpFiles
      <3>1. CASE ExitWith(130)
        BY <1>1, <3>1 DEF ExitWith, IsScript
      <3>2. CASE script' = [script EXCEPT !.pc = "killed", !.code = 130]
        BY <1>1, <3>2 DEF IsScript
      <3>3. ~At("options")
        BY <1>3 DEF At, Working
      <3> QED BY <3>1, <3>2, <3>3 DEF Interrupt
    <2> QED BY <1>1, <1>3, <2>1, SameFiles, SameList, ChangesOnlyOutputs DEF Working
  <1>4. \/ At("options") /\ Stop(130)
        \/ script.pc \in Working \cup {"trap"} /\ script'.pc \in {"trap", "killed"}
    <2>1. CASE script.pc \in Working /\ ExitWith(130)
      BY <1>1, <2>1 DEF ExitWith, IsScript
    <2>2. CASE script.pc = "trap" /\ script' = [script EXCEPT !.pc = "killed", !.code = 130]
      BY <1>1, <2>2 DEF IsScript
    <2> QED BY <2>1, <2>2 DEF Interrupt, At, Working
  <1> QED BY <1>2, <1>3, <1>4

(* What is removed is listed, and what is listed belongs to a source.      *)
LEMMA CleanupOuts ==
    ASSUME OutInv, Cleanup PROVE Outs'
  <1>1. script.pc = "trap" /\ command' = command /\ IsScript /\ Outs
    BY DEF Cleanup, At, OutInv, IInv, Typed
  <1>2. /\ script'.pc \in {"exited", "trap"}
        /\ script'.sources = script.sources /\ script'.emitOnly = script.emitOnly
        /\ script'.output = script.output
        /\ script'.tmpFiles = script.tmpFiles
    BY <1>1 DEF Cleanup, Then, IsScript
  <1>3. ASSUME NEW f PROVE ContentOf(f)' = ContentOf(f) \/ IsOutput(f)
    <2>1. CASE files' = files
      BY <2>1, SameFiles
    <2>2. CASE /\ ~script.emitOnly /\ script.removed # Len(script.tmpFiles)
               /\ files' = [g \in DOMAIN files |->
                              IF g = script.tmpFiles[script.removed + 1] THEN Absent ELSE files[g]]
      <3>1. script.tmpFiles[script.removed + 1] \in OnList
        BY <1>1, <2>2, NextIsListed DEF OutInv
      <3>2. CASE f # script.tmpFiles[script.removed + 1]
        BY <2>2, <3>2 DEF ContentOf
      <3>3. CASE f = script.tmpFiles[script.removed + 1]
        <4>1. PICK i \in DOMAIN script.sources : f \in Intermediates({script.sources[i]})
          BY <1>1, <2>2, <3>1, <3>3 DEF Outs
        <4> QED BY <2>2, <4>1, IntermediatesOf, OwnFiles
      <3> QED BY <3>2, <3>3
    <2> QED BY <2>1, <2>2 DEF Cleanup
  <1> QED BY <1>1, <1>2, <1>3, SameList, ChangesOnlyOutputs DEF Working

LEMMA OutInvariance == Spec => []OutInv
  <1>1. OutInv /\ [Next]_vars => Outs'
    <2> SUFFICES ASSUME OutInv, [Next]_vars PROVE Outs'
      OBVIOUS
    <2>1. CASE Step
      BY <2>1, ProcessOuts, ReadScriptOptionOuts, FindToolsOuts, CompileOuts, CompiledOuts,
         AssembleOuts, AllCompiledOuts, LinkOuts, CleanupOuts DEF Step
    <2>2. CASE UNCHANGED vars
      <3>1. script' = script /\ command' = command /\ files' = files /\ Outs
        BY <2>2 DEF vars, driverVars, OutInv
      <3>2. (Suffix' <=> Suffix) /\ (NamedOutput(script.output)' <=> NamedOutput(script.output))
        BY <3>1 DEF Suffix, NamedOutput
      <3>3. DefaultOutput' = DefaultOutput
        BY <3>1 DEF DefaultOutput
      <3>4. \A f : ContentOf(f)' = ContentOf(f) /\ Before(f)' = Before(f)
        BY <3>1 DEF ContentOf, Before
      <3>5. \A f : IsOutput(f)' <=> IsOutput(f)
        BY <3>1 DEF IsOutput, NamedOutput
      <3> QED BY <3>1, <3>2, <3>3, <3>4, <3>5, SameList DEF Outs, Intermediates
    <2> QED BY <2>1, <2>2, InterruptOuts DEF Next
  <1>2. Init => Outs
    BY InitOuts
  <1>3. IInv /\ Outs /\ [Next]_vars => Outs'
    BY <1>1 DEF OutInv
  <1>4. []IInv /\ []Outs => []OutInv
    <2>1. IInv /\ Outs => OutInv
      BY DEF OutInv
    <2> QED BY <2>1, PTL
  <1> QED BY <1>2, <1>3, <1>4, Invariance, PTL DEF Spec

(* However the script ends, and at every moment before: each file is as it *)
(* was, belongs to a source on the command line or is named by -o there.   *)
THEOREM BuildOnlyOutputsChange == Spec => []OnlyOutputsChange
  <1>1. OutInv => OnlyOutputsChange
    BY DEF OutInv, Outs, OnlyOutputsChange, ContentOf, At
  <1> QED BY OutInvariance, <1>1, PTL

-----------------------------------------------------------------------------
(* What the compiler prints and returns.  Its verdict is looked at only    *)
(* when the input is a source, at the end and therefore all the time.      *)
Failed == {"literal", "syntax, then literal", "syntax"}

IsSource == ContentOf(driver.input) = Source
Passed(phase) ==
    /\ phase # "lexing" => ~Asked("--lex")
    /\ phase \in {"analysing", "generating"} =>
          ~Asked("--parse") /\ (IsSource => Verdict \notin Failed)
    /\ phase = "generating" =>
          ~Asked("--sema") /\ (IsSource => Verdict # "semantics")

Reports ==
    /\ \/ driver.at \in {"none", "options", "exited"}
       \/ driver.args = <<>> /\ Passed(driver.at)
    /\ driver.at # "exited" => driver.printed = <<>>
    /\ script.objects \in Seq(STRING) /\ hasLLVM \in BOOLEAN
    /\ ErrorsAreReported

ReportInv == IInv /\ Reports

(* The earliest of the stages asked for.                                   *)
LEMMA Least ==
    ASSUME NEW s \in SUBSET Nat, NEW m \in s, \A j \in s : m <= j
    PROVE  (CHOOSE i \in s : \A j \in s : i <= j) = m
  <1> DEFINE c == CHOOSE i \in s : \A j \in s : i <= j
  <1>1. \E i \in s : \A j \in s : i <= j
    OBVIOUS
  <1>2. c \in s /\ \A j \in s : c <= j
    BY <1>1
  <1> HIDE DEF c
  <1>3. c = m
    BY <1>2
  <1> QED BY <1>3 DEF c

LEMMA WantedIs ==
    /\ Asked("--lex") => Wanted = "--lex"
    /\ ~Asked("--lex") /\ Asked("--parse") => Wanted = "--parse"
    /\ ~Asked("--lex") /\ ~Asked("--parse") /\ Asked("--sema") => Wanted = "--sema"
    /\ ~Asked("--lex") /\ ~Asked("--parse") /\ ~Asked("--sema") /\ Asked("--emit-llvm") =>
          Wanted = "--emit-llvm"
    /\ ~Asked("--lex") /\ ~Asked("--parse") /\ ~Asked("--sema") /\ ~Asked("--emit-llvm") =>
          Wanted = "none"
  <1> DEFINE stages == <<"--lex", "--parse", "--sema", "--emit-llvm">>
             asked  == {i \in DOMAIN stages : Option(stages[i]) \in driver.modes}
  <1>1. /\ asked \in SUBSET (1..4)
        /\ 1 \in asked <=> Asked("--lex")
        /\ 2 \in asked <=> Asked("--parse")
        /\ 3 \in asked <=> Asked("--sema")
        /\ 4 \in asked <=> Asked("--emit-llvm")
    BY DEF Asked
  <1>2. Wanted = IF asked = {} THEN "none"
                 ELSE stages[CHOOSE i \in asked : \A j \in asked : i <= j]
    BY DEF Wanted
  <1> HIDE DEF asked
  <1>3. ASSUME NEW m \in asked, \A j \in asked : m <= j PROVE Wanted = stages[m]
    <2>1. asked \in SUBSET Nat /\ asked # {}
      BY <1>1, <1>3
    <2>2. (CHOOSE i \in asked : \A j \in asked : i <= j) = m
      BY <1>3, <2>1, Least
    <2> QED BY <1>2, <2>1, <2>2
  <1>4. CASE 1 \in asked
    <2>1. \A j \in asked : 1 <= j
      BY <1>1
    <2> QED BY <1>1, <1>3, <1>4, <2>1
  <1>5. CASE 1 \notin asked /\ 2 \in asked
    <2>1. \A j \in asked : 2 <= j
      BY <1>1, <1>5
    <2> QED BY <1>1, <1>3, <1>5, <2>1
  <1>6. CASE 1 \notin asked /\ 2 \notin asked /\ 3 \in asked
    <2>1. \A j \in asked : 3 <= j
      BY <1>1, <1>6
    <2> QED BY <1>1, <1>3, <1>6, <2>1
  <1>7. CASE 1 \notin asked /\ 2 \notin asked /\ 3 \notin asked /\ 4 \in asked
    <2>1. \A j \in asked : 4 <= j
      BY <1>1, <1>7
    <2> QED BY <1>1, <1>3, <1>7, <2>1
  <1>8. CASE 1 \notin asked /\ 2 \notin asked /\ 3 \notin asked /\ 4 \notin asked
    <2>1. asked = {}
      BY <1>1, <1>8
    <2> QED BY <1>1, <1>2, <1>8, <2>1
  <1> QED BY <1>4, <1>5, <1>6, <1>7, <1>8

(* No source is made, so that one at the end was one before.               *)
LEMMA NoSourceIsMade ==
    ASSUME NEW w, NEW c, Write(w, c), c # Source
    PROVE  \A f : ContentOf(f)' = Source => ContentOf(f) = Source
  BY DEF Write, ContentOf, Source, Absent

LEMMA OtherContents ==
    /\ \A s : IR(s) # Source /\ Object(s) # Source
    /\ Empty # Source /\ Absent # Source
    /\ \A ss \in Seq(STRING) : Program(ss) # Source
  <1>1. \A s : IR(s) # Source /\ Object(s) # Source
    BY DEF IR, Object, Source
  <1>2. Empty # Source /\ Absent # Source
    BY DEF Empty, Absent, Source
  <1>3. ASSUME NEW ss \in Seq(STRING), Program(ss) = Source PROVE FALSE
    <2>1. Program(ss)[1] = "program"
      BY DEF Program
    <2> QED BY <1>3, <2>1 DEF Source
  <1> QED BY <1>1, <1>2, <1>3

(* A step that leaves the compiler alone.                                  *)
LEMMA CompilerStays ==
    ASSUME Reports, driver' = driver, UNCHANGED context,
           script'.objects \in Seq(STRING),
           \A f : ContentOf(f)' = Source => ContentOf(f) = Source
    PROVE  Reports'
  <1>1. (Wanted' = Wanted) /\ (\A mode : Asked(mode)' <=> Asked(mode))
    BY DEF Wanted, Asked
  <1>2. \A mode : Reported(mode)' = Reported(mode) /\ Result(mode)' = Result(mode)
    BY DEF Reported, Result, context
  <1>3. IsSource' => IsSource /\ Verdict' = Verdict
    BY DEF IsSource, Verdict, context, ContentOf, Source, Absent
  <1>4. ErrorsAreReported'
    BY <1>1, <1>2, <1>3 DEF Reports, ErrorsAreReported, IsSource
  <1>5. \A phase : Passed(phase) => Passed(phase)'
    BY <1>1, <1>3, Zenon DEF Passed
  <1> QED BY <1>4, <1>5 DEF Reports, context

LEMMA Fresh ==
    ASSUME NEW args, NEW to
    PROVE  /\ Started(args, to).at = "options" /\ Started(args, to).printed = <<>>
           /\ NoProcess.at = "none" /\ NoProcess.printed = <<>>
  <1>1. Started(args, to).at = "options" /\ Started(args, to).printed = <<>>
    BY Zenon DEF Started
  <1>2. NoProcess.at = "none" /\ NoProcess.printed = <<>>
    BY DEF NoProcess, Started
  <1> QED BY <1>1, <1>2

(* The compiler fails, delivers, or goes on.                               *)
SameRun == /\ driver'.input = driver.input /\ driver'.modes = driver.modes
           /\ driver'.args = driver.args
           /\ UNCHANGED <<script, context>>
           /\ \A f : ContentOf(f)' = Source => ContentOf(f) = Source

LEMMA SameRunKeeps ==
    ASSUME SameRun
    PROVE  /\ Wanted' = Wanted /\ \A mode : Asked(mode)' <=> Asked(mode)
           /\ \A mode : Reported(mode)' = Reported(mode) /\ Result(mode)' = Result(mode)
           /\ IsSource' => IsSource /\ Verdict' = Verdict
  <1>1. Wanted' = Wanted /\ \A mode : Asked(mode)' <=> Asked(mode)
    BY DEF SameRun, Wanted, Asked
  <1>2. \A mode : Reported(mode)' = Reported(mode) /\ Result(mode)' = Result(mode)
    BY DEF SameRun, Reported, Result, context
  <1>3. IsSource' => IsSource /\ Verdict' = Verdict
    BY DEF SameRun, IsSource, Verdict, context, ContentOf, Source, Absent
  <1> QED BY <1>1, <1>2, <1>3

LEMMA CompilerFails ==
    ASSUME Reports, SameRun, driver'.at = "exited", driver'.code # 0, driver'.printed = <<>>
    PROVE  Reports'
  BY DEF Reports, SameRun, ErrorsAreReported, context

LEMMA CompilerDelivers ==
    ASSUME Reports, SameRun, driver'.at = "exited", driver'.code = 0,
           driver'.printed = Result(Wanted), IsSource => Verdict \notin Reported(Wanted)
    PROVE  Reports'
  <1>1. ErrorsAreReported'
    BY SameRunKeeps DEF ErrorsAreReported, IsSource
  <1> QED BY <1>1 DEF Reports, SameRun, context

LEMMA CompilerGoesOn ==
    ASSUME Reports, SameRun, driver'.at # "exited", driver'.args = <<>>,
           driver'.printed = driver.printed, driver.at # "exited", Passed(driver'.at)
    PROVE  Reports'
  <1>1. Passed(driver.at)'
    BY SameRunKeeps DEF Passed
  <1> QED BY <1>1 DEF Reports, SameRun, ErrorsAreReported, context

LEMMA ProcessReports ==
    ASSUME ReportInv, Process PROVE Reports'
  <1>1. Reports /\ IsDriver /\ script' = script
    BY DEF ReportInv, IInv, Typed, Process
  <1>2. CASE ReadOption
    <2>1. /\ driver.at = "options" /\ driver.args # <<>> /\ UNCHANGED <<files, context>>
          /\ driver.printed = <<>>
      BY <1>1, <1>2 DEF ReadOption, Running, Reports
    <2>2. /\ driver'.printed = <<>>
          /\ \/ driver'.at = "options"
             \/ driver'.at = "exited" /\ driver'.args = driver.args
      BY <1>1, <1>2, <2>1 DEF ReadOption, Exit, IsDriver
    <2> QED BY <1>1, <2>1, <2>2 DEF Reports, ErrorsAreReported, context
  <1>3. CASE ReadFile
    <2>1. /\ driver.at = "options" /\ driver.args = <<>> /\ UNCHANGED <<files, context>>
          /\ driver.printed = <<>>
      BY <1>1, <1>3 DEF ReadFile, Running, Reports
    <2>2. CASE ContentOf(driver.input) = Absent /\ Exit(1)
      <3>1. /\ driver'.at = "exited" /\ driver'.code # 0 /\ driver'.printed = <<>>
            /\ SameRun
        BY <1>1, <2>1, <2>2, SameFiles DEF Exit, IsDriver, SameRun
      <3> QED BY <1>1, <3>1, CompilerFails
    <2>3. CASE GoTo("lexing")
      <3>1. /\ driver'.at = "lexing" /\ driver'.args = <<>> /\ driver'.printed = driver.printed
            /\ SameRun
        BY <1>1, <2>1, <2>3, SameFiles DEF GoTo, IsDriver, SameRun
      <3> QED BY <1>1, <2>1, <3>1, CompilerGoesOn DEF Passed
    <2> QED BY <1>3, <2>2, <2>3 DEF ReadFile
  <1>4. CASE Lex
    <2>1. /\ driver.at = "lexing" /\ driver.args = <<>> /\ UNCHANGED <<files, context>>
          /\ driver.printed = <<>>
      BY <1>1, <1>4 DEF Lex, Running, Reports
    <2>2. CASE GoTo("parsing") /\ ~Asked("--lex")
      <3>1. /\ driver'.at = "parsing" /\ driver'.args = <<>> /\ driver'.printed = driver.printed
            /\ SameRun
        BY <1>1, <2>1, <2>2, SameFiles DEF GoTo, IsDriver, SameRun
      <3> QED BY <1>1, <2>1, <2>2, <3>1, CompilerGoesOn DEF Passed
    <2>3. CASE Abort
      <3>1. /\ driver'.at = "exited" /\ driver'.code # 0 /\ driver'.printed = <<>>
            /\ SameRun
        BY <1>1, <2>1, <2>3, SameFiles DEF Abort, Exit, IsDriver, SameRun
      <3> QED BY <1>1, <3>1, CompilerFails
    <2>4. CASE /\ ExitPrinting(<<"tokens">>) /\ Asked("--lex")
               /\ Verdict \notin {"literal", "syntax, then literal"}
      <3>1. /\ driver'.at = "exited" /\ driver'.code = 0 /\ driver'.printed = <<"tokens">>
            /\ SameRun
        BY <1>1, <2>1, <2>4, SameFiles DEF ExitPrinting, IsDriver, SameRun
      <3>2. Wanted = "--lex"
        BY <2>4, WantedIs
      <3>3. Result(Wanted) = <<"tokens">> /\ Verdict \notin Reported(Wanted)
        BY <2>4, <3>2 DEF Result, Reported
      <3> QED BY <1>1, <3>1, <3>3, CompilerDelivers
    <2> QED BY <1>4, <2>2, <2>3, <2>4 DEF Lex
  <1>5. CASE Parse
    <2>1. /\ driver.at = "parsing" /\ driver.args = <<>> /\ UNCHANGED <<files, context>>
          /\ driver.printed = <<>> /\ ~Asked("--lex")
      BY <1>1, <1>5 DEF Parse, Running, Reports, Passed
    <2>2. CASE GoTo("analysing") /\ ~Asked("--parse") /\ Verdict \notin Failed
      <3>1. /\ driver'.at = "analysing" /\ driver'.args = <<>> /\ driver'.printed = driver.printed
            /\ SameRun
        BY <1>1, <2>1, <2>2, SameFiles DEF GoTo, IsDriver, SameRun
      <3> QED BY <1>1, <2>1, <2>2, <3>1, CompilerGoesOn DEF Passed
    <2>3. ASSUME NEW code \in {1, 134}, Exit(code) PROVE Reports'
      <3>1. /\ driver'.at = "exited" /\ driver'.code # 0 /\ driver'.printed = <<>>
            /\ SameRun
        BY <1>1, <2>1, <2>3, SameFiles DEF Exit, IsDriver, SameRun
      <3> QED BY <1>1, <3>1, CompilerFails
    <2>4. CASE ExitPrinting(<<"parsed">>) /\ Asked("--parse") /\ Verdict \notin Failed
      <3>1. /\ driver'.at = "exited" /\ driver'.code = 0 /\ driver'.printed = <<"parsed">>
            /\ SameRun
        BY <1>1, <2>1, <2>4, SameFiles DEF ExitPrinting, IsDriver, SameRun
      <3>2. Wanted = "--parse"
        BY <2>1, <2>4, WantedIs
      <3>3. Result(Wanted) = <<"parsed">> /\ Verdict \notin Reported(Wanted)
        BY <2>4, <3>2 DEF Result, Reported, Failed
      <3> QED BY <1>1, <3>1, <3>3, CompilerDelivers
    <2> QED BY <1>5, <2>2, <2>3, <2>4 DEF Parse, Failed, Abort
  <1>6. CASE Analyse
    <2>1. /\ driver.at = "analysing" /\ driver.args = <<>> /\ UNCHANGED <<files, context>>
          /\ driver.printed = <<>> /\ ~Asked("--lex") /\ ~Asked("--parse")
          /\ IsSource => Verdict \notin Failed
      BY <1>1, <1>6 DEF Analyse, Running, Reports, Passed
    <2>2. CASE GoTo("generating") /\ ~Asked("--sema") /\ Verdict # "semantics"
      <3>1. /\ driver'.at = "generating" /\ driver'.args = <<>> /\ driver'.printed = driver.printed
            /\ SameRun
        BY <1>1, <2>1, <2>2, SameFiles DEF GoTo, IsDriver, SameRun
      <3> QED BY <1>1, <2>1, <2>2, <3>1, CompilerGoesOn DEF Passed
    <2>3. CASE Exit(1)
      <3>1. /\ driver'.at = "exited" /\ driver'.code # 0 /\ driver'.printed = <<>>
            /\ SameRun
        BY <1>1, <2>1, <2>3, SameFiles DEF Exit, IsDriver, SameRun
      <3> QED BY <1>1, <3>1, CompilerFails
    <2>4. CASE ExitPrinting(<<"analysed">>) /\ Asked("--sema") /\ Verdict # "semantics"
      <3>1. /\ driver'.at = "exited" /\ driver'.code = 0 /\ driver'.printed = <<"analysed">>
            /\ SameRun
        BY <1>1, <2>1, <2>4, SameFiles DEF ExitPrinting, IsDriver, SameRun
      <3>2. Wanted = "--sema"
        BY <2>1, <2>4, WantedIs
      <3>3. Result(Wanted) = <<"analysed">> /\ (IsSource => Verdict \notin Reported(Wanted))
        BY <2>1, <2>4, <3>2 DEF Result, Reported, Failed
      <3> QED BY <1>1, <3>1, <3>3, CompilerDelivers
    <2> QED BY <1>6, <2>2, <2>3, <2>4 DEF Analyse
  <1>7. CASE Generate \/ GenerateNothing
    <2>1. /\ driver.at = "generating" /\ driver.args = <<>> /\ UNCHANGED context
          /\ driver.printed = <<>>
          /\ ~Asked("--lex") /\ ~Asked("--parse") /\ ~Asked("--sema")
          /\ IsSource => Verdict \notin Failed \cup {"semantics"}
      BY <1>1, <1>7 DEF Generate, GenerateNothing, Running, Reports, Passed
    <2>2. \A f : ContentOf(f)' = Source => ContentOf(f) = Source
      BY <1>7, SameFiles, NoSourceIsMade, OtherContents
         DEF Generate, GenerateNothing, EmitIR, WriteObject
    <2>3. CASE Exit(1)
      <3>1. /\ driver'.at = "exited" /\ driver'.code # 0 /\ driver'.printed = <<>>
            /\ SameRun
        BY <1>1, <2>1, <2>2, <2>3 DEF Exit, IsDriver, SameRun
      <3> QED BY <1>1, <3>1, CompilerFails
    <2>4. ASSUME NEW text, ExitPrinting(text), text = Result(Wanted),
                 Verdict = "generation" => ~hasLLVM /\ Wanted = "none",
                 Wanted = "--emit-llvm" => hasLLVM,
                 Wanted \in {"--emit-llvm", "none"}
          PROVE  Reports'
      <3>1. /\ driver'.at = "exited" /\ driver'.code = 0 /\ driver'.printed = text
            /\ SameRun
        BY <1>1, <2>1, <2>2, <2>4 DEF ExitPrinting, IsDriver, SameRun
      <3>2. IsSource => Verdict \notin Reported(Wanted)
        BY <2>1, <2>4 DEF Reported, Failed, Verdicts
      <3> QED BY <1>1, <2>4, <3>1, <3>2, CompilerDelivers
    <2>5. CASE Generate
      <3>1. CASE EmitIR /\ Asked("--emit-llvm") /\ Verdict # "generation"
        <4>1. Wanted = "--emit-llvm" /\ hasLLVM
          BY <2>1, <2>5, <3>1, WantedIs DEF Generate
        <4>2. ExitPrinting(Result(Wanted))
          BY <3>1, <4>1 DEF EmitIR, Result
        <4> QED BY <2>4, <3>1, <4>1, <4>2
      <3>2. CASE WriteObject /\ ~Asked("--emit-llvm") /\ Verdict # "generation"
        <4>1. Wanted = "none" /\ hasLLVM
          BY <2>1, <2>5, <3>2, WantedIs DEF Generate
        <4>2. Exit(1) \/ ExitPrinting(Result(Wanted))
          BY <3>2, <4>1 DEF WriteObject, Result
        <4> QED BY <2>3, <2>4, <3>2, <4>1, <4>2
      <3> QED BY <2>3, <2>5, <3>1, <3>2 DEF Generate
    <2>6. CASE GenerateNothing
      <3>1. CASE ExitPrinting(<<"compiled">>) /\ ~Asked("--emit-llvm")
        <4>1. Wanted = "none" /\ ~hasLLVM
          BY <2>1, <2>6, <3>1, WantedIs DEF GenerateNothing
        <4>2. ExitPrinting(Result(Wanted))
          BY <3>1, <4>1 DEF Result
        <4> QED BY <2>4, <4>1, <4>2
      <3> QED BY <2>3, <2>6, <3>1 DEF GenerateNothing
    <2> QED BY <1>7, <2>5, <2>6
  <1> QED BY <1>2, <1>3, <1>4, <1>5, <1>6, <1>7 DEF Process, DriverStep

LEMMA InitReports == Init => Reports
  <1> SUFFICES ASSUME Init PROVE Reports
    OBVIOUS
  <1>1. hasLLVM \in BOOLEAN
    BY DEF Init
  <1>2. /\ driver = NoProcess \/ \E line : driver = Started(line, Terminal)
        /\ \E pc, line : script = Begun(pc, line)
    <2>1. CASE \E line \in CompilerLines :
                 driver = Started(line, Terminal) /\ script = Begun("none", <<>>)
      BY <2>1
    <2>2. CASE \E line \in ScriptLines : driver = NoProcess /\ script = Begun("options", line)
      BY <2>2
    <2> QED BY <2>1, <2>2 DEF Init
  <1>3. driver.at \in {"options", "none"} /\ driver.printed = <<>>
    BY <1>2, Fresh
  <1>4. script.objects = <<>>
    BY <1>2 DEF Begun
  <1> QED BY <1>1, <1>3, <1>4 DEF Reports, ErrorsAreReported

(* The script starts the compiler anew or leaves it alone.                 *)
LEMMA ScriptReports ==
    ASSUME ReportInv,
           ReadScriptOption \/ FindTools \/ Compile \/ Compiled \/ Assemble \/ AllCompiled
           \/ Link \/ Cleanup \/ Interrupt
    PROVE  Reports'
  <1>1. Reports /\ IsScript /\ script.objects \in Seq(STRING) /\ script.sources \in Seq(STRING)
    BY DEF ReportInv, Reports, IInv, Typed
  <1>2. UNCHANGED context
    BY DEF ReadScriptOption, FindTools, Compile, Compiled, Assemble, AllCompiled, Link, Cleanup,
           Interrupt, driverVars, context
  <1>3. script'.objects \in Seq(STRING)
    <2>1. CASE ReadScriptOption
      <3>1. script'.objects = script.objects
        BY <1>1, <2>1 DEF ReadScriptOption, Stop, IsScript
      <3> QED BY <1>1, <3>1
    <2>2. CASE FindTools \/ Compile \/ Compiled
      <3>1. script'.objects = script.objects
        BY <1>1, <2>2 DEF FindTools, Stop, Compile, Compiled, KeepIt, ExitWith, Then, IsScript
      <3> QED BY <1>1, <3>1
    <2>3. CASE AllCompiled \/ Link \/ Cleanup \/ Interrupt
      <3>1. CASE AllCompiled
        BY <1>1, <3>1 DEF AllCompiled, ExitWith, Then, IsScript
      <3>2. CASE Link
        <4>1. ExitWith(0) \/ ExitWith(1)
          BY <3>2 DEF Link, Fails
        <4>2. CASE ExitWith(0)
          BY <1>1, <4>2 DEF ExitWith, IsScript
        <4>3. CASE ExitWith(1)
          BY <1>1, <4>3 DEF ExitWith, IsScript
        <4> QED BY <4>1, <4>2, <4>3
      <3>3. CASE Cleanup
        <4>1. \/ Then("exited")
              \/ script' = [script EXCEPT !.removed = @ + 1]
          BY <3>3 DEF Cleanup
        <4>2. CASE Then("exited")
          BY <1>1, <4>2 DEF Then, IsScript
        <4>3. CASE script' = [script EXCEPT !.removed = @ + 1]
          BY <1>1, <4>3 DEF IsScript
        <4> QED BY <4>1, <4>2, <4>3
      <3>4. CASE Interrupt
        <4>1. \/ Stop(130) \/ ExitWith(130)
              \/ script' = [script EXCEPT !.pc = "killed", !.code = 130]
          BY <3>4 DEF Interrupt
        <4>2. CASE Stop(130)
          BY <1>1, <4>2 DEF Stop, IsScript
        <4>3. CASE ExitWith(130)
          BY <1>1, <4>3 DEF ExitWith, IsScript
        <4>4. CASE script' = [script EXCEPT !.pc = "killed", !.code = 130]
          BY <1>1, <4>4 DEF IsScript
        <4> QED BY <4>1, <4>2, <4>3, <4>4
      <3> QED BY <2>3, <3>1, <3>2, <3>3, <3>4
    <2>4. CASE Assemble
      <3>1. Stem \in STRING
        BY <1>1, <2>4 DEF Assemble, At, ReportInv, IInv, Child, Stem
      <3>2. script'.objects = script.objects \/ script'.objects = Append(script.objects, Stem)
        <4>1. CASE ExitWith(1)
          BY <1>1, <4>1 DEF ExitWith, IsScript
        <4>2. CASE script' = [script EXCEPT !.pc = "compile", !.next = @ + 1,
                                            !.objects = Append(@, Stem)]
          BY <1>1, <4>2 DEF IsScript
        <4> QED BY <2>4, <4>1, <4>2 DEF Assemble, Fails
      <3>3. Append(script.objects, Stem) \in Seq(STRING)
        BY <1>1, <3>1
      <3> QED BY <1>1, <3>2, <3>3
    <2> QED BY <2>1, <2>2, <2>3, <2>4
  <1>4. \A f : ContentOf(f)' = Source => ContentOf(f) = Source
    <2>1. CASE ReadScriptOption \/ FindTools \/ Compiled \/ AllCompiled \/ Interrupt
      BY <2>1, SameFiles DEF ReadScriptOption, FindTools, Compiled, AllCompiled, Interrupt,
                             driverVars
    <2>2. CASE Compile \/ Assemble \/ Link
      BY <1>1, <2>2, SameFiles, NoSourceIsMade, OtherContents
         DEF Compile, Assemble, Link, Fails, driverVars, ReportInv, Reports
    <2>3. CASE Cleanup
      BY <2>3, OtherContents DEF Cleanup, ContentOf
    <2> QED BY <2>1, <2>2, <2>3
  <1>5. CASE driver' = driver
    BY <1>1, <1>2, <1>3, <1>4, <1>5, CompilerStays
  <1>6. CASE driver' = NoProcess \/ \E args, to : driver' = Started(args, to)
    <2>1. driver'.at \in {"options", "none"} /\ driver'.printed = <<>>
      BY <1>6, Fresh
    <2> QED BY <1>1, <1>2, <1>3, <2>1 DEF Reports, ErrorsAreReported, context
  <1> QED BY <1>5, <1>6 DEF ReadScriptOption, FindTools, Compile, Compiled, Assemble, AllCompiled,
                            Link, Cleanup, Interrupt, driverVars

LEMMA ReportInvariance == Spec => []Reports
  <1>1. IInv /\ Reports /\ [Next]_vars => Reports'
    <2> SUFFICES ASSUME IInv, Reports, [Next]_vars PROVE Reports'
      OBVIOUS
    <2>1. CASE UNCHANGED vars
      <3>1. driver' = driver /\ script' = script /\ files' = files /\ UNCHANGED context
        BY <2>1 DEF vars, driverVars, context
      <3> QED BY <3>1, SameFiles, CompilerStays DEF Reports
    <2> QED BY <2>1, ProcessReports, ScriptReports DEF ReportInv, Next, Step
  <1> QED BY InitReports, <1>1, Invariance, PTL DEF Spec

(* Whatever the options, their order and the state of the file: the result *)
(* of the earliest stage asked for and exit code 0, or no result and       *)
(* another code.                                                           *)
THEOREM BuildErrorsAreReported == Spec => []ErrorsAreReported
  <1>1. Reports => ErrorsAreReported
    BY DEF Reports
  <1> QED BY ReportInvariance, <1>1, PTL

-----------------------------------------------------------------------------
(* What the script has when it reports success.  While it compiles a       *)
(* source, the compiler is on its way from the words it was given to the   *)
(* text in the file, and can only leave it with an error.                  *)
Emitted(s) == ContentOf(LL(s)) = IR(s)

Run ==
    LET emit == Option("--emit-llvm") IN
    \/ driver.at = "options" /\ driver.args = <<emit, Src(Stem)>> /\ driver.modes = {}
    \/ driver.at = "options" /\ driver.args = <<Src(Stem)>> /\ driver.modes = {emit}
    \/ /\ driver.at = "options" /\ driver.args = <<>> /\ driver.modes = {emit}
       /\ driver.input = Src(Stem)
    \/ /\ driver.at \in {"lexing", "parsing", "analysing", "generating"}
       /\ driver.modes = {emit} /\ driver.input = Src(Stem)
    \/ driver.at = "exited" /\ (driver.code # 0 \/ Emitted(Stem))

(* The sources behind which the script is have been emitted (those of the  *)
(* stem that is being compiled are about to be again), or assembled.       *)
Behind ==
    /\ script.emitOnly =>
          \A i \in DOMAIN script.sources : i < script.next =>
              \/ Emitted(script.sources[i])
              \/ script.pc = "compiling" /\ script.sources[i] = Stem
    /\ ~script.emitOnly =>
          /\ script.next <= Len(script.sources) + 1
          /\ Len(script.objects) = script.next - 1
          /\ \A i \in DOMAIN script.objects : script.objects[i] = script.sources[i]

Delivered == IF script.emitOnly
             THEN \A i \in DOMAIN script.sources : Emitted(script.sources[i])
             ELSE ContentOf(script.output) = Program(script.sources)

(* An output that is named like an intermediate file goes with it.         *)
Removable == Linking /\ script.output \in OnList

Complete ==
    /\ script.pc = "options" => script.objects = <<>>
    /\ script.pc = "compiling" => Run
    /\ script.pc \in Working => Behind
    /\ script.pc = "link" => ~script.emitOnly /\ script.next > Len(script.sources)
    /\ script.pc = "assemble" => ~script.emitOnly
    /\ script.pc = "trap" /\ script.code = 0 => Delivered \/ Removable
    /\ SuccessIsComplete

CompleteInv == IInv /\ Reports /\ Complete

LEMMA InitComplete == Init => Complete
  <1>1. SUFFICES ASSUME Init PROVE Complete
    OBVIOUS
  <1>2. \E pc \in {"none", "options"} : \E line : script = Begun(pc, line)
    <2>1. CASE \E line \in CompilerLines :
                 driver = Started(line, Terminal) /\ script = Begun("none", <<>>)
      BY <2>1
    <2>2. CASE \E line \in ScriptLines : driver = NoProcess /\ script = Begun("options", line)
      BY <2>2
    <2> QED BY <1>1, <2>1, <2>2 DEF Init
  <1>3. script.pc \in {"none", "options"} /\ script.objects = <<>>
    BY <1>2 DEF Begun
  <1> QED BY <1>3 DEF Complete, SuccessIsComplete, At, Working

(* Steps that leave everything but the place in the script alone, or end   *)
(* it with an error.                                                       *)
LEMMA FailureIsComplete ==
    ASSUME script'.pc \in {"trap", "stopped", "killed"}, script'.code # 0
    PROVE  Complete'
  BY DEF Complete, SuccessIsComplete, At, Working

LEMMA OptionsComplete ==
    ASSUME CompleteInv, ReadScriptOption \/ FindTools
    PROVE  Complete'
  <1>1. /\ IsScript /\ script.pc = "options" /\ script.objects = <<>> /\ script.next = 1
        /\ script.sources \in Seq(STRING)
    BY DEF CompleteInv, IInv, Typed, Complete, ReadScriptOption, FindTools, At, Listed
  <1>2. CASE ReadScriptOption
    <2>1. script'.objects = <<>> /\ script'.pc \in {"options", "stopped"}
      BY <1>1, <1>2 DEF ReadScriptOption, Stop, IsScript
    <2> QED BY <2>1 DEF Complete, SuccessIsComplete, At, Working
  <1>3. CASE FindTools
    <2>1. /\ script'.objects = <<>> /\ script'.pc \in {"compile", "stopped"}
          /\ script'.sources = script.sources /\ script'.next = 1
          /\ script'.emitOnly = script.emitOnly
      BY <1>1, <1>3 DEF FindTools, Stop, IsScript
    <2>2. Behind'
      BY <1>1, <2>1 DEF Behind
    <2> QED BY <2>1, <2>2 DEF Complete, SuccessIsComplete, At, Working
  <1> QED BY <1>2, <1>3

(* The compiler, called by the script.                                     *)
LEMMA CompilerRuns ==
    ASSUME IInv, Run, Process, script.pc = "compiling"
    PROVE  Run' /\ \A f : f # LL(Stem) => ContentOf(f)' = ContentOf(f)
  <1> DEFINE emit == Option("--emit-llvm")
  <1>1. IsDriver /\ script' = script /\ Stem' = Stem /\ driver.stdout = LL(Stem)
    BY DEF IInv, Typed, Child, Process, Stem
  <1>2. /\ emit \in Modes /\ Src(Stem) \notin Modes /\ Src(Stem)[2] = "pl11"
        /\ Src(Stem) # Option("-o") /\ Src(Stem) # Option("-h")
        /\ Src(Stem)[1] = Stem
    BY DEF Option, Modes, Src
  <1>3. CASE ReadOption
    <2>1. driver.at = "options" /\ driver.args # <<>> /\ files' = files
      BY <1>3 DEF ReadOption, Running
    <2>2. CASE driver.args = <<emit, Src(Stem)>> /\ driver.modes = {}
      <3>1. Head(driver.args) = emit /\ Tail(driver.args) = <<Src(Stem)>>
        BY <2>2
      <3>2. driver' = [driver EXCEPT !.args = Tail(driver.args),
                                     !.modes = @ \cup {Head(driver.args)}]
        BY <1>2, <1>3, <3>1 DEF ReadOption, Option
      <3>3. driver'.at = "options" /\ driver'.args = <<Src(Stem)>> /\ driver'.modes = {emit}
        BY <1>1, <2>1, <2>2, <3>1, <3>2 DEF IsDriver
      <3> QED BY <1>1, <2>1, <3>3, SameFiles DEF Run
    <2>3. CASE driver.args = <<Src(Stem)>> /\ driver.modes = {emit}
      <3>1. Head(driver.args) = Src(Stem) /\ Tail(driver.args) = <<>>
        BY <2>3
      <3>2. driver' = [driver EXCEPT !.args = <<>>, !.input = Src(Stem)]
        BY <1>2, <1>3, <3>1 DEF ReadOption
      <3>3. /\ driver'.at = "options" /\ driver'.args = <<>> /\ driver'.modes = {emit}
            /\ driver'.input = Src(Stem)
        BY <1>1, <2>1, <2>3, <3>2 DEF IsDriver
      <3> QED BY <1>1, <2>1, <3>3, SameFiles DEF Run, Src
    <2> QED BY <2>1, <2>2, <2>3 DEF Run
  <1>4. ASSUME driver.at # "options" \/ driver.args = <<>>, driver.at # "exited"
        PROVE  driver.modes = {emit} /\ driver.input = Src(Stem)
    BY <1>4 DEF Run
  <1>5. CASE ReadFile \/ Lex \/ Parse \/ Analyse
    <2>1. /\ driver.modes = {emit} /\ driver.input = Src(Stem) /\ files' = files
          /\ driver.at # "exited"
      BY <1>4, <1>5 DEF ReadFile, Lex, Parse, Analyse, Running
    <2>2. ~Asked("--lex") /\ ~Asked("--parse") /\ ~Asked("--sema")
      BY <2>1 DEF Asked, Option
    <2>3. \/ /\ driver'.at \in {"lexing", "parsing", "analysing", "generating"}
             /\ driver'.modes = driver.modes /\ driver'.input = driver.input
          \/ driver'.at = "exited" /\ driver'.code # 0
      <3>1. \/ \E phase \in {"lexing", "parsing", "analysing", "generating"} : GoTo(phase)
            \/ \E code \in {1, 134} : Exit(code)
        BY <1>5, <2>2 DEF ReadFile, Lex, Parse, Analyse, Abort
      <3>2. CASE \E phase \in {"lexing", "parsing", "analysing", "generating"} : GoTo(phase)
        BY <1>1, <3>2 DEF GoTo, IsDriver
      <3>3. CASE \E code \in {1, 134} : Exit(code)
        BY <1>1, <3>3 DEF Exit, IsDriver
      <3> QED BY <3>1, <3>2, <3>3
    <2> QED BY <1>1, <2>1, <2>3, SameFiles DEF Run, Src
  <1>6. CASE Generate \/ GenerateNothing
    <2>1. /\ driver.modes = {emit} /\ driver.input = Src(Stem) /\ Asked("--emit-llvm")
      BY <1>4, <1>6 DEF Generate, GenerateNothing, Running, Asked
    <2>2. CASE Exit(1) /\ files' = files
      <3>1. driver'.at = "exited" /\ driver'.code # 0
        BY <1>1, <2>2 DEF Exit, IsDriver
      <3> QED BY <2>2, <3>1, SameFiles DEF Run
    <2>3. CASE EmitIR
      <3>1. LL(Stem) # Terminal
        BY DEF LL, Terminal
      <3>2. Write(LL(Stem), IR(Stem))
        BY <1>1, <1>2, <2>1, <2>3, <3>1 DEF EmitIR
      <3>3. Emitted(Stem)'
        BY <1>1, <3>2 DEF Write, Emitted, ContentOf
      <3>4. driver'.at = "exited"
        BY <1>1, <2>3 DEF EmitIR, ExitPrinting, IsDriver
      <3> QED BY <3>2, <3>3, <3>4, WriteOne, <1>1 DEF Run, Emitted
    <2> QED BY <1>6, <2>1, <2>2, <2>3 DEF Generate, GenerateNothing
  <1> QED BY <1>3, <1>5, <1>6 DEF Process, DriverStep

LEMMA OtherSources ==
    ASSUME NEW s, NEW t, s # t
    PROVE  LL(s) # LL(t)
  BY DEF LL

LEMMA ProcessComplete ==
    ASSUME CompleteInv, Process
    PROVE  Complete'
  <1>1. script' = script /\ script.pc \in {"none", "compiling"}
    <2>1. script' = script /\ driver.at \notin {"none", "exited"}
      BY DEF Process, DriverStep, ReadOption, ReadFile, Lex, Parse, Analyse, Generate,
             GenerateNothing, Running
    <2> QED BY <2>1 DEF CompleteInv, IInv, Child
  <1>2. CASE script.pc = "none"
    BY <1>1, <1>2 DEF Complete, SuccessIsComplete, At, Working
  <1>3. CASE script.pc = "compiling"
    <2>1. Run' /\ \A f : f # LL(Stem) => ContentOf(f)' = ContentOf(f)
      BY <1>3, CompilerRuns DEF CompleteInv, Complete
    <2>2. \A i \in DOMAIN script.sources :
             script.sources[i] # Stem /\ Emitted(script.sources[i]) =>
                Emitted(script.sources[i])'
      BY <1>1, <2>1, OtherSources DEF Emitted
    <2>3. Behind
      BY <1>3 DEF CompleteInv, Complete, Working
    <2>4. Behind'
      BY <1>1, <1>3, <2>2, <2>3 DEF Behind, Stem
    <2> QED BY <1>1, <1>3, <2>1, <2>4 DEF Complete, SuccessIsComplete, At, Working
  <1> QED BY <1>1, <1>2, <1>3

LEMMA CompileComplete ==
    ASSUME CompleteInv, Compile
    PROVE  Complete'
  <1>1. /\ IsScript /\ Behind /\ script.pc = "compile" /\ script.next \in Nat \ {0}
        /\ script.sources \in Seq(STRING)
    BY DEF CompleteInv, IInv, Typed, Complete, Compile, At, Working
  <1>2. CASE ExitWith(1)
    <2>1. script'.pc = "trap" /\ script'.code # 0
      BY <1>1, <1>2 DEF ExitWith, IsScript
    <2> QED BY <2>1, FailureIsComplete
  <1>3. CASE /\ script' = [script EXCEPT !.pc = "compiling",
                                         !.tmpFiles = @ \o <<LL(Stem), Obj(Stem)>>]
             /\ Write(LL(Stem), Empty)
             /\ driver' = Started(<<Option("--emit-llvm"), Src(Stem)>>, LL(Stem))
    <2>1. /\ script'.pc = "compiling" /\ script'.next = script.next
          /\ script'.sources = script.sources /\ script'.objects = script.objects
          /\ script'.emitOnly = script.emitOnly
      BY <1>1, <1>3 DEF IsScript
    <2>2. Stem' = Stem
      BY <2>1 DEF Stem
    <2>3. Run'
      <3>1. /\ driver'.at = "options" /\ driver'.modes = {}
            /\ driver'.args = <<Option("--emit-llvm"), Src(Stem)>>
        BY <1>3 DEF Started
      <3> QED BY <2>2, <3>1 DEF Run, Src
    <2>4. \A i \in DOMAIN script.sources :
             script.sources[i] # Stem /\ Emitted(script.sources[i]) =>
                Emitted(script.sources[i])'
      BY <1>3, <2>1, WriteOne, OtherSources DEF Emitted
    <2>5. Behind'
      BY <1>1, <2>1, <2>2, <2>4 DEF Behind
    <2> QED BY <2>1, <2>3, <2>5 DEF Complete, SuccessIsComplete, At, Working
  <1> QED BY <1>2, <1>3 DEF Compile

LEMMA CompiledComplete ==
    ASSUME CompleteInv, Compiled
    PROVE  Complete'
  <1>1. /\ IsScript /\ Behind /\ script.pc = "compiling" /\ script.next \in Nat \ {0}
        /\ script.next \in DOMAIN script.sources
        /\ script.sources \in Seq(STRING) /\ files' = files
        /\ driver.code # 0 \/ Emitted(Stem)
    BY DEF CompleteInv, IInv, Typed, Child, Complete, Compiled, At, Working, driverVars, Run
  <1>2. CASE ExitWith(1)
    <2>1. script'.pc = "trap" /\ script'.code # 0
      BY <1>1, <1>2 DEF ExitWith, IsScript
    <2> QED BY <2>1, FailureIsComplete
  <1>3. CASE script.emitOnly /\ driver.code = 0 /\ KeepIt
    <2>1. /\ script'.pc = "compile" /\ script'.next = script.next + 1
          /\ script'.sources = script.sources /\ script'.emitOnly = script.emitOnly
      BY <1>1, <1>3 DEF KeepIt, IsScript
    <2>2. \A i \in DOMAIN script.sources : i <= script.next => Emitted(script.sources[i])
      BY <1>1, <1>3 DEF Behind, Stem
    <2>3. \A i \in DOMAIN script.sources : i < script'.next => Emitted(script.sources[i])'
      BY <1>1, <2>1, <2>2 DEF Emitted, ContentOf
    <2>4. Behind'
      BY <1>3, <2>1, <2>3 DEF Behind
    <2> QED BY <2>1, <2>4 DEF Complete, SuccessIsComplete, At, Working
  <1>4. CASE ~script.emitOnly /\ Then("assemble")
    <2>1. /\ script'.pc = "assemble" /\ script'.next = script.next
          /\ script'.sources = script.sources /\ script'.objects = script.objects
          /\ script'.emitOnly = script.emitOnly
      BY <1>1, <1>4 DEF Then, IsScript
    <2>2. Behind'
      BY <1>1, <1>4, <2>1 DEF Behind
    <2> QED BY <1>4, <2>1, <2>2 DEF Complete, SuccessIsComplete, At, Working
  <1> QED BY <1>2, <1>3, <1>4 DEF Compiled

LEMMA AssembleComplete ==
    ASSUME CompleteInv, Assemble
    PROVE  Complete'
  <1>1. /\ IsScript /\ Behind /\ script.pc = "assemble" /\ script.next \in Nat \ {0}
        /\ script.next \in DOMAIN script.sources /\ ~script.emitOnly
        /\ script.sources \in Seq(STRING) /\ script.objects \in Seq(STRING)
    BY DEF CompleteInv, IInv, Typed, Child, Complete, Assemble, At, Working, Reports
  <1>2. CASE ExitWith(1)
    <2>1. script'.pc = "trap" /\ script'.code # 0
      BY <1>1, <1>2 DEF ExitWith, IsScript
    <2> QED BY <2>1, FailureIsComplete
  <1>3. CASE script' = [script EXCEPT !.pc = "compile", !.next = @ + 1,
                                      !.objects = Append(@, Stem)]
    <2>1. /\ script'.pc = "compile" /\ script'.next = script.next + 1
          /\ script'.sources = script.sources
          /\ script'.objects = Append(script.objects, Stem)
          /\ script'.emitOnly = script.emitOnly
      BY <1>1, <1>3 DEF IsScript
    <2>2. /\ Len(script'.objects) = script.next
          /\ \A i \in DOMAIN script'.objects : script'.objects[i] = script.sources[i]
          /\ script'.next <= Len(script.sources) + 1
      BY <1>1, <2>1 DEF Behind, Stem
    <2>3. Behind'
      BY <1>1, <2>1, <2>2 DEF Behind
    <2> QED BY <2>1, <2>3 DEF Complete, SuccessIsComplete, At, Working
  <1> QED BY <1>2, <1>3 DEF Assemble, Fails

LEMMA AllCompiledComplete ==
    ASSUME CompleteInv, AllCompiled
    PROVE  Complete'
  <1>1. /\ IsScript /\ Behind /\ script.pc = "compile" /\ script.next \in Nat \ {0}
        /\ script.next > Len(script.sources) /\ script.sources \in Seq(STRING)
        /\ files' = files
    BY DEF CompleteInv, IInv, Typed, Complete, AllCompiled, At, MoreSources, Working, driverVars
  <1>2. CASE script.emitOnly /\ ExitWith(0)
    <2>1. /\ script'.pc = "trap" /\ script'.sources = script.sources
          /\ script'.emitOnly = script.emitOnly
      BY <1>1, <1>2 DEF ExitWith, IsScript
    <2>2. \A i \in DOMAIN script.sources : Emitted(script.sources[i])
      BY <1>1, <1>2 DEF Behind
    <2>3. Delivered'
      BY <1>1, <1>2, <2>1, <2>2 DEF Delivered, Emitted, ContentOf
    <2> QED BY <2>1, <2>3 DEF Complete, SuccessIsComplete, At, Working
  <1>3. CASE ~script.emitOnly /\ Then("link")
    <2>1. /\ script'.pc = "link" /\ script'.next = script.next
          /\ script'.sources = script.sources /\ script'.objects = script.objects
          /\ script'.emitOnly = script.emitOnly
      BY <1>1, <1>3 DEF Then, IsScript
    <2>2. Behind'
      BY <1>1, <1>3, <2>1 DEF Behind
    <2> QED BY <1>1, <1>3, <2>1, <2>2 DEF Complete, SuccessIsComplete, At, Working
  <1> QED BY <1>2, <1>3 DEF AllCompiled

LEMMA LinkComplete ==
    ASSUME CompleteInv, Link
    PROVE  Complete'
  <1>1. /\ IsScript /\ Behind /\ script.pc = "link" /\ script.next \in Nat \ {0}
        /\ script.next > Len(script.sources) /\ ~script.emitOnly
        /\ script.sources \in Seq(STRING) /\ script.objects \in Seq(STRING)
    BY DEF CompleteInv, IInv, Typed, Complete, Link, At, Working, Reports
  <1>2. CASE ExitWith(1)
    <2>1. script'.pc = "trap" /\ script'.code # 0
      BY <1>1, <1>2 DEF ExitWith, IsScript
    <2> QED BY <2>1, FailureIsComplete
  <1>3. CASE Write(script.output, Program(script.objects)) /\ ExitWith(0)
    <2>1. /\ script'.pc = "trap" /\ script'.sources = script.sources
          /\ script'.output = script.output /\ script'.emitOnly = script.emitOnly
      BY <1>1, <1>3 DEF ExitWith, IsScript
    <2>2. script.objects = script.sources
      <3>1. /\ Len(script.objects) = Len(script.sources)
            /\ \A i \in 1..Len(script.objects) : script.objects[i] = script.sources[i]
        BY <1>1 DEF Behind
      <3> QED BY <1>1, <3>1, SeqEqual
    <2>3. ContentOf(script.output)' = Program(script.sources)
      BY <1>3, <2>1, <2>2 DEF Write, ContentOf
    <2>4. Delivered'
      BY <1>1, <2>1, <2>3 DEF Delivered, Program
    <2> QED BY <2>1, <2>4 DEF Complete, SuccessIsComplete, At, Working
  <1> QED BY <1>2, <1>3 DEF Link, Fails

LEMMA EndComplete ==
    ASSUME CompleteInv, Interrupt \/ Cleanup
    PROVE  Complete'
  <1>1. IsScript
    BY DEF CompleteInv, IInv, Typed
  <1>2. CASE Interrupt
    <2>1. script'.pc \in {"trap", "stopped", "killed"} /\ script'.code # 0
      <3>1. CASE ExitWith(130)
        BY <1>1, <3>1 DEF ExitWith, IsScript
      <3>2. CASE Stop(130)
        BY <1>1, <3>2 DEF Stop, IsScript
      <3>3. CASE script' = [script EXCEPT !.pc = "killed", !.code = 130]
        BY <1>1, <3>3 DEF IsScript
      <3> QED BY <1>2, <3>1, <3>2, <3>3 DEF Interrupt
    <2> QED BY <2>1, FailureIsComplete
  <1>3. CASE Cleanup
    <2>1. /\ script.pc = "trap" /\ script'.pc \in {"exited", "trap"} /\ script'.code = script.code
          /\ script'.sources = script.sources /\ script'.emitOnly = script.emitOnly
          /\ script'.output = script.output /\ script'.keepIR = script.keepIR
          /\ script'.tmpFiles = script.tmpFiles
      BY <1>1, <1>3 DEF Cleanup, At, Then, IsScript
    <2>2. script.code = 0 => Delivered \/ Removable
      BY <2>1 DEF CompleteInv, Complete
    <2>3. Removable => Removable'
      BY <2>1, SameList DEF Removable, Linking
    <2>4. Delivered => Delivered' \/ Removable'
      <3>1. CASE files' = files
        BY <2>1, <3>1 DEF Delivered, Emitted, ContentOf, Program
      <3>2. CASE /\ Linking /\ script.removed # Len(script.tmpFiles)
                 /\ files' = [g \in DOMAIN files |->
                              IF g = script.tmpFiles[script.removed + 1] THEN Absent ELSE files[g]]
        <4>1. script.tmpFiles[script.removed + 1] \in OnList
          BY <2>1, <3>2, NextIsListed DEF CompleteInv
        <4>2. CASE script.output = script.tmpFiles[script.removed + 1]
          BY <2>3, <3>2, <4>1, <4>2 DEF Removable
        <4>3. CASE script.output # script.tmpFiles[script.removed + 1]
          <5>1. ContentOf(script.output)' = ContentOf(script.output)
            BY <2>1, <3>2, <4>3 DEF ContentOf
          <5> QED BY <2>1, <3>2, <5>1 DEF Delivered, Linking, Program
        <4> QED BY <4>2, <4>3
      <3> QED BY <1>3, <3>1, <3>2 DEF Cleanup, Linking
    <2>5. script'.code = 0 => Delivered' \/ Removable'
      BY <2>1, <2>2, <2>3, <2>4
    <2>6. SuccessIsComplete'
      BY <2>1, <2>5 DEF SuccessIsComplete, Delivered, Removable, Emitted, OnList, Linking, At
    <2> QED BY <2>1, <2>5, <2>6 DEF Complete, Working
  <1> QED BY <1>2, <1>3

(* When the script reports success, everything it was asked for is there   *)
(* and made of all of the sources.                                         *)
THEOREM BuildSuccessIsComplete == Spec => []SuccessIsComplete
  <1>1. CompleteInv /\ [Next]_vars => Complete'
    <2> SUFFICES ASSUME CompleteInv, [Next]_vars PROVE Complete'
      OBVIOUS
    <2>1. CASE UNCHANGED vars
      BY <2>1 DEF vars, driverVars, CompleteInv, Complete, Run, Behind, Delivered, Emitted,
                  Removable, Linking, OnList, ListedFrom, ContentOf, SuccessIsComplete, At, Stem
    <2> QED BY <2>1, OptionsComplete, ProcessComplete, CompileComplete, CompiledComplete,
               AssembleComplete, AllCompiledComplete, LinkComplete, EndComplete DEF Next, Step
  <1>2. Complete => SuccessIsComplete
    BY DEF Complete
  <1> QED BY InitComplete, Invariance, ReportInvariance, <1>1, <1>2, PTL DEF Spec, CompleteInv
=============================================================================
