------------------------------ MODULE MCBuild ------------------------------
(***************************************************************************)
(* Command lines for TLC: every short one, so that all errors in them      *)
(* occur, and for the script those with two sources and an option or two.  *)
(***************************************************************************)
EXTENDS Build

Words   == {Src("a"), Src("missing"), LL("a"), <<"out", "">>, Option("-o"), Option("-h"),
            Option("--unknown")}
UpTo(n, words) == UNION {[1..k -> words] : k \in 0..n}

MCCompilerLines == UpTo(3, Words \cup Modes)

OptionWords == {Option("--keep-ir"), Option("--emit-llvm"), Option("-v")}
Flags   == UpTo(1, OptionWords) \cup {<<Option("--keep-ir"), Option("--emit-llvm")>>}
Outputs == {<<>>} \cup {<<Option("-o"), f>> : f \in {<<"out", "">>, LL("a"), Src("b")}}
Inputs  == {<<Src("a")>>} \cup {<<Src("a"), Src(t)>> : t \in {"a", "b", "missing"}}

MCScriptLines == UpTo(3, Words \cup OptionWords)
                 \cup {f \o o \o i : f \in Flags, o \in Outputs, i \in Inputs}
=============================================================================
