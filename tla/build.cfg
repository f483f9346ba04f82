SPECIFICATION Spec
CONSTANTS
    Stems = {"a", "b"}
    CompilerLines <- MCCompilerLines
    ScriptLines <- MCScriptLines
INVARIANTS
    NothingLeftBehind
    SuccessIsComplete
    OnlyOutputsChange
    ErrorsAreReported
PROPERTIES
    Termination
\* A command ends.
CHECK_DEADLOCK FALSE
