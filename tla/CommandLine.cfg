CONSTANTS
    File <- MCFile
    RealPath <- MCRealPath
    IsExecutable = {"link", "second", "real", "goroot", "built"}
    Turango = {"turango", "turango 2"}
    Missing = "none"
    Empty = "empty"
    World <- MCWorld
    Installed = "turango"
    ExitCode = {0, 1, 2}
    Command <- MCCommand
    Regexp = {".", "New"}
    IntOf <- MCIntOf
    FloatOf <- MCFloatOf
    NaN = {"nan"}
    BoolOf <- MCBoolOf
    Hex = {"a1"}
    Outcome <- MCOutcome
SPECIFICATION Spec
INVARIANTS ParsedAsGiven ExitTells DiscoveryOrder
PROPERTY Ends
CHECK_DEADLOCK FALSE
