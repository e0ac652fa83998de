\* The baseline runs the selected packages; under the full scope a mutant is
\* judged by the tests of its whole module.
CONSTANTS
    Package <- MCPackage
    ModuleOf <- MCModuleOf
    NoModule = "none"
    FilesOf <- MCFilesOf
    TestFile = {"ctest"}
    CgoFile = {"a2"}
    Operator = {"swap", "const"}
    TypedOperator = {"const"}
    Finds <- MCFinds
    Request <- MCNarrow
    Broken <- MCBroken
    Duration = {4, 40}
    BaselineRuns = 3
    MinBaselineTimeout = 10
    Cpus = 3
SPECIFICATION Spec
INVARIANT JudgedByPassingTests
CHECK_DEADLOCK FALSE
