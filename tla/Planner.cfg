\* Every kind of request, with and without a failing package.
CONSTANTS
    Package <- MCPackage
    ModuleOf <- MCModuleOf
    NoModule = "none"
    FilesOf <- MCFilesOf
    TestFile = {"ctest"}
    CgoFile = {"a2"}
    Operator = {"swap", "const"}
    TypedOperator = {"const"}
    Finds <- MCFinds
    Request <- MCRequest
    Broken <- MCBroken
    Duration = {4, 40}
    BaselineRuns = 3
    MinBaselineTimeout = 10
    Cpus = 3
SPECIFICATION Spec
INVARIANTS JobsAreRight FingerprintRight DemotionLocal BaselineSound EstimateExact
PROPERTIES Returned
CHECK_DEADLOCK FALSE
