\* A project that grows: interrupted runs, edits, deletions, --multiple, another go_package.
CONSTANTS
    Proto <- Grown
    Service = {"User", "UserApi", "Userapi"}
    RpcName = {"getIt", "getit"}
    LowerName <- MCLowerName
    FileName <- MCFileName
    Modes <- MCModes
    Once = {"svc"}
    PbPath = {0, 1, 2, 3}
    ForeignPb = {3}
    PackageBase <- MCPackageBase
    OutputPath = 0
    MaxKills = 1
    MaxUserSteps = 2
    None = None
SPECIFICATION Spec
INVARIANTS TypeOK RunGenerates EveryRpcServed PbIsOwnUnlessOlder
PROPERTIES EditsSurvive
